---------------------------- MODULE ContractSheets ----------------------------
(***************************************************************************)
(* The contract of a partner, as the tariffs page of the hotel reads it:   *)
(* which prices each tariff should have on a day, and the base prices and  *)
(* seasons the page fills in.  Prices are whole, categories and conditions *)
(* are names.                                                              *)
(***************************************************************************)
EXTENDS ContractTariffs

CONSTANTS
  Types, MaxOccupancy, \* categories of rooms, and how many each takes
  LastDay              \* bound: the calendar

VARIABLE today

sheetVars == <<contractVars, today>>

Days == 0 .. LastDay
Latest(S) == CHOOSE x \in S : \A y \in S : y <= x
Keys == {<<t, o>> : t \in Types, o \in 0 .. Latest({MaxOccupancy[t] : t \in Types})}

(***************************************************************************)
(* Documents, rows and slices.                                             *)
(***************************************************************************)
InForce(doc, d) == doc.from <= d /\ (doc.to = Nil \/ doc.to >= d)
\* Older before newer: an amendment corrects the contract.
DocsAt(docs, d) == SetToSortSeq({doc \in docs : InForce(doc, d)}, LAMBDA x, y : x.from < y.from)

\* A row for all suits a tariff for one, not the other way round.
RowFits(row, doc, slice) ==
  /\ slice.account = Nil \/ doc.account = Nil \/ doc.account = slice.account
  /\ row.customer \in {Nil, slice.customer}
  /\ row.kind \in {Nil, slice.kind}
  /\ row.meal = slice.meal
  /\ HasPrice(row)
RowRoomTypes(row) == row.types \cap Types

\* What a row says: a price for each number of guests, or one for its own.
Says(row) ==
  UNION {{[key |-> <<t, o>>, price |-> IF row.perPerson THEN row.price * o ELSE row.price] :
            o \in IF row.perPerson THEN 1 .. MaxOccupancy[t] ELSE {row.guests} \cap 0 .. MaxOccupancy[t]} :
         t \in RowRoomTypes(row)}
Score(row) == (IF row.customer # Nil THEN 2 ELSE 0) + (IF row.kind # Nil THEN 1 ELSE 0)

Empty == [k \in Keys |-> Nil]
\* The more particular row is right, and of two alike the newer.
Lay(cells, it) ==
  [k \in Keys |->
     IF \E say \in Says(it.row) :
          /\ say.key = k
          /\ cells[k] = Nil \/ Score(it.row) > cells[k].score
               \/ (Score(it.row) = cells[k].score /\ it.doc >= cells[k].doc)
     THEN [price |-> (CHOOSE say \in Says(it.row) : say.key = k).price, score |-> Score(it.row), doc |-> it.doc]
     ELSE cells[k]]

Items(docs, slice) ==
  FlattenSeq([i \in DOMAIN docs |->
    LET fit == SelectSeq(docs[i].rows, LAMBDA row : RowFits(row, docs[i], slice))
    IN [j \in DOMAIN fit |-> [row |-> fit[j], doc |-> i]]])
RowCells(docs, slice, d) ==
  LET cells == FoldLeft(Lay, Empty, Items(DocsAt(docs, d), slice))
  IN [k \in Keys |-> IF cells[k] = Nil THEN Nil ELSE cells[k].price]

\* The grids of the partner, if it sends any: the last to begin by the day, the one of
\* the slice or, for an airline the contract does not name, the one for any.
Fills(docs) == UNION {{[grid |-> doc.fill[i], doc |-> doc] : i \in DOMAIN doc.fill} : doc \in docs}
Begun(docs, d) == {f \in Fills(docs) : f.grid.from <= d}
GridCells(docs, slice, d) ==
  IF Begun(docs, d) = {} THEN Empty
  ELSE LET best == CHOOSE f \in Begun(docs, d) : \A g \in Begun(docs, d) : g.grid.from <= f.grid.from
           Of(customer) == {s \in best.grid.slices : s.customer = customer /\ s.kind = slice.kind /\ s.meal = slice.meal}
           picked == IF Of(slice.customer) # {} THEN Of(slice.customer) ELSE Of(Nil)
           foreign == slice.account # Nil /\ best.doc.account # Nil /\ best.doc.account # slice.account
           said == IF foreign \/ picked = {} THEN {} ELSE (CHOOSE s \in picked : TRUE).cells
       IN [k \in Keys |-> IF \E c \in said : c.key = k /\ k[2] <= MaxOccupancy[k[1]]
                          THEN (CHOOSE c \in said : c.key = k).price ELSE Nil]
SliceCells(docs, slice, d) ==
  IF Fills(docs) = {} THEN RowCells(docs, slice, d) ELSE GridCells(docs, slice, d)

(***************************************************************************)
(* Base prices and seasons.                                                *)
(***************************************************************************)
FirstDays(docs) == {doc.from : doc \in docs}
\* Of today, or of the last period of a contract that is over.
BaseDay(docs) ==
  IF docs = {} \/ DocsAt(docs, today) # <<>> THEN today
  ELSE IF {s \in FirstDays(docs) : s <= today} # {} THEN Latest({s \in FirstDays(docs) : s <= today})
  ELSE Earliest(FirstDays(docs))
\* As if only the next amendment were a season.
SlipSeasons(docs) ==
  LET future == {s \in FirstDays(docs) : s > BaseDay(docs)}
  IN IF future = {} THEN {} ELSE {[from |-> Earliest(future), to |-> LastDay]}
\* A season to the day before the next, or to the first end of a document it begins with.
Seasons(docs) ==
  LET future == {s \in FirstDays(docs) : s > BaseDay(docs)}
      End(from) ==
        LET ends == {doc.to : doc \in {doc \in docs : InForce(doc, from) /\ doc.to # Nil}}
            next == {s - 1 : s \in {s \in future : s > from}}
        IN Earliest(ends \cup next \cup {LastDay})
  IN {[from |-> from, to |-> End(from)] : from \in future}

\* What a night costs once both were filled in and saved: the price of the latest season
\* that has one, else the base price.
Filled(docs, slice, key, d) ==
  LET has == {s \in Seasons(docs) : s.from <= d /\ d <= s.to /\ SliceCells(docs, slice, s.from)[key] # Nil}
      from == IF has = {} THEN BaseDay(docs) ELSE Latest({s.from : s \in has})
  IN [since |-> from, price |-> SliceCells(docs, slice, from)[key]]

SheetsInit == TariffsInit /\ today = 0
DayPasses ==
  /\ today < LastDay /\ today' = today + 1
  /\ UNCHANGED contractVars
SheetsStep == (\E doc \in Pool : PutContractPrices(doc) /\ UNCHANGED today) \/ DayPasses
SheetsSpec == SheetsInit /\ [][SheetsStep \/ (TariffsStep /\ UNCHANGED today)]_sheetVars

(***************************************************************************)
(* Properties.                                                             *)
(***************************************************************************)
\* The rows that could price a key on a day, and which of two is right, said at once.
Candidates(docs, slice, key, d) ==
  {<<doc, i>> \in docs \X (1 .. Latest({Len(doc.rows) : doc \in docs})) :
     /\ i \in DOMAIN doc.rows /\ doc.from <= d /\ (doc.to = Nil \/ d <= doc.to)
     /\ LET row == doc.rows[i]
        IN /\ HasPrice(row) /\ row.meal = slice.meal
           /\ slice.account # Nil => doc.account \in {Nil, slice.account}
           /\ row.customer # Nil => row.customer = slice.customer
           /\ row.kind # Nil => row.kind = slice.kind
           /\ \E say \in Says(row) : say.key = key}
Right(x, y) ==
  LET sx == Score(x[1].rows[x[2]])
      sy == Score(y[1].rows[y[2]])
  IN \/ sx > sy
     \/ sx = sy /\ x[1].from > y[1].from
     \/ sx = sy /\ x[1] = y[1] /\ x[2] >= y[2]

\* Every tariff has the price of the row that is right for it: of those in force that
\* are meant for it the most particular, of these the newest; and none if none is meant.
CellsAreRight ==
  LET docs == {doc \in PlanDocs : doc.fill = <<>>}
  IN docs # {} => \A slice \in ContractSlices, key \in Keys, d \in Days :
       LET fit == Candidates(docs, slice, key, d)
           price == RowCells(docs, slice, d)[key]
       IN IF fit = {} THEN price = Nil
          ELSE \E x \in fit : (\A y \in fit : Right(x, y)) /\ [key |-> key, price |-> price] \in Says(x[1].rows[x[2]])

\* Filled in from the contract, a tariff has on every day to come the price the contract
\* has for that day, until a document ends that was in force when its period began.
FilledIsContract ==
  PlanDocs # {} =>
    \A slice \in ContractSlices, key \in Keys, d \in Days :
      LET f == Filled(PlanDocs, slice, key, d)
      IN d >= today /\ d >= BaseDay(PlanDocs)
           /\ (\A doc \in PlanDocs : doc.to # Nil => ~(f.since <= doc.to /\ doc.to < d))
         => f.price = SliceCells(PlanDocs, slice, d)[key]
===============================================================================
