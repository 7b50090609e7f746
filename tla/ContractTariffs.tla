--------------------------- MODULE ContractTariffs ---------------------------
(***************************************************************************)
(* The button of the tariffs page that makes the tariffs the contract of a *)
(* partner asks for and the hotel does not have yet.  The documents come   *)
(* from the partner one by one; the tariffs are made by people, on pages   *)
(* that may be behind, and one call at a time.  The page looks for what is *)
(* missing among the tariffs of the contract, the server for rivals among  *)
(* all tariffs of the partner.                                             *)
(***************************************************************************)
EXTENDS Integers, SequencesExt

CONSTANTS
  Pool,     \* documents that may come: [contract, account, from, to, rows, fill]
  Contract, \* the contract of the button
  ContractNumbers, \* what a tariff of the partner may name as its contract, Nil included
  Tabs,     \* open pages
  Nil,
  MaxTries  \* bound: presses of the button and changes of tariffs

\* The rows of a document are a list.
ASSUME SheetsAssumption ==
  /\ \A doc \in Pool : IsFiniteSet(DOMAIN doc.rows)
  /\ Contract \in ContractNumbers

VARIABLES
  sheets,  \* the documents so far
  tariffs, \* tariffs of the partner: [contract, slice, code, active]
  pages,   \* Tabs -> Nil, or [tariffs, used, todo, next, crossed]: the page, what it has still
           \* to make, and whether it was behind at the press or others changed tariffs since
  tries

contractVars == <<sheets, tariffs, pages, tries>>

Earliest(S) == CHOOSE x \in S : \A y \in S : x <= y

PlanDocs == {doc \in sheets : doc.contract = Contract}
HasPrice(row) == row.price # Nil

\* Account, passengers, kind and meal: what a tariff is for.
SlicesOf(doc) ==
  {[account |-> doc.account, customer |-> row.customer, kind |-> row.kind, meal |-> row.meal] :
     row \in {row \in ToSet(doc.rows) : HasPrice(row)}}
ContractSlices == UNION {SlicesOf(doc) : doc \in PlanDocs}
\* A tariff under another contract is not the one, even for the same.
PlanForSlice(list, slice) == {p \in list : p.slice = slice /\ p.active /\ p.contract = Contract}
\* The contract is no part of what makes two tariffs rivals.
Rivals(slice) == {p \in tariffs : p.slice = slice /\ p.active}
CodeIsFree(code) == \A p \in tariffs : p.code # code

TariffsInit ==
  /\ sheets = {} /\ tariffs = {} /\ tries = 0
  /\ pages = [t \in Tabs |-> Nil]

PutContractPrices(doc) ==
  /\ doc \notin sheets
  /\ sheets' = sheets \cup {doc}
  /\ UNCHANGED <<tariffs, pages, tries>>

\* The pages on which a press is not over are told of nothing.
Crossed(q) == IF pages[q] = Nil THEN Nil ELSE [pages[q] EXCEPT !.crossed = @ \/ pages[q].todo # <<>>]

LoadTariffs(t) ==
  /\ pages[t] # Nil => pages[t].todo = <<>>
  /\ pages' = [pages EXCEPT ![t] = [tariffs |-> tariffs, used |-> {}, todo |-> <<>>, next |-> 1, crossed |-> FALSE]]
  /\ UNCHANGED <<sheets, tariffs, tries>>

\* As if codes were counted on from the number of tariffs there are.
SlipFreeCode(page) == Cardinality(page.used) + 1
\* Codes are counted from one, and those the page knew of passed over.
FreeCode(page) == Earliest({n \in page.next .. page.next + Cardinality(page.used) : n \notin page.used})
CreateFromContract(t) ==
  /\ tries < MaxTries /\ tries' = tries + 1
  /\ pages[t] # Nil /\ pages[t].todo = <<>>
  /\ LET missing == {s \in ContractSlices : PlanForSlice(pages[t].tariffs, s) = {}}
     IN /\ missing # {}
        /\ pages' = [pages EXCEPT ![t] =
             [tariffs |-> pages[t].tariffs, used |-> {p.code : p \in pages[t].tariffs}, next |-> 1,
              todo |-> SetToSeq(missing), crossed |-> pages[t].tariffs # tariffs]]
  /\ UNCHANGED <<sheets, tariffs>>
\* The code of a tariff is the only one of its hotel, and of the tariffs in use no two
\* are for the same, whichever contract they name.
Acceptable(page) == CodeIsFree(FreeCode(page)) /\ Rivals(Head(page.todo)) = {}
CreateNext(t) ==
  /\ pages[t] # Nil /\ pages[t].todo # <<>>
  /\ Acceptable(pages[t])
  /\ tariffs' = tariffs \cup {[contract |-> Contract, slice |-> Head(pages[t].todo),
                               code |-> FreeCode(pages[t]), active |-> TRUE]}
  /\ pages' = [q \in Tabs |-> IF q # t THEN Crossed(q)
       ELSE [tariffs |-> tariffs', used |-> pages[t].used \cup {FreeCode(pages[t])}, todo |-> Tail(pages[t].todo),
             next |-> FreeCode(pages[t]) + 1, crossed |-> pages[t].crossed]]
  /\ UNCHANGED <<sheets, tries>>
\* What is refused, or a call that failed, ends it half way.
Stops(t) ==
  /\ pages[t] # Nil /\ pages[t].todo # <<>>
  /\ pages' = [pages EXCEPT ![t].todo = <<>>]
  /\ UNCHANGED <<sheets, tariffs, tries>>
\* By hand, in the form of a tariff: whatever contract it names and whatever it is for,
\* it comes into use only if no other in use is for the same.
ByHand ==
  /\ tries < MaxTries /\ tries' = tries + 1
  /\ pages' = [q \in Tabs |-> Crossed(q)]
  /\ UNCHANGED sheets
AddsTariff ==
  /\ ByHand
  /\ \E number \in ContractNumbers, s \in ContractSlices, n \in 1 .. Cardinality(tariffs) + 1 :
       /\ CodeIsFree(n) /\ Rivals(s) = {}
       /\ tariffs' = tariffs \cup {[contract |-> number, slice |-> s, code |-> n, active |-> TRUE]}
ChangesTariff(p) ==
  /\ ByHand
  /\ \E number \in ContractNumbers, s \in {p.slice} \cup ContractSlices, on \in BOOLEAN :
       /\ on => Rivals(s) \subseteq {p}
       /\ tariffs' = (tariffs \ {p}) \cup {[contract |-> number, slice |-> s, code |-> p.code, active |-> on]}
DeletesTariff(p) == ByHand /\ tariffs' = tariffs \ {p}

TariffsStep ==
  \/ \E t \in Tabs : LoadTariffs(t) \/ CreateFromContract(t) \/ CreateNext(t) \/ Stops(t)
  \/ AddsTariff
  \/ \E p \in tariffs : ChangesTariff(p) \/ DeletesTariff(p)
ContractNext == (\E doc \in Pool : PutContractPrices(doc)) \/ TariffsStep
ContractSpec == TariffsInit /\ [][ContractNext]_contractVars

(***************************************************************************)
(* Properties.                                                             *)
(***************************************************************************)
\* Pressed on a page that is up to date, and while nobody else changes tariffs, the button
\* is refused for one reason only, whatever was made, switched off or deleted before and
\* wherever an earlier press stopped: a tariff of the partner that is in use for the same
\* under another contract, or under none.  The code it sends is free.
RefusedForAnotherContract ==
  \A t \in Tabs : pages[t] # Nil => (pages[t].todo # <<>> /\ ~pages[t].crossed =>
    /\ CodeIsFree(FreeCode(pages[t]))
    /\ \A p \in Rivals(Head(pages[t].todo)) : p.contract # Contract)
===============================================================================
