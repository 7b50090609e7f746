------------------------------ MODULE HotelAbout ------------------------------
(***************************************************************************)
(* The description of a hotel.  It is stored as one text of labelled lines *)
(* and shown to Kars Avia so; the settings page reads the text into an     *)
(* editor of sections, switches and free words, and writes it back whole   *)
(* when the editor was touched, with the marked surroundings as tags.  A   *)
(* text is a sequence of lines, a line a label and words; what separates   *)
(* words and lines is left out.                                            *)
(***************************************************************************)
EXTENDS Naturals, SequencesExt

CONSTANTS
  Lists,      \* the sections with a dictionary, "infrastructure" among them
  Means,      \* section -> (known word -> item of its dictionary)
  Pages,      \* settings pages open at a time
  Texts,      \* the texts a hotel may have had before it had the editor
  TypedWords, TypedLines, \* what is typed into a section and below all sections
  NoPage,
  MaxSteps    \* bound: edits and saves

Services == {"laundry", "ironing"}
Items(s) == {Means[s][w] : w \in DOMAIN Means[s]}
Line(label, words) == [label |-> label, words |-> words]

VARIABLES
  stored, \* [text, tags]: the hotel's row
  page,   \* Pages -> NoPage, or the open page
  steps,  \* edits and saves so far
  last    \* [by, crossed]: NoPage or what the last save was of; whether ever a page
          \* was saved that another's save had overtaken

aboutVars == <<stored, page, last, steps>>

(***************************************************************************)
(* parseHotelAbout.                                                        *)
(***************************************************************************)
\* All a text says under a label, in its order.
Said(text, label) == FlattenSeq([i \in DOMAIN text |-> IF text[i].label = label THEN text[i].words ELSE <<>>])

Known(s, w) == w \in DOMAIN Means[s]
Meaning(s, w) == IF Known(s, w) THEN Means[s][w] ELSE w

\* As if a word a section knows were noted and kept besides.
SlipReadList(s, words) == [checked |-> {}, extra |-> words]
ReadList(s, words) ==
  [checked |-> {Means[s][w] : w \in {v \in ToSet(words) : Known(s, v)}},
   extra |-> SelectSeq(words, LAMBDA w : ~Known(s, w))]

Phrases == Services \cup {"both", "neither"}
\* The switches follow the phrases one after another.
Switch(on, phrase) ==
  CASE phrase \in Services -> on \cup {phrase}
    [] phrase = "both" -> Services
    [] phrase = "neither" -> {}
ReadLaundry(words) ==
  [on |-> FoldLeft(Switch, {}, SelectSeq(words, LAMBDA w : w \in Phrases)),
   extra |-> SelectSeq(words, LAMBDA w : w \notin Phrases)]

\* Lines with no label, or with one nobody knows, are kept as they are; the name
\* and the place are not read, the card of the hotel has them.
ParseHotelAbout(text) ==
  [list |-> [s \in Lists |-> ReadList(s, Said(text, s))],
   laundry |-> ReadLaundry(Said(text, "laundry")),
   other |-> [i \in DOMAIN SelectSeq(text, LAMBDA l : l.label \in {"free", "other"}) |->
               Line("free", SelectSeq(text, LAMBDA l : l.label \in {"free", "other"})[i].words)]]

(***************************************************************************)
(* buildHotelAboutText.                                                    *)
(***************************************************************************)
ListText(section) == SetToSeq(section.checked) \o section.extra
LaundryText(laundry) == SetToSeq(laundry.on) \o laundry.extra
\* Said only if there is something to say.
Row(label, words) == IF words = <<>> THEN <<>> ELSE <<Line(label, words)>>
BuildHotelAboutText(about) ==
  Row("name", <<"card">>) \o Row("location", <<"card">>)
    \o FlattenSeq([i \in DOMAIN SetToSeq(Lists) |->
         LET s == SetToSeq(Lists)[i] IN Row(s, ListText(about.list[s]))])
    \o Row("laundry", LaundryText(about.laundry))
    \o about.other

InfrastructureTags(about) == about.list["infrastructure"].checked

(***************************************************************************)
(* The settings page.  "edited" is what was changed since the page was     *)
(* opened or last saved; "hasty" what was changed while a save was under   *)
(* way: the editor stays open, only the button waits.                      *)
(***************************************************************************)
AboutInit ==
  /\ \E text \in Texts :
       stored \in [text : {text}, tags : {{}, InfrastructureTags(ParseHotelAbout(text))}]
  /\ page = [p \in Pages |-> NoPage]
  /\ last = [by |-> NoPage, crossed |-> FALSE]
  /\ steps = 0

Open(p) ==
  /\ page[p] = NoPage
  /\ page' = [page EXCEPT ![p] =
       [description |-> stored.text, about |-> ParseHotelAbout(stored.text), aboutDirty |-> FALSE,
        sent |-> NoPage, edited |-> {}, hasty |-> {}, behind |-> FALSE]]
  /\ UNCHANGED <<stored, last, steps>>

May(p) == page[p] # NoPage /\ steps < MaxSteps

Edit(p, part, about, dirty) ==
  /\ about # page[p].about
  /\ page' = [page EXCEPT ![p].about = about, ![p].aboutDirty = @ \/ dirty,
       ![p].edited = IF page[p].sent = NoPage THEN @ \cup {part} ELSE @,
       ![p].hasty = IF page[p].sent = NoPage THEN @ ELSE @ \cup {part}]
  /\ steps' = steps + 1
  /\ UNCHANGED <<stored, last>>

ToggleAboutItem(p, s, item) ==
  May(p) /\ item \in Items(s) /\
    LET was == page[p].about.list[s].checked
    IN Edit(p, "section", [page[p].about EXCEPT !.list[s].checked =
              IF item \in was THEN was \ {item} ELSE was \cup {item}], TRUE)
SetExtra(p, s, words) ==
  May(p) /\ Edit(p, "section", [page[p].about EXCEPT !.list[s].extra = words], TRUE)
SetLaundry(p, on, words) ==
  May(p) /\ Edit(p, "section", [page[p].about EXCEPT !.laundry = [on |-> on, extra |-> words]], TRUE)
\* The free text is set, and the page not told that it was touched.
SetOther(p, lines) ==
  May(p) /\ Edit(p, "other", [page[p].about EXCEPT !.other = lines], FALSE)

\* The description is sent whole, as it was opened unless the editor was touched;
\* an empty one, and tags nobody touched, are not sent and stay.
Payload(p) ==
  [text |-> IF page[p].aboutDirty THEN BuildHotelAboutText(page[p].about) ELSE page[p].description,
   tags |-> IF page[p].aboutDirty THEN InfrastructureTags(page[p].about) ELSE NoPage,
   about |-> page[p].about, dirty |-> page[p].aboutDirty]
HandleSave(p) ==
  /\ May(p) /\ page[p].sent = NoPage
  /\ page' = [page EXCEPT ![p].sent = Payload(p)]
  /\ steps' = steps + 1
  /\ UNCHANGED <<stored, last>>

\* The editor is no more dirty, whatever was done in it since the save was sent.
SaveDone(p) ==
  /\ page[p] # NoPage /\ page[p].sent # NoPage
  /\ LET sent == page[p].sent
     IN /\ stored' = [text |-> IF sent.text = <<>> THEN stored.text ELSE sent.text,
                      tags |-> IF sent.tags = NoPage THEN stored.tags ELSE sent.tags]
        /\ page' = [q \in Pages |->
             IF q = p THEN [page[p] EXCEPT !.description = sent.text, !.sent = NoPage, !.edited = {}, !.hasty = {},
                              !.aboutDirty = @ /\ ~sent.dirty]
             ELSE IF page[q] = NoPage THEN NoPage ELSE [page[q] EXCEPT !.behind = TRUE]]
        /\ last' = [by |-> [about |-> sent.about, dirty |-> sent.dirty, edited |-> page[p].edited],
                    crossed |-> last.crossed \/ page[p].behind]
  /\ UNCHANGED steps
SaveFails(p) ==
  /\ page[p] # NoPage /\ page[p].sent # NoPage
  /\ page' = [page EXCEPT ![p].sent = NoPage, ![p].edited = @ \cup page[p].hasty, ![p].hasty = {}]
  /\ UNCHANGED <<stored, last, steps>>
Leave(p) ==
  /\ page[p] # NoPage /\ page[p].sent = NoPage
  /\ page' = [page EXCEPT ![p] = NoPage]
  /\ UNCHANGED <<stored, last, steps>>

AboutStep == \E p \in Pages :
  \/ Open(p) \/ HandleSave(p) \/ SaveDone(p) \/ SaveFails(p) \/ Leave(p)
  \/ \E s \in Lists : (\E item \in Items(s) : ToggleAboutItem(p, s, item)) \/ (\E w \in TypedWords : SetExtra(p, s, w))
  \/ \E on \in SUBSET Services, w \in TypedWords : SetLaundry(p, on, w)
  \/ \E lines \in TypedLines : SetOther(p, lines)
AboutSpec == AboutInit /\ [][AboutStep]_aboutVars

(***************************************************************************)
(* Properties.                                                             *)
(***************************************************************************)
\* What an editor says of the hotel, wherever in it it is said; the name and the
\* place are the card's to say.
Facts(about) ==
  LET Under(label, words) ==
        CASE label \in Lists -> {<<label, Meaning(label, w)>> : w \in ToSet(words)}
          [] label = "laundry" -> {<<label, w>> : w \in ToSet(words) \ Phrases}
          [] label \in {"free", "other"} -> {<<"other", w>> : w \in ToSet(words)}
          [] OTHER -> {}
  IN (UNION {{<<s, item>> : item \in about.list[s].checked} \cup Under(s, about.list[s].extra) : s \in Lists})
     \cup Under("laundry", about.laundry.extra)
     \cup (UNION {Under(l.label, l.words) : l \in ToSet(about.other)})

\* Nobody says of the laundry in words what the switches are for.
PlainLaundry(about) ==
  /\ ToSet(about.laundry.extra) \cap Phrases = {}
  /\ \A l \in ToSet(about.other) : l.label # "laundry"

\* What was edited is said by the text that is stored, and the next page reads it:
\* nothing guessed, nothing lost, all in its section.
Says(text, about) ==
  LET again == ParseHotelAbout(text)
  IN /\ Facts(again) = Facts(about)
     /\ PlainLaundry(about) => again.laundry.on = about.laundry.on

\* A save of a page whose sections were edited before it stores what the editor shows,
\* and the tags Kars Avia shows are said by the text it shows, unless a page opened
\* before another's save was saved after it: it sends the text it had, and no tags.
NothingIsLost ==
  /\ last.by # NoPage /\ "section" \in last.by.edited => Says(stored.text, last.by.about)
  /\ ~last.crossed => stored.tags \subseteq InfrastructureTags(ParseHotelAbout(stored.text))

\* "Free text - goes at the end of the description as a separate paragraph": not when
\* it alone was edited, for the page is not told of that.
EditIsSaved ==
  last.by # NoPage /\ last.by.edited # {} => Says(stored.text, last.by.about)
===============================================================================
