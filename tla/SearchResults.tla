--------------------------- MODULE SearchResults ---------------------------
(* The page of search results of the generated documentation, the class      *)
(* SearchResults and createResults of search.js: a list of rows, some of      *)
(* which have children that can be expanded, in which the arrow keys move     *)
(* the focus.  The page is shown in a frame of the page with the search box,  *)
(* which loads another one for every search.                                  *)
(*                                                                            *)
(* A text is a sequence of characters.  Letters have no case here, and a text *)
(* stands for its convertToId.  Elements are records: item i is the symbol of *)
(* row i, a child has a number of its own.                                    *)
EXTENDS Integers, Sequences, FiniteSets

CONSTANTS
  Chars,        \* the characters of texts and names
  searchData    \* the rows of each page of the index, all_63.js etc.: a page is
                \* a section and an initial, a row has a name and a number of kids

VARIABLES
  frame,        \* the document in the frame and the state of its script
  focus         \* the element that gets the keys

Space == " "

Text == Seq(Chars)

IndexPage == DOMAIN searchData

Blank     == <<-1, "blank">>        \* before the first search
NoMatches == <<-1, "nomatches">>    \* nomatches.html, which has no script

Page == IndexPage \cup {Blank, NoMatches}

ArrowKey == {"up", "down", "left", "right"}

(* "menu" is Shift with Down; "text" is any key that changes the text.        *)
Key == ArrowKey \cup {"enter", "esc", "menu", "text"}

NoKey == "none"

Code(k) == IF k = "menu" THEN "down" ELSE k

ASSUME SearchResultsAssumption ==
  /\ Space \in Chars
  /\ IndexPage \subseteq Nat \X Chars
  /\ \A p \in IndexPage : searchData[p] \in Seq([name : Text, kids : Nat])

-----------------------------------------------------------------------------
(* Elements *)

Item(i)     == [at |-> "result", item |-> i, child |-> -1]
Child(i, c) == [at |-> "result", item |-> i, child |-> c]

Elsewhere(place) == [at |-> place, item |-> -1, child |-> -1]

Field   == Elsewhere("field")
Select  == Elsewhere("select")
Nowhere == Elsewhere("none")

Items(p) == IF p \in IndexPage THEN 0 .. Len(searchData[p]) - 1 ELSE {}

Row(p, i) == searchData[p][i + 1]

Kids(i) == Row(frame.page, i).kids

Visible == frame.visible            \* the items whose row is displayed

(* FindChildElement finds the children of a row, shown or not; expanded is a  *)
(* row whose children are shown.                                              *)
FindChildElement(i) == Kids(i) > 0

Expanded(i) == FindChildElement(i) /\ i \in frame.open

-----------------------------------------------------------------------------
(* Search: the rows whose name begins with the query.                         *)

Trimmed(t) ==
  LET Leading == {n \in 1 .. Len(t) : \A m \in 1 .. n : t[m] = Space}
  IN  SubSeq(t, Cardinality(Leading) + 1, Len(t))

TrimmedRight(t) ==
  LET Trailing == {n \in 1 .. Len(t) : \A m \in n .. Len(t) : t[m] = Space}
  IN  SubSeq(t, 1, Len(t) - Cardinality(Trailing))

BeginsWith(name, t) == Len(t) <= Len(name) /\ SubSeq(name, 1, Len(t)) = t

Matches(p, query) ==
  {i \in Items(p) : BeginsWith(Row(p, i).name, TrimmedRight(Trimmed(query)))}

(* The index is generated in order: rows whose names begin alike stand        *)
(* together, and so do those a query shows.  Up relies on it.                 *)
ASSUME SortedAssumption ==
  \A p \in IndexPage : \A i, k \in Items(p) : \A n \in 0 .. Len(Row(p, i).name) :
    LET beginning == SubSeq(Row(p, i).name, 1, n)
    IN  BeginsWith(Row(p, k).name, beginning) =>
          \A j \in i .. k : BeginsWith(Row(p, j).name, beginning)

Shown(e) ==
  /\ e.at = "result"
  /\ e.item \in Visible
  /\ e.child # -1 => e.item \in frame.open

-----------------------------------------------------------------------------
(* Moving with the keys *)

(* The first visible item with this number or a higher one, if there is one.  *)
NavNext(n) ==
  IF \E i \in Visible : i >= n
  THEN Item(CHOOSE i \in Visible : i >= n /\ \A j \in Visible : j >= n => i <= j)
  ELSE Nowhere

NavPrev(n) ==
  IF \E i \in Visible : i <= n
  THEN Item(CHOOSE i \in Visible : i <= n /\ \A j \in Visible : j <= n => i >= j)
  ELSE Nowhere

\* Mutant of UpFromItem: whether the children are shown is not tested.
UpFromItemInside(i) ==
  LET found == NavPrev(i - 1)
  IN  CASE found = Nowhere -> Field
        [] found # Nowhere /\ Kids(i - 1) > 0 -> Child(i - 1, Kids(i - 1) - 1)
        [] OTHER -> found

(* Nav looks for the last child under the number of the item before, not of   *)
(* the item it has found.                                                     *)
UpFromItem(i) ==
  LET found == NavPrev(i - 1)
  IN  CASE found = Nowhere -> Field
        [] found # Nowhere /\ Expanded(found.item) /\ Kids(i - 1) > 0 ->
             Child(i - 1, Kids(i - 1) - 1)
        [] OTHER -> found

UpFromChild(i, c) == IF c > 0 THEN Child(i, c - 1) ELSE Item(i)

Up(e) == IF e.child = -1 THEN UpFromItem(e.item) ELSE UpFromChild(e.item, e.child)

DownFromItem(i) == IF Expanded(i) THEN Child(i, 0) ELSE NavNext(i + 1)

DownFromChild(i, c) == IF c + 1 < Kids(i) THEN Child(i, c + 1) ELSE NavNext(i + 1)

Down(e) == IF e.child = -1 THEN DownFromItem(e.item) ELSE DownFromChild(e.item, e.child)

(* The browser ignores a request to focus an element that is not shown.       *)
Reached(e) == IF e = Field \/ Shown(e) THEN e ELSE focus

Toggled(f, i) == [f EXCEPT !.open = IF i \in @ THEN @ \ {i} ELSE @ \cup {i}]

\* Mutant of Opened: Left on a child collapses its row.
OpenedAnywhere(f) ==
  IF FindChildElement(focus.item)
  THEN [f EXCEPT !.open = IF f.lastKey = "right" THEN @ \cup {focus.item} ELSE @ \ {focus.item}]
  ELSE f

(* Right and Left on an item; a child ignores them.                           *)
Opened(f) ==
  IF focus.child = -1 /\ FindChildElement(focus.item)
  THEN [f EXCEPT !.open = IF f.lastKey = "right" THEN @ \cup {focus.item} ELSE @ \ {focus.item}]
  ELSE f

-----------------------------------------------------------------------------
(* ProcessKeys: the page reacts to the first keydown and, if the browser      *)
(* repeats a held key with keypress, from the second keypress on.             *)

ProcessKeys(event, k) ==
  CASE event = "keydown"  -> [frame EXCEPT !.lastKey = Code(k), !.repeatOn = FALSE]
    [] event = "keypress" -> [frame EXCEPT !.repeatOn = @ \/ frame.lastKey # NoKey]
    [] event = "keyup"    -> [frame EXCEPT !.lastKey = NoKey, !.repeatOn = FALSE]

Reacts(event) ==
  \/ event = "keydown"
  \/ /\ event = "keypress"
     /\ frame.repeatOn
     /\ frame.lastKey # NoKey

(* The key that moves the focus or closes the page, if the event is one.      *)
Command(event, k) ==
  IF k # "enter" /\ Reacts(event) THEN ProcessKeys(event, k).lastKey ELSE NoKey

(* A page that has just been loaded, all rows collapsed.                      *)
Loaded(p, query) ==
  [page |-> p, query |-> query, visible |-> Matches(p, query), open |-> {},
   lastKey |-> NoKey, repeatOn |-> FALSE]

-----------------------------------------------------------------------------
Element == [at : {"field", "select", "none", "result"}, item : Int, child : Int]

FrameType == [page : Page, query : Text, visible : SUBSET Nat, open : SUBSET Nat,
              lastKey : Key \cup {NoKey}, repeatOn : BOOLEAN]

(* The elements a reader sees, in the order of the page.                      *)
Before(d, e) == d.item < e.item \/ (d.item = e.item /\ d.child < e.child)

ShownElements ==
  {Item(i) : i \in Visible}
    \cup UNION {{Child(i, c) : c \in 0 .. Kids(i) - 1} : i \in {j \in Visible : Expanded(j)}}

(* Down goes to the next element a reader sees and Up to the previous one, or *)
(* from the first back to the search field: Nav and NavChild skip nothing and *)
(* undo each other, whatever is filtered or collapsed.                        *)
NavInDocumentOrder ==
  LET Seen == ShownElements
  IN  \A e \in Seen :
        LET After  == {d \in Seen : Before(e, d)}
            Behind == {d \in Seen : Before(d, e)}
            down   == Down(e)
            up     == Up(e)
        IN  /\ IF After = {} THEN down = Nowhere
               ELSE down \in After /\ \A d \in After \ {down} : Before(down, d)
            /\ IF Behind = {} THEN up = Field
               ELSE up \in Behind /\ \A d \in Behind \ {up} : Before(d, up)
=============================================================================
