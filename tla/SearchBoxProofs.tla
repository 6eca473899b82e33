-------------------------- MODULE SearchBoxProofs ---------------------------
(* Proofs about the search box, for every value of the constants: SearchInv   *)
(* is an inductive invariant, and what follows from it.                       *)
EXTENDS SearchBox, SequenceTheorems, FiniteSetTheorems, TLAPS

(* While a page is loading it is the one that answers the last search.        *)
LoadsLast ==
  box.shown => Answers(IF loading = NotLoading THEN frame ELSE loading, box.last)

(* The rows displayed are those of the page that match its query.             *)
RowsOfPage == Visible = Matches(frame.page, frame.query)

SearchInv ==
  /\ TypeOK
  /\ RowsOfPage
  /\ ClosedForgets
  /\ LoadsLast
  /\ FocusVisible
  /\ NothingLeft

-----------------------------------------------------------------------------
(* Texts *)

\* Trimming a text gives a text.
LEMMA TrimmedType ==
  ASSUME NEW t \in Text
  PROVE  Trimmed(t) \in Text
<1> DEFINE Leading == {n \in 1 .. Len(t) : \A m \in 1 .. n : t[m] = Space}
<1>1. Len(t) \in Nat
  BY DEF Text
<1>2. IsFiniteSet(1 .. Len(t)) /\ Cardinality(1 .. Len(t)) = Len(t)
  BY <1>1, FS_Interval, SMTT(30)
<1>3. Cardinality(Leading) \in 0 .. Len(t)
  <2>1. Leading \subseteq 1 .. Len(t)
    OBVIOUS
  <2>2. IsFiniteSet(Leading) /\ Cardinality(Leading) <= Cardinality(1 .. Len(t))
    BY <1>2, <2>1, FS_Subset
  <2>3. QED
    BY <1>1, <1>2, <2>2, FS_CardinalityType
<1> HIDE DEF Leading
<1>4. SubSeq(t, Cardinality(Leading) + 1, Len(t)) \in Seq(Chars)
  BY <1>1, <1>3, SubSeqProperties DEF Text
<1>5. QED
  BY <1>4 DEF Trimmed, Text, Leading

\* Search always asks for a document, one that answers the text.
LEMMA ResultsPageType ==
  ASSUME NEW i \in Nat, NEW t \in Text
  PROVE  /\ ResultsPage(i, t) \in [page : Page, query : Text]
         /\ ResultsPage(i, t) # NotLoading
         /\ Answers(ResultsPage(i, t), t)
<1>1. << >> \in Text
  BY DEF Text
<1>2. CASE HasPage(i, t)
  <2>1. ResultsPage(i, t) = [page |-> <<i, t[1]>>, query |-> t]
    BY <1>2 DEF ResultsPage
  <2>2. <<i, t[1]>> # Blank /\ <<i, t[1]>> \in IndexPage /\ t # << >>
    BY <1>2 DEF Blank, HasPage
  <2>3. ResultsPage(i, t).page # NotLoading.page
    BY <2>1, <2>2 DEF NotLoading
  <2>4. QED
    BY <2>1, <2>2, <2>3 DEF Page, Answers
<1>3. CASE ~HasPage(i, t)
  <2>1. ResultsPage(i, t) = [page |-> NoMatches, query |-> << >>]
    BY <1>3 DEF ResultsPage
  <2>2. NoMatches # Blank
    BY DEF Blank, NoMatches
  <2>3. ResultsPage(i, t).page # NotLoading.page
    BY <2>1, <2>2 DEF NotLoading
  <2>4. QED
    BY <1>1, <2>1, <2>3 DEF Page, Answers
<1>4. QED
  BY <1>2, <1>3

-----------------------------------------------------------------------------
(* What the functions of the class do to the box *)

\* Activate changes neither window; it resets the box if it is closed, and
\* leaves the last search alone if it is not.
LEMMA ActivateBox ==
  ASSUME NEW b \in BoxType, NEW a \in BOOLEAN
  PROVE  /\ Activate(b, a) \in BoxType
         /\ Activate(b, a).shown = b.shown
         /\ Activate(b, a).close = b.close
         /\ b.shown => Activate(b, a).last = b.last
         /\ Activate(b, a).last \in {b.last, << >>}
         /\ ~b.shown /\ ~a => Activate(b, a).field = Label /\ Activate(b, a).last = << >>
<1>1. << >> \in Text /\ Label \in Text
  BY SearchBoxAssumption DEF Text
<1>2. QED
  BY <1>1 DEF Activate, BoxType

\* Hiding the window and resetting the box leaves nothing behind.
LEMMA CloseBox ==
  ASSUME NEW b \in BoxType
  PROVE  /\ Hidden(b) \in BoxType
         /\ ~Hidden(b).shown /\ ~Hidden(b).close
         /\ Hidden(b).field = b.field
         /\ CloseResultsWindow(b) \in BoxType
         /\ ~CloseResultsWindow(b).shown /\ ~CloseResultsWindow(b).close
         /\ CloseResultsWindow(b).field = Label
         /\ CloseResultsWindow(b).last = << >>
<1>1. /\ Hidden(b) \in BoxType
      /\ ~Hidden(b).shown /\ ~Hidden(b).close
      /\ Hidden(b).field = b.field
  BY DEF Hidden, BoxType
<1>2. QED
  BY <1>1, ActivateBox DEF CloseResultsWindow

\* The same for the events of the field when the focus moves.
LEMMA FocusBox ==
  ASSUME NEW b \in BoxType, NEW to
  PROVE  /\ OnSearchFieldFocus(b, to) \in BoxType
         /\ OnSearchFieldFocus(b, to).shown = b.shown
         /\ OnSearchFieldFocus(b, to).close = b.close
         /\ b.shown => OnSearchFieldFocus(b, to).last = b.last
         /\ OnSearchFieldFocus(b, to).last \in {b.last, << >>}
         /\ focus = Field /\ to # Field /\ ~b.shown
              => OnSearchFieldFocus(b, to).field = Label
         /\ focus # Field /\ to # Field => OnSearchFieldFocus(b, to) = b
<1>1. CASE focus = Field /\ to # Field
  BY <1>1, ActivateBox DEF OnSearchFieldFocus
<1>2. CASE focus # Field /\ to = Field
  BY <1>2, ActivateBox DEF OnSearchFieldFocus
<1>3. CASE ~(focus = Field /\ to # Field) /\ ~(focus # Field /\ to = Field)
  BY <1>3 DEF OnSearchFieldFocus
<1>4. QED
  BY <1>1, <1>2, <1>3

\* Search shows the window and keeps the text, or throws.
LEMMA SearchedBox ==
  ASSUME NEW b \in BoxType, NEW i
  PROVE  /\ Searched(b, i) \in BoxType
         /\ Throws(i) => Searched(b, i) = b
         /\ ~Throws(i) => /\ Searched(b, i).shown
                          /\ Searched(b, i).last = Trimmed(b.field)
                          /\ Searched(b, i).field = b.field
                          /\ Searched(b, i).active = b.active
<1>1. Trimmed(b.field) \in Text
  BY TrimmedType DEF BoxType
<1>2. QED
  BY <1>1 DEF Searched, BoxType

\* Selecting a section searches if there is something to search; what is on
\* display or loading then answers what was searched last.
LEMMA SelectedBox ==
  ASSUME SearchInv, NEW i \in 0 .. SelectItemCount, OnSelectItem(i)
  PROVE  /\ Selected(box, i) \in BoxType
         /\ ~Selected(box, i).shown => Selected(box, i) = box
         /\ Selected(box, i) # box => box.active
         /\ Selected(box, i).field = box.field
         /\ loading' \in [page : Page, query : Text]
         /\ keyTimeout' \in BOOLEAN
         /\ keyTimeout' => keyTimers > 0
         /\ Selected(box, i).shown =>
              Answers(IF loading' = NotLoading THEN frame ELSE loading', Selected(box, i).last)
<1>1. /\ box \in BoxType /\ i \in Nat
      /\ loading \in [page : Page, query : Text]
      /\ keyTimeout \in BOOLEAN
      /\ keyTimeout => keyTimers > 0
  BY SearchBoxAssumption DEF SearchInv, TypeOK
<1>2. CASE ~SearchesAgain(box)
  <2>1. Selected(box, i) = box /\ UNCHANGED <<keyTimeout, loading>>
    BY <1>2 DEF Selected, OnSelectItem
  <2>2. QED
    BY <1>1, <2>1 DEF SearchInv, LoadsLast
<1>3. CASE SearchesAgain(box)
  <2>1. Selected(box, i) = Searched(box, i) /\ Search(i) /\ box.active
    BY <1>3 DEF Selected, OnSelectItem, SearchesAgain
  <2>2. CASE Throws(i)
    BY <1>1, <2>1, <2>2, SearchedBox DEF SearchInv, LoadsLast, Search
  <2>3. CASE ~Throws(i)
    <3>1. Trimmed(box.field) \in Text
      BY <1>1, TrimmedType DEF BoxType
    <3>2. /\ loading' = ResultsPage(i, Trimmed(box.field))
          /\ keyTimeout' = FALSE
      BY <2>1, <2>3 DEF Search
    <3>3. /\ Selected(box, i) \in BoxType
          /\ Selected(box, i).shown
          /\ Selected(box, i).last = Trimmed(box.field)
          /\ Selected(box, i).field = box.field
      BY <1>1, <2>1, <2>3, SearchedBox
    <3>4. QED
      BY <1>1, <2>1, <3>1, <3>2, <3>3, ResultsPageType
  <2>4. QED
    BY <2>2, <2>3
<1>4. QED
  BY <1>2, <1>3

-----------------------------------------------------------------------------
(* Elements *)

\* The places besides the results are elements, and so is every item.
LEMMA ElementType ==
  /\ Field \in Element /\ Select \in Element /\ Nowhere \in Element
  /\ Field.at # "result" /\ Select.at # "result" /\ Nowhere.at # "result"
  /\ Field # Select /\ Field # Nowhere
  /\ \A i \in Int : Item(i) \in Element /\ Item(i) # Field
BY DEF Field, Select, Nowhere, Elsewhere, Item, Element

\* Items are numbered from 0, and their rows have a number of children.
LEMMA RowType ==
  ASSUME TypeOK, RowsOfPage, NEW i \in Visible
  PROVE  i \in Nat /\ Kids(i) \in Nat
<1>1. i \in Items(frame.page)
  BY DEF RowsOfPage, Matches
<1>2. frame.page \in IndexPage
  BY <1>1 DEF Items
<1>3. searchData[frame.page] \in Seq([name : Text, kids : Nat])
  BY <1>2, SearchResultsAssumption
<1>4. i + 1 \in 1 .. Len(searchData[frame.page]) /\ i \in Nat
  BY <1>1, <1>2, <1>3 DEF Items
<1>5. searchData[frame.page][i + 1] \in [name : Text, kids : Nat]
  BY <1>3, <1>4, ElementOfSeq
<1>6. QED
  BY <1>4, <1>5 DEF Kids, Row

\* The element that is asked to get the focus is the field or one a reader
\* sees, or the focus stays where it is.
LEMMA ReachedElement ==
  ASSUME TypeOK, RowsOfPage, NEW n,
         NEW e \in {NavNext(n), Up(focus), Down(focus)},
         e = NavNext(n) \/ focus.at = "result"
  PROVE  /\ Reached(e) \in Element
         /\ Reached(e) \in {Field, focus} \/ Shown(Reached(e))
<1>1. CASE ~Shown(e)
  BY <1>1, ElementType DEF Reached, TypeOK
<1>2. CASE Shown(e)
  <2>1. e.at = "result" /\ e.item \in Visible
    BY <1>2 DEF Shown
  <2>2. e.item \in Nat /\ Kids(e.item) \in Nat
    BY <2>1, RowType
  <2>3. focus \in Element
    BY DEF TypeOK
  <2>4. focus.child \in Int /\ focus.item \in Int
    BY <2>3 DEF Element
  <2>5. \/ e = Nowhere \/ e = Field
        \/ \E i : e = Item(i)
        \/ \E i : e \in {Child(i, 0), Child(i, Kids(i) - 1),
                       Child(i, focus.child - 1), Child(i, focus.child + 1)}
    <3>1. CASE e = NavNext(n)
      BY <3>1 DEF NavNext
    <3>2. CASE e = Up(focus)
      BY <3>2 DEF Up, UpFromItem, UpFromChild, NavPrev
    <3>3. CASE e = Down(focus)
      BY <3>3 DEF Down, DownFromItem, DownFromChild, NavNext
    <3>4. QED
      BY <3>1, <3>2, <3>3
  <2>6. e \in Element
    <3>1. CASE e = Nowhere \/ e = Field
      BY <3>1, ElementType
    <3>2. CASE \E i : e = Item(i)
      <4>1. PICK i : e = Item(i)
        BY <3>2
      <4>2. i = e.item
        BY <4>1 DEF Item
      <4>3. QED
        BY <2>2, <4>1, <4>2, ElementType
    <3>3. ASSUME NEW i, e \in {Child(i, 0), Child(i, Kids(i) - 1),
                              Child(i, focus.child - 1), Child(i, focus.child + 1)}
          PROVE  e \in Element
      <4>1. i = e.item
        BY <3>3 DEF Child
      <4>2. QED
        BY <2>2, <2>4, <3>3, <4>1 DEF Child, Element
    <3>4. QED
      BY <2>5, <3>1, <3>2, <3>3
  <2>7. QED
    BY <1>2, <2>6 DEF Reached
<1>3. QED
  BY <1>1, <1>2

-----------------------------------------------------------------------------
(* SearchInv is preserved by every action.                                    *)

(* The part of TypeOK that only says what the smaller variables hold.         *)
Controls ==
  /\ searchIndex \in 0 .. SelectItemCount
  /\ keyTimeout \in BOOLEAN
  /\ keyTimers \in 0 .. MaxTimers
  /\ keyTimeout => keyTimers > 0
  /\ selectShown \in BOOLEAN
  /\ pointer \in BOOLEAN
  /\ hideTimer \in BOOLEAN
  /\ held \in Key \cup {NoKey}

SameRows == frame'.page = frame.page /\ frame'.query = frame.query /\ frame'.visible = frame.visible

\* What is left to show of an action that opens and closes nothing ...
LEMMA StaysInv ==
  ASSUME SearchInv, Controls',
         box' \in BoxType, box'.shown = box.shown, box'.close = box.close,
         box.shown => box'.last = box.last, box'.last \in {box.last, << >>},
         loading' = loading, frame' \in FrameType, SameRows,
         focus' \in Element, focus'.at = "result" => box.shown /\ Shown(focus)',
         NothingLeft'
  PROVE  SearchInv'
<1>1. TypeOK'
  BY DEF TypeOK, SearchInv, Controls
<1>2. RowsOfPage'
  BY DEF SearchInv, RowsOfPage, SameRows, Visible
<1>3. ClosedForgets'
  BY DEF SearchInv, ClosedForgets
<1>4. LoadsLast'
  BY DEF SearchInv, LoadsLast, SameRows, Answers
<1>5. FocusVisible'
  BY DEF FocusVisible
<1>6. QED
  BY <1>1, <1>2, <1>3, <1>4, <1>5 DEF SearchInv

\* ... of one that only moves the focus, with the events this causes ...
LEMMA MovesInv ==
  ASSUME SearchInv, Controls', NEW to \in Element,
         box' = OnSearchFieldFocus(box, to), focus' = to,
         loading' = loading, frame' \in FrameType, SameRows,
         to.at = "result" => box.shown /\ Shown(to)'
  PROVE  SearchInv'
<1>1. box \in BoxType /\ focus \in Element
  BY DEF SearchInv, TypeOK
<1>2. /\ box' \in BoxType /\ box'.shown = box.shown /\ box'.close = box.close
      /\ box.shown => box'.last = box.last
      /\ box'.last \in {box.last, << >>}
      /\ focus = Field /\ to # Field /\ ~box.shown => box'.field = Label
      /\ focus # Field /\ to # Field => box' = box
  BY <1>1, FocusBox
<1>3. NothingLeft'
  BY <1>2 DEF NothingLeft, SearchInv
<1>4. QED
  BY <1>2, <1>3, StaysInv

\* ... and of one that closes the results.
LEMMA ClosesInv ==
  ASSUME SearchInv, Controls',
         box' \in BoxType, ~box'.shown, ~box'.close, box'.last = << >>,
         loading' = loading, frame' \in FrameType, SameRows,
         focus' \in Element, focus'.at # "result", NothingLeft'
  PROVE  SearchInv'
<1>1. TypeOK'
  BY DEF TypeOK, SearchInv, Controls
<1>2. RowsOfPage'
  BY DEF SearchInv, RowsOfPage, SameRows, Visible
<1>3. ClosedForgets' /\ LoadsLast' /\ FocusVisible'
  BY DEF ClosedForgets, LoadsLast, FocusVisible
<1>4. QED
  BY <1>1, <1>2, <1>3 DEF SearchInv

\* Expanding and collapsing rows leaves the rows themselves alone.
LEMMA FrameRows ==
  ASSUME SearchInv
  PROVE  /\ frame \in FrameType
         /\ \A i \in Visible :
              /\ Toggled(frame, i) \in FrameType
              /\ Toggled(frame, i).page = frame.page
              /\ Toggled(frame, i).query = frame.query
              /\ Toggled(frame, i).visible = frame.visible
         /\ \A event \in {"keydown", "keypress", "keyup"}, k \in Key :
              LET f == ProcessKeys(event, k)
              IN  /\ f \in FrameType
                  /\ f.page = frame.page /\ f.query = frame.query
                  /\ f.visible = frame.visible /\ f.open = frame.open
<1>1. frame \in FrameType /\ Visible \subseteq Nat
  BY DEF SearchInv, TypeOK, Visible, FrameType
<1>2. ASSUME NEW i \in Visible
      PROVE  /\ Toggled(frame, i) \in FrameType
             /\ Toggled(frame, i).page = frame.page
             /\ Toggled(frame, i).query = frame.query
             /\ Toggled(frame, i).visible = frame.visible
  BY <1>1 DEF Toggled, FrameType
<1>3. ASSUME NEW event \in {"keydown", "keypress", "keyup"}, NEW k \in Key
      PROVE  LET f == ProcessKeys(event, k)
             IN  /\ f \in FrameType
                 /\ f.page = frame.page /\ f.query = frame.query
                 /\ f.visible = frame.visible /\ f.open = frame.open
  <2>1. Code(k) \in Key
    BY DEF Code, Key, ArrowKey
  <2>2. CASE event = "keydown"
    BY <1>1, <2>1, <2>2 DEF ProcessKeys, FrameType
  <2>3. CASE event = "keypress"
    BY <1>1, <2>3 DEF ProcessKeys, FrameType
  <2>4. CASE event = "keyup"
    BY <1>1, <2>4 DEF ProcessKeys, FrameType
  <2>5. QED
    BY <2>2, <2>3, <2>4
<1>4. QED
  BY <1>1, <1>2, <1>3

\* The initial state.
LEMMA InitInv == Init => SearchInv
<1> SUFFICES ASSUME Init
             PROVE  SearchInv
  OBVIOUS
<1>1. << >> \in Text /\ Label \in Text
  BY SearchBoxAssumption DEF Text
<1>2. Blank \in Page /\ Blank \notin IndexPage
  BY SearchResultsAssumption DEF Page, Blank
<1>3. Items(Blank) = {}
  BY <1>2 DEF Items
<1>4. Loaded(Blank, << >>) = [page |-> Blank, query |-> << >>, visible |-> {}, open |-> {},
                              lastKey |-> NoKey, repeatOn |-> FALSE]
  BY <1>3 DEF Loaded, Matches
<1>5. /\ box = [field |-> Label, active |-> FALSE, last |-> << >>,
               shown |-> FALSE, close |-> FALSE]
      /\ frame = Loaded(Blank, << >>)
      /\ loading = NotLoading
      /\ focus = Nowhere
  BY DEF Init
<1>6. TypeOK
  <2>1. box \in BoxType
    BY <1>1, <1>5 DEF BoxType
  <2>2. frame \in FrameType
    <3>1. NoKey \in Key \cup {NoKey} /\ {} \in SUBSET Nat /\ FALSE \in BOOLEAN
      OBVIOUS
    <3>2. frame = [page |-> Blank, query |-> << >>, visible |-> {}, open |-> {},
                   lastKey |-> NoKey, repeatOn |-> FALSE]
      BY <1>4, <1>5
    <3>3. QED
      BY <1>1, <1>2, <3>1, <3>2 DEF FrameType
  <2>3. loading \in [page : Page, query : Text]
    BY <1>1, <1>2, <1>5 DEF NotLoading
  <2>4. Controls
    <3>1. /\ keyTimeout \in BOOLEAN /\ ~keyTimeout
          /\ selectShown \in BOOLEAN /\ pointer \in BOOLEAN /\ hideTimer \in BOOLEAN
      BY DEF Init
    <3>2. searchIndex \in 0 .. SelectItemCount /\ keyTimers \in 0 .. MaxTimers
      BY SearchBoxAssumption DEF Init
    <3>3. QED
      BY <3>1, <3>2 DEF Init, Controls
  <2>5. focus \in Element
    BY <1>5, ElementType
  <2>6. QED
    BY <2>1, <2>2, <2>3, <2>4, <2>5 DEF Controls, TypeOK
<1>7. RowsOfPage
  BY <1>3, <1>5 DEF RowsOfPage, Visible, Loaded
<1>8. FocusVisible
  BY <1>5, ElementType DEF FocusVisible
<1>9. ClosedForgets /\ LoadsLast
  BY <1>5 DEF ClosedForgets, LoadsLast
<1>10. NothingLeft
  BY <1>5 DEF NothingLeft
<1>11. QED
  BY <1>6, <1>7, <1>8, <1>9, <1>10 DEF SearchInv

\* SearchInv says what its parts say; each lemma below starts from here.
LEMMA InvFacts ==
  ASSUME SearchInv
  PROVE  /\ Controls /\ box \in BoxType /\ focus \in Element
         /\ frame \in FrameType /\ loading \in [page : Page, query : Text]
         /\ focus.at = "result" => box.shown /\ Shown(focus)
         /\ keyTimeout \in BOOLEAN /\ keyTimers \in 0 .. MaxTimers
         /\ keyTimeout => keyTimers > 0
         /\ SelectItemCount \in Nat \ {0} /\ MaxTimers \in Nat \ {0}
         /\ << >> \in Text
BY SearchBoxAssumption DEF SearchInv, TypeOK, Controls, FocusVisible, Text

\* The timer that is remembered is one of those that run.
LEMMA RunningType ==
  ASSUME SearchInv
  PROVE  Running \in 0 .. MaxTimers /\ Running \in 0 .. keyTimers
<1>1. CASE keyTimeout
  BY <1>1, InvFacts DEF Running
<1>2. CASE ~keyTimeout
  BY <1>2, InvFacts DEF Running
<1>3. QED
  BY <1>1, <1>2

\* The mouse in the field and beside it.
LEMMA ClickFieldInv ==
  ASSUME SearchInv, ClickField \/ ClickAway
  PROVE  SearchInv'
<1>1. Controls' /\ loading' = loading /\ frame' \in FrameType /\ SameRows
  BY InvFacts DEF ClickField, ClickAway, search, selector, Controls, SameRows
<1>2. CASE ClickField
  BY <1>1, <1>2, MovesInv, ElementType DEF ClickField
<1>3. CASE ClickAway
  BY <1>1, <1>3, MovesInv, ElementType DEF ClickAway
<1>4. QED
  BY <1>2, <1>3

\* The mouse on the button that closes the results.
LEMMA ClickCloseInv ==
  ASSUME SearchInv, ClickClose
  PROVE  SearchInv'
<1>1. /\ Controls' /\ loading' = loading /\ frame' \in FrameType /\ SameRows
      /\ focus' = Nowhere
  BY InvFacts DEF ClickClose, search, selector, Controls, SameRows
<1>2. OnSearchFieldFocus(box, Nowhere) \in BoxType
  BY InvFacts, FocusBox
<1>3. /\ box' \in BoxType /\ ~box'.shown /\ ~box'.close
      /\ box'.field = Label /\ box'.last = << >>
  BY <1>2, CloseBox DEF ClickClose
<1>4. NothingLeft'
  BY <1>3 DEF NothingLeft
<1>5. QED
  BY <1>1, <1>3, <1>4, ClosesInv, ElementType

\* The mouse on a result: it gets the focus, and its children are toggled.
LEMMA ClickResultInv ==
  ASSUME SearchInv, NEW i \in Visible, ClickResult(i)
  PROVE  SearchInv'
<1>1. /\ Controls' /\ loading' = loading
  BY InvFacts DEF ClickResult, search, selector, Controls
<1>2. frame' \in FrameType /\ SameRows
  BY FrameRows DEF ClickResult, SameRows
<1>3. i \in Nat
  BY RowType DEF SearchInv
<1>4. Item(i) \in Element
  BY <1>3, ElementType
<1>5. Shown(Item(i))'
  BY <1>2 DEF Shown, Item, SameRows, Visible
<1>6. box' = OnSearchFieldFocus(box, Item(i)) /\ focus' = Item(i) /\ box.shown
  BY DEF ClickResult
<1>7. QED
  BY <1>1, <1>2, <1>4, <1>5, <1>6, MovesInv

\* Showing and hiding the selection window.
LEMMA SelectWindowInv ==
  ASSUME SearchInv, OnSearchSelectShow \/ OnSearchSelectHide \/ CloseSelectionWindow
  PROVE  SearchInv'
<1>1. /\ loading' = loading /\ frame' = frame /\ box' = box
      /\ focus' \in {focus, Nowhere}
      /\ focus # Field => focus' # Field
      /\ focus = Field => focus' = Field
  BY ElementType
  DEF OnSearchSelectShow, OnSearchSelectHide, CloseSelectionWindow, search
<1>2. Controls'
  <2>1. selectShown' \in BOOLEAN /\ pointer' \in BOOLEAN /\ hideTimer' \in BOOLEAN
    BY InvFacts DEF OnSearchSelectShow, OnSearchSelectHide, CloseSelectionWindow, Controls
  <2>2. UNCHANGED <<searchIndex, keyTimeout, keyTimers, held>>
    BY DEF OnSearchSelectShow, OnSearchSelectHide, CloseSelectionWindow, search
  <2>3. QED
    BY <2>1, <2>2, InvFacts DEF Controls
<1>3. focus' \in Element /\ (focus'.at = "result" => box.shown /\ Shown(focus)')
  BY <1>1, InvFacts, ElementType DEF Shown, Visible
<1>4. NothingLeft'
  BY <1>1 DEF SearchInv, NothingLeft
<1>5. SameRows
  BY <1>1 DEF SameRows
<1>6. QED
  BY <1>1, <1>2, <1>3, <1>4, <1>5, StaysInv, InvFacts

\* Pressing a key in the field, and releasing one where nothing listens.
LEMMA PressInv ==
  ASSUME SearchInv,
         \/ \E t \in Typed : PressText(t)
         \/ \E k \in Pressed : PressOther(k)
         \/ ReleaseElsewhere
  PROVE  SearchInv'
<1>1. \A k \in Pressed : k \in Key
  BY SearchBoxAssumption
<1>2. /\ Controls' /\ loading' = loading /\ frame' = frame /\ focus' = focus
  BY <1>1, InvFacts
  DEF PressText, PressOther, ReleaseElsewhere, search, selector, Controls, Key, NoKey
<1>3. /\ box' \in BoxType /\ box'.shown = box.shown /\ box'.close = box.close
      /\ box'.last = box.last
      /\ box' = box \/ focus = Field
  BY InvFacts, SearchBoxAssumption DEF PressText, PressOther, ReleaseElsewhere, BoxType
<1>4. NothingLeft'
  BY <1>2, <1>3 DEF SearchInv, NothingLeft
<1>5. SameRows /\ (focus'.at = "result" => box.shown /\ Shown(focus)')
  BY <1>2, InvFacts DEF SameRows, Shown, Visible
<1>6. QED
  BY <1>2, <1>3, <1>4, <1>5, StaysInv, InvFacts

\* The keys of the field that open the selection window and close the results.
LEMMA FieldMenuInv ==
  ASSUME SearchInv, FieldMenu
  PROVE  SearchInv'
<1>1. Controls'
  <2>1. /\ keyTimeout' \in BOOLEAN /\ ~keyTimeout'
        /\ selectShown' \in BOOLEAN /\ hideTimer' \in BOOLEAN
        /\ UNCHANGED <<searchIndex, pointer>>
        /\ keyTimers' = Running /\ held' = NoKey
    BY DEF FieldMenu
  <2>2. QED
    BY <2>1, RunningType, InvFacts DEF Controls
<1>2. loading' = loading /\ frame' \in FrameType /\ SameRows
  BY InvFacts DEF FieldMenu, SameRows
<1>3. QED
  BY <1>1, <1>2, MovesInv, ElementType DEF FieldMenu

\* Escape in the field closes the results.
LEMMA FieldEscapeInv ==
  ASSUME SearchInv, FieldEscape
  PROVE  SearchInv'
<1>1. Controls'
  <2>1. /\ keyTimeout' \in BOOLEAN /\ ~keyTimeout'
        /\ UNCHANGED <<searchIndex, selectShown, pointer, hideTimer>>
        /\ keyTimers' = Running /\ held' = NoKey
    BY DEF FieldEscape, selector
  <2>2. QED
    BY <2>1, RunningType, InvFacts DEF Controls
<1>2. loading' = loading /\ frame' \in FrameType /\ SameRows /\ focus' = Nowhere
  BY InvFacts DEF FieldEscape, SameRows
<1>3. OnSearchFieldFocus(box, Nowhere) \in BoxType
  BY InvFacts, FocusBox
<1>4. /\ box' \in BoxType /\ ~box'.shown /\ ~box'.close
      /\ box'.field = Label /\ box'.last = << >>
  BY <1>3, CloseBox DEF FieldEscape
<1>5. NothingLeft'
  BY <1>4 DEF NothingLeft
<1>6. QED
  BY <1>1, <1>2, <1>4, <1>5, ClosesInv, ElementType

\* Any other key released in the field: the focus goes to the first result or
\* stays, and an empty field closes the results.
LEMMA FieldChangeInv ==
  ASSUME SearchInv, FieldChange
  PROVE  SearchInv'
<1> DEFINE first == IF held \in {"down", "enter"} /\ box.shown THEN Reached(NavNext(0)) ELSE Field
           b     == OnSearchFieldFocus(box, first)
           value == Squeezed(b.field)
           arms  == value # b.last /\ value # << >>
           empty == value # b.last /\ value = << >>
<1>1. /\ focus = Field
      /\ box' = IF empty THEN [Hidden(b) EXCEPT !.last = << >>] ELSE b
      /\ focus' = IF empty /\ first # Field THEN Nowhere ELSE first
      /\ keyTimeout' = arms
      /\ keyTimers' = IF arms THEN Running + 1 ELSE Running
      /\ keyTimers' <= MaxTimers
      /\ held' = NoKey
      /\ UNCHANGED <<frame, searchIndex, selector, loading>>
  BY DEF FieldChange
<1>2. first \in Element /\ (first.at = "result" => box.shown /\ Shown(first))
  <2>1. /\ Reached(NavNext(0)) \in Element
        /\ Reached(NavNext(0)) \in {Field, focus} \/ Shown(Reached(NavNext(0)))
    BY ReachedElement DEF SearchInv
  <2>2. QED
    BY <1>1, <2>1, ElementType
<1>3. Controls'
  <2>1. keyTimeout' \in BOOLEAN /\ (keyTimeout' <=> arms)
    BY <1>1
  <2>2. keyTimers' \in 0 .. MaxTimers /\ (arms => keyTimers' > 0)
    BY <1>1, RunningType, InvFacts
  <2>3. UNCHANGED <<searchIndex, selectShown, pointer, hideTimer>> /\ held' = NoKey
    BY <1>1 DEF selector
  <2>4. QED
    BY <2>1, <2>2, <2>3, InvFacts DEF Controls
<1>4. SameRows /\ frame' \in FrameType /\ loading' = loading
  BY <1>1, InvFacts DEF SameRows
<1>5. CASE ~empty
  <2> HIDE DEF first
  <2>1. PICK to \in Element : to = first
    BY <1>2
  <2>2. box' = OnSearchFieldFocus(box, to) /\ focus' = to
    BY <1>1, <1>5, <2>1
  <2>3. to.at = "result" => box.shown /\ Shown(to)'
    BY <1>1, <1>2, <2>1 DEF Shown, Visible
  <2>4. QED
    BY <1>3, <1>4, <2>2, <2>3, MovesInv
<1>6. CASE empty
  <2>1. b \in BoxType
    BY InvFacts, FocusBox
  <2> HIDE DEF b
  <2>2. box' = [Hidden(b) EXCEPT !.last = << >>] /\ value = << >>
    BY <1>1, <1>6
  <2>3. /\ box' \in BoxType /\ ~box'.shown /\ ~box'.close
        /\ box'.last = << >> /\ box'.field = b.field
    BY <2>1, <2>2, CloseBox, InvFacts DEF BoxType
  <2>4. NothingLeft'
    BY <2>2, <2>3 DEF NothingLeft
  <2>5. focus' \in {Field, Nowhere}
    BY <1>1, <1>6
  <2>6. QED
    BY <1>3, <1>4, <2>3, <2>4, <2>5, ClosesInv, ElementType
<1>7. QED
  BY <1>5, <1>6

\* A search keeps the invariant, whoever starts it and wherever the focus goes.
LEMMA SearchesInv ==
  ASSUME SearchInv, Controls', NEW b \in BoxType,
         b.shown \/ b = box, b.field = box.field,
         b.shown => Answers(IF loading' = NotLoading THEN frame ELSE loading', b.last),
         loading' \in [page : Page, query : Text],
         box' = OnSearchFieldFocus(b, focus'), frame' = frame, focus' \in Element,
         focus'.at = "result" => focus' = focus
  PROVE  SearchInv'
<1>1. /\ box' \in BoxType /\ box'.shown = b.shown /\ box'.close = b.close
      /\ b.shown => box'.last = b.last
      /\ box'.last \in {b.last, << >>}
      /\ focus = Field /\ focus' # Field /\ ~b.shown => box'.field = Label
      /\ focus # Field /\ focus' # Field => box' = b
  BY FocusBox
<1>2. b.shown \/ b = box
  OBVIOUS
<1>3. TypeOK'
  BY <1>1, InvFacts DEF TypeOK, Controls
<1>4. RowsOfPage'
  BY DEF SearchInv, RowsOfPage, Visible
<1>5. ClosedForgets'
  BY <1>1, <1>2 DEF SearchInv, ClosedForgets
<1>6. LoadsLast'
  BY <1>1 DEF LoadsLast, Answers
<1>7. FocusVisible'
  BY <1>1, <1>2, InvFacts DEF FocusVisible, Shown, Visible
<1>8. NothingLeft'
  BY <1>1, <1>2 DEF SearchInv, NothingLeft
<1>9. QED
  BY <1>3, <1>4, <1>5, <1>6, <1>7, <1>8 DEF SearchInv

\* The timer: what is in the field is searched.
LEMMA KeyTimerInv ==
  ASSUME SearchInv, KeyTimerFires
  PROVE  SearchInv'
<1> DEFINE b == Searched(box, searchIndex)
<1>1. /\ Search(searchIndex) /\ box' = b /\ keyTimers > 0 /\ keyTimers' = keyTimers - 1
      /\ UNCHANGED <<frame, focus, searchIndex, selector, held>>
  BY DEF KeyTimerFires
<1>2. box \in BoxType /\ searchIndex \in Nat /\ Trimmed(box.field) \in Text
  BY InvFacts, TrimmedType DEF Controls, BoxType
<1>3. Controls'
  <2>1. keyTimeout' \in BOOLEAN /\ ~keyTimeout'
    BY <1>1 DEF Search
  <2>2. keyTimers' \in 0 .. MaxTimers
    BY <1>1, InvFacts
  <2>3. QED
    BY <1>1, <2>1, <2>2, InvFacts DEF Controls, selector
<1>4. /\ b \in BoxType
      /\ Throws(searchIndex) => b = box /\ loading' = loading
      /\ ~Throws(searchIndex) => /\ b.shown /\ b.last = Trimmed(box.field)
                                 /\ b.field = box.field
                                 /\ loading' = ResultsPage(searchIndex, Trimmed(box.field))
  BY <1>1, <1>2, SearchedBox DEF Search
<1> HIDE DEF b
<1>5. /\ loading' \in [page : Page, query : Text]
      /\ b.shown => Answers(IF loading' = NotLoading THEN frame ELSE loading', b.last)
  <2>1. CASE Throws(searchIndex)
    BY <1>4, <2>1, InvFacts DEF SearchInv, LoadsLast
  <2>2. CASE ~Throws(searchIndex)
    BY <1>2, <1>4, <2>2, ResultsPageType
  <2>3. QED
    BY <2>1, <2>2
<1>6. box' = OnSearchFieldFocus(b, focus')
  BY <1>1 DEF OnSearchFieldFocus
<1>7. QED
  BY <1>1, <1>3, <1>4, <1>5, <1>6, SearchesInv, InvFacts

\* What a search leaves in TypeOK, in the words of the selection window.
LEMMA SelectControls ==
  ASSUME SearchInv, NEW i \in 0 .. SelectItemCount, OnSelectItem(i),
         selectShown' \in BOOLEAN, held' \in Key \cup {NoKey},
         UNCHANGED <<pointer, hideTimer>>
  PROVE  Controls'
<1>1. keyTimeout' \in BOOLEAN /\ (keyTimeout' => keyTimers > 0)
  BY SelectedBox
<1>2. searchIndex' = i /\ keyTimers' = keyTimers
  BY DEF OnSelectItem
<1>3. QED
  BY <1>1, <1>2, InvFacts DEF Controls

\* Selecting a section, whoever does and wherever the focus goes.
LEMMA SelectsInv ==
  ASSUME SearchInv, NEW i \in 0 .. SelectItemCount, OnSelectItem(i),
         selectShown' \in BOOLEAN, held' \in Key \cup {NoKey},
         UNCHANGED <<pointer, hideTimer, frame>>,
         box' = OnSearchFieldFocus(Selected(box, i), focus'), focus' \in {Field, Select, focus}
  PROVE  SearchInv'
<1>1. /\ Selected(box, i) \in BoxType
      /\ Selected(box, i).shown \/ Selected(box, i) = box
      /\ Selected(box, i).field = box.field
      /\ loading' \in [page : Page, query : Text]
      /\ Selected(box, i).shown =>
           Answers(IF loading' = NotLoading THEN frame ELSE loading', Selected(box, i).last)
  BY SelectedBox
<1>2. Controls'
  BY SelectControls
<1>3. focus' \in Element /\ (focus'.at = "result" => focus' = focus)
  BY InvFacts, ElementType
<1>4. QED
  BY <1>1, <1>2, <1>3, SearchesInv

\* Selecting with the mouse.
LEMMA ClickSelectItemInv ==
  ASSUME SearchInv, NEW i \in 0 .. SelectItemCount - 1, ClickSelectItem(i)
  PROVE  SearchInv'
<1>1. i \in 0 .. SelectItemCount
  BY SearchBoxAssumption
<1>2. /\ OnSelectItem(i) /\ box' = Selected(box, i) /\ focus # Field /\ focus' = Select
      /\ UNCHANGED <<selectShown, pointer, hideTimer, frame, held>>
  BY DEF ClickSelectItem, selector
<1>3. box' = OnSearchFieldFocus(Selected(box, i), focus')
  BY <1>2, ElementType DEF OnSearchFieldFocus
<1>4. selectShown' \in BOOLEAN /\ held' \in Key \cup {NoKey}
  BY <1>2, InvFacts DEF Controls
<1>5. QED
  BY <1>1, <1>2, <1>3, <1>4, SelectsInv

\* Selecting with the keys.
LEMMA SelectKeyInv ==
  ASSUME SearchInv, NEW k \in Pressed, SelectKey(k)
  PROVE  SearchInv'
<1>1. /\ focus = Select /\ held' \in Key \cup {NoKey}
      /\ searchIndex \in 0 .. SelectItemCount /\ selectShown \in BOOLEAN
  BY SearchBoxAssumption, InvFacts DEF SelectKey, Controls
<1>2. ASSUME NEW i \in 0 .. SelectItemCount, SelectTo(i)
      PROVE  SearchInv'
  <2>1. /\ OnSelectItem(i) /\ box' = Selected(box, i)
        /\ UNCHANGED <<selectShown, pointer, hideTimer, frame, focus>>
    BY <1>2 DEF SelectTo, selector
  <2>2. box' = OnSearchFieldFocus(Selected(box, i), focus')
    BY <1>1, <2>1, ElementType DEF OnSearchFieldFocus
  <2>3. QED
    BY <1>1, <2>1, <2>2, SelectsInv
<1>3. CASE SelectDown(k)
  <2>1. searchIndex + 1 \in 0 .. SelectItemCount /\ SelectTo(searchIndex + 1)
    BY <1>1, <1>3, SearchBoxAssumption DEF SelectDown
  <2>2. QED
    BY <1>2, <2>1
<1>4. CASE SelectUp(k)
  <2>1. searchIndex - 1 \in 0 .. SelectItemCount /\ SelectTo(searchIndex - 1)
    BY <1>1, <1>4, SearchBoxAssumption DEF SelectUp
  <2>2. QED
    BY <1>2, <2>1
<1>5. CASE SelectDone(k)
  <2> DEFINE throws == SearchesAgain(box) /\ Throws(searchIndex)
  <2>1. /\ OnSelectItem(searchIndex)
        /\ box' = IF throws THEN Selected(box, searchIndex)
                  ELSE OnSearchFieldFocus(Selected(box, searchIndex), Field)
        /\ focus' = IF throws THEN focus ELSE Field
        /\ selectShown' = (selectShown /\ throws)
        /\ UNCHANGED <<frame, pointer, hideTimer>>
    BY <1>5 DEF SelectDone
  <2>2. box' = OnSearchFieldFocus(Selected(box, searchIndex), focus')
    BY <1>1, <2>1, ElementType DEF OnSearchFieldFocus
  <2>3. selectShown' \in BOOLEAN
    BY <1>1, <2>1
  <2>4. QED
    BY <1>1, <2>1, <2>2, <2>3, SelectsInv
<1>6. QED
  BY <1>3, <1>4, <1>5 DEF SelectKey

\* A frame with other rows expanded, but the same rows, while the focus stays
\* on an item, whose own row is always in sight.
LEMMA TogglesInv ==
  ASSUME SearchInv, Controls', frame' \in FrameType, SameRows,
         frame'.open = frame.open \/ focus.child = -1,
         UNCHANGED <<focus, box, loading>>
  PROVE  SearchInv'
<1>1. focus'.at = "result" => box.shown /\ Shown(focus)'
  BY InvFacts DEF Shown, Visible, SameRows
<1>2. NothingLeft'
  BY DEF SearchInv, NothingLeft
<1>3. QED
  BY <1>1, <1>2, InvFacts, StaysInv

\* The keys on a result.
LEMMA NavInv ==
  ASSUME SearchInv, NEW event \in {"keydown", "keypress", "keyup"}, NEW k \in Key,
         Nav(event, k), held' \in Key \cup {NoKey}
  PROVE  SearchInv'
<1> DEFINE f == ProcessKeys(event, k)
<1>1. /\ f \in FrameType
      /\ f.page = frame.page /\ f.query = frame.query
      /\ f.visible = frame.visible /\ f.open = frame.open
  BY FrameRows
<1>2. UNCHANGED <<search, selector>> /\ Controls' /\ loading' = loading
  BY InvFacts DEF Nav, search, selector, Controls
<1>3. CASE NavMove(event, k)
  <2> DEFINE e == IF ResultCommand(event, k) = "up" THEN Up(focus) ELSE Down(focus)
  <2>1. /\ frame' = f /\ focus' = Reached(e)
        /\ box' = OnSearchFieldFocus(box, Reached(e))
        /\ focus.at = "result"
    BY <1>3 DEF NavMove, ResultCommand, NoKey
  <2>2. /\ Reached(e) \in Element
        /\ Reached(e) \in {Field, focus} \/ Shown(Reached(e))
    BY <2>1, ReachedElement DEF SearchInv
  <2>3. Reached(e).at = "result" => box.shown /\ Shown(Reached(e))
    BY <2>1, <2>2, InvFacts, ElementType
  <2> HIDE DEF e
  <2>4. PICK to \in Element : to = Reached(e)
    BY <2>2
  <2>5. to.at = "result" => box.shown /\ Shown(to)'
    BY <1>1, <2>1, <2>3, <2>4 DEF Shown, Visible
  <2>6. box' = OnSearchFieldFocus(box, to) /\ focus' = to /\ frame' \in FrameType /\ SameRows
    BY <1>1, <2>1, <2>4 DEF SameRows
  <2>7. QED
    BY <1>2, <2>5, <2>6, MovesInv
<1>4. CASE NavOpen(event, k)
  <2>1. frame' = Opened(f) /\ UNCHANGED <<focus, box>> /\ focus.at = "result"
    BY <1>4 DEF NavOpen, ResultCommand, NoKey
  <2>2. focus.item \in Nat
    <3>1. focus.item \in Visible
      BY <2>1, InvFacts DEF Shown
    <3>2. QED
      BY <3>1, RowType DEF SearchInv
  <2>3. frame' \in FrameType /\ SameRows /\ (frame'.open = frame.open \/ focus.child = -1)
    <3> HIDE DEF f
    <3>1. CASE focus.child = -1 /\ FindChildElement(focus.item)
      BY <1>1, <2>1, <2>2, <3>1 DEF Opened, SameRows, FrameType
    <3>2. CASE ~(focus.child = -1 /\ FindChildElement(focus.item))
      BY <1>1, <2>1, <3>2 DEF Opened, SameRows
    <3>3. QED
      BY <3>1, <3>2
  <2>4. QED
    BY <1>2, <2>1, <2>3, TogglesInv
<1>5. CASE NavEscape(event, k)
  <2>1. /\ frame' = f /\ focus' = Field
        /\ box' = Activate(CloseResultsWindow(box), TRUE)
    BY <1>5 DEF NavEscape
  <2>2. /\ CloseResultsWindow(box) \in BoxType
        /\ ~CloseResultsWindow(box).shown /\ ~CloseResultsWindow(box).close
        /\ CloseResultsWindow(box).last = << >>
    BY InvFacts, CloseBox
  <2>3. /\ box' \in BoxType /\ ~box'.shown /\ ~box'.close /\ box'.last = << >>
    BY <2>1, <2>2, ActivateBox
  <2>4. NothingLeft'
    BY <2>1 DEF NothingLeft
  <2>5. frame' \in FrameType /\ SameRows
    BY <1>1, <2>1 DEF SameRows
  <2>6. QED
    BY <1>2, <2>1, <2>3, <2>4, <2>5, ClosesInv, ElementType
<1>6. CASE NavEnter(event, k)
  <2>1. /\ frame' = Toggled(frame, focus.item) /\ UNCHANGED <<focus, box>>
        /\ focus.at = "result" /\ focus.child = -1
    BY <1>6 DEF NavEnter
  <2>2. focus.item \in Visible
    BY <2>1, InvFacts DEF Shown
  <2>3. frame' \in FrameType /\ SameRows
    BY <2>1, <2>2, FrameRows DEF SameRows
  <2>4. QED
    BY <1>2, <2>1, <2>3, TogglesInv
<1>7. CASE NavNothing(event, k)
  <2>1. frame' = f /\ UNCHANGED <<focus, box>>
    BY <1>7 DEF NavNothing
  <2>2. frame' \in FrameType /\ SameRows /\ frame'.open = frame.open
    BY <1>1, <2>1 DEF SameRows
  <2>3. QED
    BY <1>2, <2>1, <2>2, TogglesInv
<1>8. QED
  BY <1>3, <1>4, <1>5, <1>6, <1>7 DEF Nav

\* The same, by the event that delivers the key.
LEMMA ResultKeysInv ==
  ASSUME SearchInv,
         (\E k \in Pressed : ResultKeyDown(k)) \/ ResultKeyPress \/ ResultKeyUp
  PROVE  SearchInv'
<1>1. held \in Key \cup {NoKey} /\ \A k \in Pressed : k \in Key
  BY InvFacts, SearchBoxAssumption DEF Controls
<1>2. ASSUME NEW k \in Pressed, ResultKeyDown(k)
      PROVE  SearchInv'
  BY <1>1, <1>2, NavInv DEF ResultKeyDown
<1>3. CASE ResultKeyPress
  BY <1>1, <1>3, NavInv DEF ResultKeyPress
<1>4. CASE ResultKeyUp
  <2>1. held \in Key /\ held' = NoKey
    BY <1>1, <1>4 DEF ResultKeyUp
  <2>2. CASE held = "enter"
    <3>1. UNCHANGED <<frame, focus, box, search, selector>>
      BY <1>4, <2>2 DEF ResultKeyUp
    <3>2. Controls' /\ UNCHANGED <<focus, box, loading>>
      BY <2>1, <3>1, InvFacts DEF Controls, search, selector
    <3>3. frame' \in FrameType /\ SameRows /\ frame'.open = frame.open
      BY <3>1, InvFacts DEF SameRows
    <3>4. QED
      BY <3>2, <3>3, TogglesInv
  <2>3. CASE held # "enter"
    BY <1>4, <2>1, <2>3, NavInv DEF ResultKeyUp
  <2>4. QED
    BY <2>2, <2>3
<1>5. QED
  BY <1>2, <1>3, <1>4

\* A document arrives: its rows are those of its page that match its query.
LEMMA createResultsInv ==
  ASSUME SearchInv, createResults
  PROVE  SearchInv'
<1>1. /\ frame' = Loaded(loading.page, loading.query)
      /\ loading # NotLoading /\ loading' = NotLoading
      /\ focus' = IF focus.at = "result" THEN Nowhere ELSE focus
      /\ UNCHANGED <<box, searchIndex, keyTimeout, keyTimers, selectShown, pointer,
                     hideTimer, held>>
  BY DEF createResults, timers, selector
<1>2. Controls' /\ loading' \in [page : Page, query : Text]
  BY <1>1, InvFacts DEF Controls, Page, NotLoading
<1>3. Items(loading.page) \subseteq Nat
  <2>1. CASE loading.page \in IndexPage
    <3>1. Len(searchData[loading.page]) \in Nat
      BY <2>1, SearchResultsAssumption
    <3>2. QED
      BY <2>1, <3>1 DEF Items
  <2>2. CASE loading.page \notin IndexPage
    BY <2>2 DEF Items
  <2>3. QED
    BY <2>1, <2>2
<1>4. Matches(loading.page, loading.query) \subseteq Items(loading.page)
  BY DEF Matches
<1>5. /\ frame' \in FrameType
      /\ frame'.page = loading.page /\ frame'.query = loading.query
      /\ frame'.visible = Matches(loading.page, loading.query)
  <2>1. NoKey \in Key \cup {NoKey} /\ {} \in SUBSET Nat /\ FALSE \in BOOLEAN
    OBVIOUS
  <2>2. loading.page \in Page /\ loading.query \in Text
    BY InvFacts
  <2>3. Matches(loading.page, loading.query) \in SUBSET Nat
    BY <1>3, <1>4
  <2>4. QED
    BY <1>1, <2>1, <2>2, <2>3 DEF Loaded, FrameType
<1>6. focus' \in Element /\ focus'.at # "result" /\ (focus' # Field => focus # Field)
  BY <1>1, InvFacts, ElementType
<1>7. TypeOK'
  BY <1>1, <1>2, <1>5, <1>6, InvFacts DEF TypeOK, Controls
<1>8. RowsOfPage'
  BY <1>5 DEF RowsOfPage, Visible
<1>9. ClosedForgets'
  BY <1>1 DEF SearchInv, ClosedForgets
<1>10. LoadsLast'
  BY <1>1, <1>5 DEF SearchInv, LoadsLast, Answers
<1>11. FocusVisible'
  BY <1>6 DEF FocusVisible
<1>12. NothingLeft'
  BY <1>1, <1>6 DEF SearchInv, NothingLeft
<1>13. QED
  BY <1>7, <1>8, <1>9, <1>10, <1>11, <1>12 DEF SearchInv

\* A step in which nothing happens.
LEMMA StutterInv ==
  ASSUME SearchInv, UNCHANGED vars
  PROVE  SearchInv'
<1>1. Controls' /\ UNCHANGED <<focus, box, loading, frame>>
  BY InvFacts DEF vars, Controls
<1>2. frame' \in FrameType /\ SameRows /\ frame'.open = frame.open
  BY <1>1, InvFacts DEF SameRows
<1>3. QED
  BY <1>1, <1>2, TogglesInv

\* SearchInv is preserved by every step.
LEMMA SearchInvInductive ==
  ASSUME SearchInv, [Next]_vars
  PROVE  SearchInv'
<1>1. CASE Mouse
  BY <1>1, ClickFieldInv, ClickCloseInv, ClickResultInv, ClickSelectItemInv, SelectWindowInv
  DEF Mouse
<1>2. CASE Keyboard
  BY <1>2, PressInv, SelectKeyInv, ResultKeysInv, FieldMenuInv, FieldEscapeInv, FieldChangeInv
  DEF Keyboard
<1>3. CASE Browser
  BY <1>3, KeyTimerInv, SelectWindowInv, createResultsInv DEF Browser
<1>4. CASE UNCHANGED vars
  BY <1>4, StutterInv
<1>5. QED
  BY <1>1, <1>2, <1>3, <1>4 DEF Next

-----------------------------------------------------------------------------
(* What the page promises *)

\* SearchInv holds in every state the page can reach.
THEOREM SearchInvariant == Spec => []SearchInv
<1>1. Init => SearchInv
  BY InitInv
<1>2. SearchInv /\ [Next]_vars => SearchInv'
  BY SearchInvInductive
<1>3. QED
  BY <1>1, <1>2, PTL DEF Spec

\* The variables hold what they are meant to.
THEOREM TypeCorrect == Spec => []TypeOK
<1>1. SearchInv => TypeOK
  BY DEF SearchInv
<1>2. QED
  BY <1>1, SearchInvariant, PTL

\* CloseResultsWindow and the other ways to close the results forget the last
\* search, so that the same text typed again is searched again.
THEOREM ClosedAlwaysForgets == Spec => []ClosedForgets
<1>1. SearchInv => ClosedForgets
  BY DEF SearchInv
<1>2. QED
  BY <1>1, SearchInvariant, PTL

\* What the frame shows when it loads nothing answers the last text searched,
\* however late documents arrive and whatever the user does meanwhile.
THEOREM PageAnswers == Spec => []PageAnswersLast
<1>1. SearchInv => PageAnswersLast
  BY DEF SearchInv, LoadsLast, PageAnswersLast
<1>2. QED
  BY <1>1, SearchInvariant, PTL

\* Nav, Toggle and the filter never leave the focus on a result out of sight.
THEOREM FocusStaysVisible == Spec => []FocusVisible
<1>1. SearchInv => FocusVisible
  BY DEF SearchInv
<1>2. QED
  BY <1>1, SearchInvariant, PTL

\* A field left with its results closed shows the label or nothing.
THEOREM LeftEmpty == Spec => []NothingLeft
<1>1. SearchInv => NothingLeft
  BY DEF SearchInv
<1>2. QED
  BY <1>1, SearchInvariant, PTL

-----------------------------------------------------------------------------
(* The keys follow the page.                                                  *)

\* Trimming the end of a text leaves a length too.
LEMMA TrimmedRightLength ==
  ASSUME NEW t \in Text
  PROVE  Len(TrimmedRight(t)) \in Nat
<1> DEFINE Trailing == {n \in 1 .. Len(t) : \A m \in n .. Len(t) : t[m] = Space}
<1>1. Len(t) \in Nat
  BY DEF Text
<1>2. IsFiniteSet(1 .. Len(t)) /\ Cardinality(1 .. Len(t)) = Len(t)
  BY <1>1, FS_Interval, SMTT(30)
<1>3. Cardinality(Trailing) \in 0 .. Len(t)
  <2>1. Trailing \subseteq 1 .. Len(t)
    OBVIOUS
  <2>2. IsFiniteSet(Trailing) /\ Cardinality(Trailing) <= Cardinality(1 .. Len(t))
    BY <1>2, <2>1, FS_Subset
  <2>3. QED
    BY <1>1, <1>2, <2>2, FS_CardinalityType
<1> HIDE DEF Trailing
<1>4. SubSeq(t, 1, Len(t) - Cardinality(Trailing)) \in Seq(Chars)
  BY <1>1, <1>3, SubSeqProperties DEF Text
<1>5. QED
  BY <1>4, LenProperties DEF TrimmedRight, Trailing

\* There are no gaps in what is displayed.
LEMMA VisibleTogether ==
  ASSUME SearchInv, NEW i \in Visible, NEW k \in Visible, NEW j \in i .. k
  PROVE  j \in Visible
<1> DEFINE p     == frame.page
           query == TrimmedRight(Trimmed(frame.query))
<1>1. Visible = {r \in Items(p) : BeginsWith(Row(p, r).name, query)}
  BY DEF SearchInv, RowsOfPage, Matches
<1>2. p \in IndexPage
  BY <1>1 DEF Items
<1>3. Len(query) \in Nat
  <2>1. frame.query \in Text
    BY DEF SearchInv, TypeOK, FrameType
  <2>2. QED
    BY <2>1, TrimmedType, TrimmedRightLength
<1>4. /\ i \in Items(p) /\ k \in Items(p)
      /\ BeginsWith(Row(p, i).name, query) /\ BeginsWith(Row(p, k).name, query)
  BY <1>1
<1>5. j \in Items(p)
  <2>1. Len(searchData[p]) \in Nat
    BY <1>2, SearchResultsAssumption
  <2>2. Items(p) = 0 .. Len(searchData[p]) - 1
    BY <1>2 DEF Items
  <2>3. QED
    BY <1>4, <2>1, <2>2
<1>6. Len(query) \in 0 .. Len(Row(p, i).name) /\ query = SubSeq(Row(p, i).name, 1, Len(query))
  <2>1. Row(p, i).name \in Text
    <3>1. searchData[p] \in Seq([name : Text, kids : Nat])
      BY <1>2, SearchResultsAssumption
    <3>2. i + 1 \in 1 .. Len(searchData[p])
      BY <1>2, <1>4, <3>1 DEF Items
    <3>3. searchData[p][i + 1] \in [name : Text, kids : Nat]
      BY <3>1, <3>2, ElementOfSeq
    <3>4. QED
      BY <3>3 DEF Row
  <2>2. Len(Row(p, i).name) \in Nat
    BY <2>1 DEF Text
  <2>3. QED
    BY <1>3, <1>4, <2>2 DEF BeginsWith
<1> HIDE DEF p, query
<1>7. BeginsWith(Row(p, j).name, query)
  BY <1>2, <1>4, <1>6, SortedAssumption
<1>8. QED
  BY <1>1, <1>5, <1>7

\* So looking for the next row finds the one below, or there is none below,
LEMMA NavNextRow ==
  ASSUME SearchInv, NEW i \in Visible
  PROVE  /\ NavNext(i + 1) = IF i + 1 \in Visible THEN Item(i + 1) ELSE Nowhere
         /\ i + 1 \notin Visible => \A j \in Visible : j <= i
<1>1. \A j \in Visible : j \in Nat
  BY RowType DEF SearchInv
<1>2. \A j \in Visible : j >= i + 1 => i + 1 \in Visible
  <2>1. SUFFICES ASSUME NEW j \in Visible, j >= i + 1
                 PROVE  i + 1 \in Visible
    OBVIOUS
  <2>2. i + 1 \in i .. j
    BY <1>1, <2>1
  <2>3. QED
    BY <2>2, VisibleTogether
<1>3. CASE i + 1 \in Visible
  <2> DEFINE First(n) == n >= i + 1 /\ \A j \in Visible : j >= i + 1 => n <= j
  <2>1. First(i + 1) /\ \A n \in Visible : First(n) => n = i + 1
    BY <1>1, <1>3
  <2>2. (CHOOSE n \in Visible : First(n)) = i + 1
    BY <1>3, <2>1
  <2>3. \E j \in Visible : j >= i + 1
    BY <1>1, <1>3
  <2>4. NavNext(i + 1) = Item(CHOOSE n \in Visible : First(n))
    BY <2>3, Zenon DEF NavNext
  <2>5. QED
    BY <1>3, <2>2, <2>4
<1>4. CASE i + 1 \notin Visible
  <2>1. ~ \E j \in Visible : j >= i + 1
    BY <1>2, <1>4
  <2>2. \A j \in Visible : j <= i
    BY <1>1, <2>1
  <2>3. QED
    BY <1>4, <2>1, <2>2 DEF NavNext
<1>5. QED
  BY <1>3, <1>4

\* and looking for the one before finds the row above, or there is none.
LEMMA NavPrevRow ==
  ASSUME SearchInv, NEW i \in Visible
  PROVE  /\ NavPrev(i - 1) = IF i - 1 \in Visible THEN Item(i - 1) ELSE Nowhere
         /\ i - 1 \notin Visible => \A j \in Visible : j >= i
<1>1. \A j \in Visible : j \in Nat
  BY RowType DEF SearchInv
<1>2. \A j \in Visible : j <= i - 1 => i - 1 \in Visible
  <2>1. SUFFICES ASSUME NEW j \in Visible, j <= i - 1
                 PROVE  i - 1 \in Visible
    OBVIOUS
  <2>2. i - 1 \in j .. i
    BY <1>1, <2>1
  <2>3. QED
    BY <2>2, VisibleTogether
<1>3. CASE i - 1 \in Visible
  <2> DEFINE Last(n) == n <= i - 1 /\ \A j \in Visible : j <= i - 1 => n >= j
  <2>1. Last(i - 1) /\ \A n \in Visible : Last(n) => n = i - 1
    BY <1>1, <1>3
  <2>2. (CHOOSE n \in Visible : Last(n)) = i - 1
    BY <1>3, <2>1
  <2>3. \E j \in Visible : j <= i - 1
    BY <1>1, <1>3
  <2>4. NavPrev(i - 1) = Item(CHOOSE n \in Visible : Last(n))
    BY <2>3, Zenon DEF NavPrev
  <2>5. QED
    BY <1>3, <2>2, <2>4
<1>4. CASE i - 1 \notin Visible
  <2>1. ~ \E j \in Visible : j <= i - 1
    BY <1>2, <1>4
  <2>2. \A j \in Visible : j >= i
    BY <1>1, <2>1
  <2>3. QED
    BY <1>4, <2>1, <2>2 DEF NavPrev
<1>5. QED
  BY <1>3, <1>4

\* What a reader sees: rows, and the children of expanded ones.
ShownChild(i, c) == Expanded(i) /\ c \in 0 .. Kids(i) - 1

\* The elements a reader sees, by their rows and numbers.
LEMMA Seen ==
  ASSUME SearchInv
  PROVE  /\ \A i \in Visible : Item(i) \in ShownElements
         /\ \A i \in Visible : \A c : ShownChild(i, c) => Child(i, c) \in ShownElements
         /\ \A d \in ShownElements :
              /\ d.item \in Visible /\ d.item \in Nat /\ d.child \in Int /\ d.child >= -1
              /\ IF d.child = -1 THEN d = Item(d.item)
                                 ELSE d = Child(d.item, d.child) /\ ShownChild(d.item, d.child)
<1>1. \A i \in Visible : i \in Nat /\ Kids(i) \in Nat
  BY RowType DEF SearchInv
<1>2. \A i \in Visible : Item(i) \in ShownElements
  BY DEF ShownElements
<1>3. \A i \in Visible : \A c : ShownChild(i, c) => Child(i, c) \in ShownElements
  BY DEF ShownElements, ShownChild
<1>4. ASSUME NEW d \in ShownElements
      PROVE  /\ d.item \in Visible /\ d.item \in Nat /\ d.child \in Int /\ d.child >= -1
             /\ IF d.child = -1 THEN d = Item(d.item)
                                ELSE d = Child(d.item, d.child) /\ ShownChild(d.item, d.child)
  <2>1. CASE \E i \in Visible : d = Item(i)
    <3>1. PICK i \in Visible : d = Item(i)
      BY <2>1
    <3>2. d.item = i /\ d.child = -1
      BY <3>1 DEF Item
    <3>3. QED
      BY <1>1, <3>1, <3>2
  <2>2. CASE \E i \in Visible : Expanded(i) /\ \E c \in 0 .. Kids(i) - 1 : d = Child(i, c)
    <3>1. PICK i \in Visible : Expanded(i) /\ \E c \in 0 .. Kids(i) - 1 : d = Child(i, c)
      BY <2>2
    <3>2. PICK c \in 0 .. Kids(i) - 1 : d = Child(i, c)
      BY <3>1
    <3>3. d.item = i /\ d.child = c /\ c \in Nat
      BY <1>1, <3>2 DEF Child
    <3>4. ShownChild(i, c)
      BY <3>1, <3>2 DEF ShownChild
    <3>5. d.child # -1 /\ d.child \in Int /\ d.child >= -1
      BY <3>3
    <3>6. QED
      BY <1>1, <3>2, <3>3, <3>4, <3>5
  <2>3. QED
    BY <2>1, <2>2 DEF ShownElements
<1>5. QED
  BY <1>2, <1>3, <1>4

\* The elements after and before one, and the nearest of them; past the last is
\* nowhere, and before the first the search field.
After(e)  == {d \in ShownElements : Before(e, d)}
Behind(e) == {d \in ShownElements : Before(d, e)}

IsNext(e, to) ==
  IF After(e) = {} THEN to = Nowhere
  ELSE to \in After(e) /\ \A d \in After(e) \ {to} : Before(to, d)

IsPrevious(e, to) ==
  IF Behind(e) = {} THEN to = Field
  ELSE to \in Behind(e) /\ \A d \in Behind(e) \ {to} : Before(d, to)

\* After the last element of a row comes the next row.
LEMMA NextRow ==
  ASSUME SearchInv, NEW e \in ShownElements,
         \A d \in ShownElements : d.item = e.item => d.child <= e.child
  PROVE  IsNext(e, NavNext(e.item + 1))
<1> DEFINE i == e.item
<1>1. /\ i \in Visible /\ i \in Nat /\ e.child \in Int
      /\ \A d \in ShownElements :
           /\ d.item \in Visible /\ d.item \in Nat /\ d.child \in Int /\ d.child >= -1
           /\ d.child = -1 => d = Item(d.item)
  BY Seen
<1>2. \A d \in After(e) : d \in ShownElements /\ d.item >= i + 1
  BY <1>1 DEF After, Before
<1>3. CASE i + 1 \in Visible
  <2>1. NavNext(i + 1) = Item(i + 1)
    BY <1>1, <1>3, NavNextRow
  <2>2. Item(i + 1) \in After(e)
    <3>1. Item(i + 1) \in ShownElements
      BY <1>3, Seen
    <3>2. Item(i + 1).item = i + 1
      BY DEF Item
    <3>3. QED
      BY <1>1, <3>1, <3>2 DEF After, Before
  <2>3. ASSUME NEW d \in After(e) \ {Item(i + 1)}
        PROVE  Before(Item(i + 1), d)
    <3>1. d \in ShownElements /\ d.item >= i + 1 /\ d # Item(i + 1)
      BY <1>2
    <3>2. Item(i + 1).item = i + 1 /\ Item(i + 1).child = -1
      BY DEF Item
    <3>3. d.item = i + 1 => d.child # -1
      BY <1>1, <3>1
    <3>4. QED
      BY <1>1, <3>1, <3>2, <3>3 DEF Before
  <2>4. QED
    BY <2>1, <2>2, <2>3 DEF IsNext
<1>4. CASE i + 1 \notin Visible
  <2>1. NavNext(i + 1) = Nowhere /\ \A j \in Visible : j <= i
    BY <1>1, <1>4, NavNextRow
  <2>2. After(e) = {}
    BY <1>1, <1>2, <2>1
  <2>3. QED
    BY <2>1, <2>2 DEF IsNext
<1>5. QED
  BY <1>3, <1>4

\* Down goes to the next element.
LEMMA DownNext ==
  ASSUME SearchInv, NEW e \in ShownElements
  PROVE  IsNext(e, Down(e))
<1> DEFINE i == e.item
           c == e.child
<1>1. /\ i \in Visible /\ i \in Nat /\ c \in Int /\ c >= -1 /\ Kids(i) \in Nat
      /\ c # -1 => ShownChild(i, c)
      /\ \A d \in ShownElements :
           /\ d.item \in Nat /\ d.child \in Int /\ d.child >= -1
           /\ d.child # -1 => d = Child(d.item, d.child) /\ ShownChild(d.item, d.child)
  BY Seen, RowType DEF SearchInv
\* To a child below, if there is one,
<1>2. ASSUME ShownChild(i, c + 1)
      PROVE  IsNext(e, Child(i, c + 1))
  <2>1. Child(i, c + 1).item = i /\ Child(i, c + 1).child = c + 1
    BY DEF Child
  <2>2. Child(i, c + 1) \in After(e)
    <3>1. Child(i, c + 1) \in ShownElements
      BY <1>1, <1>2, Seen
    <3>2. QED
      BY <1>1, <2>1, <3>1 DEF After, Before
  <2>3. ASSUME NEW d \in After(e) \ {Child(i, c + 1)}
        PROVE  Before(Child(i, c + 1), d)
    <3>1. /\ d \in ShownElements /\ Before(e, d) /\ d # Child(i, c + 1)
      BY DEF After
    <3>2. d.item = i => d.child > c
      BY <1>1, <3>1 DEF Before
    <3>3. d.item = i => d.child # c + 1
      <4>1. ASSUME d.item = i, d.child = c + 1
            PROVE  FALSE
        <5>1. d.child # -1
          BY <1>1, <4>1
        <5>2. d = Child(d.item, d.child)
          BY <1>1, <3>1, <5>1
        <5>3. QED
          BY <3>1, <4>1, <5>2
      <4>2. QED
        BY <4>1
    <3>4. d.item \in Nat /\ d.child \in Int /\ d.item >= i
      BY <1>1, <3>1 DEF Before
    <3>5. d.item = i => d.child > c + 1
      BY <1>1, <3>2, <3>3, <3>4
    <3>6. QED
      BY <1>1, <2>1, <3>4, <3>5 DEF Before
  <2>4. QED
    BY <2>2, <2>3 DEF IsNext
\* and else to the next row.
<1>3. ASSUME ~ShownChild(i, c + 1)
      PROVE  IsNext(e, NavNext(i + 1))
  <2>1. ASSUME NEW d \in ShownElements, d.item = i
        PROVE  d.child <= c
    <3>1. d.child # -1 => Expanded(i) /\ d.child \in 0 .. Kids(i) - 1
      BY <1>1, <2>1 DEF ShownChild
    <3>2. Expanded(i) => c + 1 \notin 0 .. Kids(i) - 1
      BY <1>3 DEF ShownChild
    <3>3. QED
      BY <1>1, <3>1, <3>2
  <2>2. QED
    BY <2>1, NextRow
<1>4. CASE c = -1
  <2>1. Down(e) = IF Expanded(i) THEN Child(i, 0) ELSE NavNext(i + 1)
    BY <1>4 DEF Down, DownFromItem
  <2>2. ShownChild(i, c + 1) <=> Expanded(i)
    <3>1. Expanded(i) => Kids(i) > 0
      BY DEF Expanded, FindChildElement
    <3>2. c + 1 = 0 /\ (Kids(i) > 0 => 0 \in 0 .. Kids(i) - 1)
      BY <1>1, <1>4
    <3>3. QED
      BY <3>1, <3>2 DEF ShownChild
  <2>3. c + 1 = 0
    BY <1>4
  <2>4. QED
    BY <1>2, <1>3, <2>1, <2>2, <2>3
<1>5. CASE c # -1
  <2>1. Down(e) = IF c + 1 < Kids(i) THEN Child(i, c + 1) ELSE NavNext(i + 1)
    BY <1>5 DEF Down, DownFromChild
  <2>2. ShownChild(i, c + 1) <=> c + 1 < Kids(i)
    <3>1. Expanded(i) /\ c \in 0 .. Kids(i) - 1
      BY <1>1, <1>5 DEF ShownChild
    <3>2. c + 1 \in 0 .. Kids(i) - 1 <=> c + 1 < Kids(i)
      BY <1>1, <3>1
    <3>3. QED
      BY <3>1, <3>2 DEF ShownChild
  <2>3. QED
    BY <1>2, <1>3, <2>1, <2>2
<1>6. QED
  BY <1>4, <1>5

\* Up goes to the previous one: from a child to the one above it ...
LEMMA UpFromChildPrevious ==
  ASSUME SearchInv, NEW e \in ShownElements, e.child # -1
  PROVE  IsPrevious(e, Up(e))
<1> DEFINE i  == e.item
           c  == e.child
           to == Up(e)
<1>1. /\ i \in Visible /\ i \in Nat /\ Kids(i) \in Nat
      /\ Expanded(i) /\ c \in 0 .. Kids(i) - 1 /\ c \in Nat
      /\ \A d \in ShownElements :
           /\ d.item \in Nat /\ d.child \in Int /\ d.child >= -1
           /\ IF d.child = -1 THEN d = Item(d.item) ELSE d = Child(d.item, d.child)
  <2>1. /\ i \in Visible /\ i \in Nat /\ Kids(i) \in Nat
        /\ Expanded(i) /\ c \in 0 .. Kids(i) - 1
    BY Seen, RowType DEF SearchInv, ShownChild
  <2>2. \A d \in ShownElements :
           /\ d.item \in Nat /\ d.child \in Int /\ d.child >= -1
           /\ IF d.child = -1 THEN d = Item(d.item) ELSE d = Child(d.item, d.child)
    BY Seen
  <2>3. QED
    BY <2>1, <2>2
<1>2. to = IF c > 0 THEN Child(i, c - 1) ELSE Item(i)
  BY DEF Up, UpFromChild
<1>3. to \in ShownElements /\ to.item = i /\ to.child = c - 1
  <2>1. CASE c > 0
    <3>1. c - 1 \in 0 .. Kids(i) - 1
      BY <1>1, <2>1
    <3>2. to = Child(i, c - 1)
      BY <1>2, <2>1
    <3>3. QED
      BY <1>1, <3>1, <3>2, Seen DEF ShownChild, Child
  <2>2. CASE c = 0
    <3>1. to = Item(i) /\ c - 1 = -1
      BY <1>2, <2>2
    <3>2. QED
      BY <1>1, <3>1, Seen DEF Item
  <2>3. QED
    BY <1>1, <2>1, <2>2
<1>4. to \in Behind(e)
  BY <1>1, <1>3 DEF Behind, Before
<1>5. ASSUME NEW d \in Behind(e) \ {to}
      PROVE  Before(d, to)
  <2>1. d \in ShownElements /\ Before(d, e) /\ d # to
    BY DEF Behind
  <2>2. d.item = i => d.child # c - 1
    BY <1>1, <1>3, <2>1
  <2>3. d.item <= i /\ (d.item = i => d.child < c)
    BY <1>1, <2>1 DEF Before
  <2>4. QED
    BY <1>1, <1>3, <2>1, <2>2, <2>3 DEF Before
<1>6. QED
  BY <1>4, <1>5 DEF IsPrevious

\* ... and from a row to the last that is shown of the row above.
LEMMA UpFromItemPrevious ==
  ASSUME SearchInv, NEW e \in ShownElements, e.child = -1
  PROVE  IsPrevious(e, Up(e))
<1> DEFINE i  == e.item
           to == Up(e)
<1>1. /\ i \in Visible /\ i \in Nat
      /\ \A d \in ShownElements :
           /\ d.item \in Visible /\ d.item \in Nat /\ d.child \in Int /\ d.child >= -1
           /\ IF d.child = -1 THEN d = Item(d.item)
                              ELSE d = Child(d.item, d.child) /\ ShownChild(d.item, d.child)
  BY Seen
<1>2. to = UpFromItem(i)
  BY DEF Up
<1>3. \A d \in Behind(e) : d \in ShownElements /\ d.item <= i - 1
  BY <1>1 DEF Behind, Before
<1>4. CASE i - 1 \notin Visible
  <2>1. NavPrev(i - 1) = Nowhere /\ \A j \in Visible : j >= i
    BY <1>1, <1>4, NavPrevRow
  <2>2. to = Field
    BY <1>2, <2>1 DEF UpFromItem
  <2>3. Behind(e) = {}
    BY <1>1, <1>3, <2>1
  <2>4. QED
    BY <2>2, <2>3 DEF IsPrevious
<1>5. CASE i - 1 \in Visible
  <2> DEFINE j == i - 1
  <2>1. NavPrev(j) = Item(j) /\ Item(j) # Nowhere /\ Item(j).item = j
    <3>1. NavPrev(j) = Item(j)
      BY <1>1, <1>5, NavPrevRow
    <3>2. Item(j).at = "result" /\ Item(j).item = j
      BY DEF Item
    <3>3. QED
      BY <3>1, <3>2, ElementType
  <2>2. j \in Nat /\ Kids(j) \in Nat /\ j = i - 1
    BY <1>5, RowType DEF SearchInv
  <2>3. Expanded(j) => Kids(j) > 0
    BY DEF Expanded, FindChildElement
  <2>4. to = IF Expanded(j) THEN Child(j, Kids(j) - 1) ELSE Item(j)
    <3>1. UpFromItem(i) = IF Expanded(Item(j).item) /\ Kids(j) > 0
                          THEN Child(j, Kids(j) - 1) ELSE Item(j)
      BY <2>1 DEF UpFromItem
    <3>2. QED
      BY <1>2, <2>1, <2>3, <3>1
  <2>5. to \in ShownElements /\ to.item = j
    <3>1. CASE Expanded(j)
      <4>1. Kids(j) - 1 \in 0 .. Kids(j) - 1
        BY <2>2, <2>3, <3>1
      <4>2. ShownChild(j, Kids(j) - 1)
        BY <3>1, <4>1 DEF ShownChild
      <4>3. QED
        BY <1>5, <2>4, <3>1, <4>2, Seen DEF Child
    <3>2. CASE ~Expanded(j)
      BY <1>5, <2>4, <3>2, Seen DEF Item
    <3>3. QED
      BY <3>1, <3>2
  <2>6. to \in Behind(e)
    BY <1>1, <2>2, <2>5 DEF Behind, Before
  <2>7. ASSUME NEW d \in Behind(e) \ {to}
        PROVE  Before(d, to)
    <3>1. d \in ShownElements /\ d.item <= j /\ d.item \in Nat /\ d.child \in Int /\ d.child >= -1
      BY <1>1, <1>3
    <3>2. d.item = j => d.child < to.child
      <4>1. SUFFICES ASSUME d.item = j
                     PROVE  d.child < to.child
        OBVIOUS
      <4>2. d # to
        OBVIOUS
      <4>3. CASE Expanded(j)
        <5>1. to = Child(j, Kids(j) - 1) /\ to.child = Kids(j) - 1
          BY <2>4, <4>3 DEF Child
        <5>2. d.child # Kids(j) - 1
          <6>1. ASSUME d.child = Kids(j) - 1
                PROVE  FALSE
            <7>1. d.child # -1
              BY <2>2, <2>3, <4>3, <6>1
            <7>2. d = Child(j, Kids(j) - 1)
              BY <1>1, <3>1, <4>1, <6>1, <7>1
            <7>3. QED
              BY <4>2, <5>1, <7>2
          <6>2. QED
            BY <6>1
        <5>3. d.child # -1 => d.child \in 0 .. Kids(j) - 1
          BY <1>1, <3>1, <4>1 DEF ShownChild
        <5>4. QED
          BY <2>2, <2>3, <3>1, <4>3, <5>1, <5>2, <5>3
      <4>4. CASE ~Expanded(j)
        <5>1. to = Item(j)
          BY <2>4, <4>4
        <5>2. d.child = -1
          BY <1>1, <3>1, <4>1, <4>4 DEF ShownChild
        <5>3. d = Item(j)
          BY <1>1, <3>1, <4>1, <5>2
        <5>4. QED
          BY <4>2, <5>1, <5>3
      <4>5. QED
        BY <4>3, <4>4
    <3>3. QED
      BY <2>2, <2>5, <3>1, <3>2 DEF Before
  <2>8. QED
    BY <2>6, <2>7 DEF IsPrevious
<1>6. QED
  BY <1>4, <1>5

\* Up and Down follow the order of the page, whatever is filtered or collapsed:
\* Nav and NavChild skip nothing that a reader sees.
THEOREM NavFollowsThePage == Spec => []NavInDocumentOrder
<1>1. ASSUME SearchInv
      PROVE  NavInDocumentOrder
  <2>1. ASSUME NEW e \in ShownElements
        PROVE  IsNext(e, Down(e)) /\ IsPrevious(e, Up(e))
    BY <1>1, <2>1, DownNext, UpFromChildPrevious, UpFromItemPrevious
  <2>2. QED
    BY <2>1 DEF NavInDocumentOrder, IsNext, IsPrevious, After, Behind
<1>2. QED
  BY <1>1, SearchInvariant, PTL
=============================================================================
