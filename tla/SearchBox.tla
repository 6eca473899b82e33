----------------------------- MODULE SearchBox -----------------------------
(* The search box of the generated documentation, the class SearchBox of      *)
(* search.js, with the user, the timers and the results page in its frame.    *)
(*                                                                            *)
(* The actions are the handlers of the page, with the event that calls them:  *)
(* keys go to the element that has the focus when they are pressed or         *)
(* released, and moving the focus runs onblur and onfocus of the field first. *)
(* Positions and sizes of the windows are left out.                           *)
EXTENDS SearchResults

CONSTANTS
  Label,          \* the text of a field that is not in use, "Search"
  Typed,          \* the texts the user may type
  Pressed,        \* the keys the user may press
  SelectItemCount,\* the number of sections the user can select
  MaxTimers       \* the bound on timers that are running at the same time

VARIABLES
  box,            \* field, searchActive, lastSearchValue, and whether the results
                  \* window and the link that closes it are displayed
  searchIndex,    \* the section to search; SelectItemCount is no section
  keyTimeout,     \* whether a timer is remembered
  keyTimers,      \* how many timers of OnSearchFieldChange are running
  selectShown,    \* whether the window to select a section is displayed
  pointer,        \* whether the mouse is over that window or its symbol
  hideTimer,      \* whether the timer that hides that window is running
  loading,        \* the document the frame is loading, or none
  held            \* the key that is down

vars == <<frame, focus, box, searchIndex, keyTimeout, keyTimers, selectShown,
          pointer, hideTimer, loading, held>>

timers   == <<keyTimeout, keyTimers>>
selector == <<selectShown, pointer, hideTimer>>
search   == <<searchIndex, keyTimeout, keyTimers, loading>>

NotLoading == [page |-> Blank, query |-> << >>]

ASSUME SearchBoxAssumption ==
  /\ Label \in Text
  /\ Typed \subseteq Text
  /\ Pressed \subseteq Key \ {"text"}
  /\ SelectItemCount \in Nat \ {0}
  /\ MaxTimers \in Nat \ {0}

(* The page has been loaded and OnSelectItem(0) been called.                  *)
Init ==
  /\ box = [field |-> Label, active |-> FALSE, last |-> << >>,
            shown |-> FALSE, close |-> FALSE]
  /\ searchIndex = 0
  /\ keyTimeout = FALSE
  /\ keyTimers = 0
  /\ selectShown = FALSE
  /\ pointer = FALSE
  /\ hideTimer = FALSE
  /\ frame = Loaded(Blank, << >>)
  /\ loading = NotLoading
  /\ focus = Nowhere
  /\ held = NoKey

-----------------------------------------------------------------------------
(* What the functions of the class do to the box *)

Squeezed(t) ==
  LET NotSpace(c) == c # Space
  IN  SelectSeq(t, NotSpace)

\* Mutants of Activate: the last search, or the text, is not reset.
ActivateKeepsLast(b, isActive) ==
  IF isActive \/ b.shown
  THEN IF b.field = Label THEN [b EXCEPT !.field = << >>, !.active = TRUE] ELSE b
  ELSE [b EXCEPT !.field = Label, !.active = FALSE]

ActivateKeepsText(b, isActive) ==
  IF isActive \/ b.shown
  THEN IF b.field = Label THEN [b EXCEPT !.field = << >>, !.active = TRUE] ELSE b
  ELSE [b EXCEPT !.active = FALSE, !.last = << >>]

Activate(b, isActive) ==
  IF isActive \/ b.shown
  THEN IF b.field = Label THEN [b EXCEPT !.field = << >>, !.active = TRUE] ELSE b
  ELSE [b EXCEPT !.field = Label, !.active = FALSE, !.last = << >>]

Hidden(b) == [b EXCEPT !.shown = FALSE, !.close = FALSE]

CloseResultsWindow(b) == Activate(Hidden(b), FALSE)

(* onblur and onfocus of the field when the focus moves to another element.   *)
OnSearchFieldFocus(b, to) ==
  CASE focus = Field /\ to # Field -> Activate(b, FALSE)
    [] focus # Field /\ to = Field -> Activate(b, TRUE)
    [] OTHER -> b

(* The document a search asks for; indexSectionsWithContent says whether there*)
(* is a page for the initial. For an empty text its position 0 is looked at,  *)
(* that of a character no name begins with.                                   *)
HasPage(i, t) == t # << >> /\ <<i, t[1]>> \in IndexPage

ResultsPage(i, t) ==
  IF HasPage(i, t) THEN [page |-> <<i, t[1]>>, query |-> t]
                   ELSE [page |-> NoMatches, query |-> << >>]

(* A section that does not exist makes Search throw after its first line.     *)
Throws(i) == i >= SelectItemCount

\* Mutant of Searched: the text is kept only when the window opens.
SearchedOnce(b, i) ==
  IF Throws(i) \/ b.shown THEN b
  ELSE [b EXCEPT !.shown = TRUE, !.close = TRUE, !.last = Trimmed(b.field)]

Searched(b, i) ==
  IF Throws(i) THEN b
  ELSE [b EXCEPT !.shown = TRUE, !.close = @ \/ ~b.shown, !.last = Trimmed(b.field)]

\* Mutant of Search: the page is requested only when the window opens.
SearchLoadsOnce(i) ==
  /\ keyTimeout' = FALSE
  /\ loading' = IF Throws(i) \/ box.shown THEN loading ELSE ResultsPage(i, Trimmed(box.field))

(* Search: it forgets the timer, whether or not it has been called by it.     *)
Search(i) ==
  /\ keyTimeout' = FALSE
  /\ loading' = IF Throws(i) THEN loading ELSE ResultsPage(i, Trimmed(box.field))

(* OnSelectItem, which searches again if there is something to search.        *)
SearchesAgain(b) == Squeezed(b.field) # << >> /\ b.active

OnSelectItem(i) ==
  /\ searchIndex' = i
  /\ IF SearchesAgain(box) THEN Search(i) ELSE UNCHANGED <<keyTimeout, loading>>
  /\ UNCHANGED keyTimers

Selected(b, i) == IF SearchesAgain(b) THEN Searched(b, i) ELSE b

-----------------------------------------------------------------------------
(* The mouse *)

ClickField ==
  /\ focus # Field
  /\ box' = OnSearchFieldFocus(box, Field)
  /\ focus' = Field
  /\ UNCHANGED <<frame, search, selector, held>>

ClickAway ==
  /\ focus # Nowhere
  /\ box' = OnSearchFieldFocus(box, Nowhere)
  /\ focus' = Nowhere
  /\ UNCHANGED <<frame, search, selector, held>>

ClickClose ==
  /\ box.close
  /\ box' = CloseResultsWindow(OnSearchFieldFocus(box, Nowhere))
  /\ focus' = Nowhere
  /\ UNCHANGED <<frame, search, selector, held>>

(* A row with children is a link to Toggle.                                   *)
ClickResult(i) ==
  /\ box.shown
  /\ FindChildElement(i)
  /\ box' = OnSearchFieldFocus(box, Item(i))
  /\ focus' = Item(i)
  /\ frame' = Toggled(frame, i)
  /\ UNCHANGED <<search, selector, held>>

(* The button going down takes the focus from the field, the click follows.   *)
ClickSelectItem(i) ==
  /\ selectShown
  /\ focus # Field
  /\ box' = Selected(box, i)
  /\ OnSelectItem(i)
  /\ focus' = Select
  /\ UNCHANGED <<frame, selector, held>>

OnSearchSelectShow ==
  /\ ~pointer
  /\ pointer' = TRUE
  /\ selectShown' = TRUE
  /\ hideTimer' = FALSE
  /\ UNCHANGED <<frame, focus, box, search, held>>

OnSearchSelectHide ==
  /\ pointer
  /\ pointer' = FALSE
  /\ hideTimer' = TRUE
  /\ UNCHANGED <<frame, focus, box, search, selectShown, held>>

-----------------------------------------------------------------------------
(* Keys in the field.  Its handler is called when a key is released.          *)

PressText(t) ==
  /\ focus = Field
  /\ held = NoKey
  /\ t # box.field
  /\ box' = [box EXCEPT !.field = t]
  /\ held' = "text"
  /\ UNCHANGED <<frame, focus, search, selector>>

PressOther(k) ==
  /\ focus = Field
  /\ held = NoKey
  /\ k \notin {"left", "right"}      \* they are like Up here
  /\ held' = k
  /\ UNCHANGED <<frame, focus, box, search, selector>>

Running == keyTimers - (IF keyTimeout THEN 1 ELSE 0)   \* without the remembered one

(* Shift and Down opens the selection window and moves the focus to it.       *)
FieldMenu ==
  /\ focus = Field
  /\ held = "menu"
  /\ keyTimeout' = FALSE
  /\ keyTimers' = Running
  /\ selectShown' = TRUE
  /\ hideTimer' = FALSE
  /\ box' = OnSearchFieldFocus(box, Select)
  /\ focus' = Select
  /\ held' = NoKey
  /\ UNCHANGED <<frame, searchIndex, pointer, loading>>

FieldEscape ==
  /\ focus = Field
  /\ held = "esc"
  /\ keyTimeout' = FALSE
  /\ keyTimers' = Running
  /\ box' = CloseResultsWindow(OnSearchFieldFocus(box, Nowhere))
  /\ focus' = Nowhere
  /\ held' = NoKey
  /\ UNCHANGED <<frame, searchIndex, selector, loading>>

(* Down and Enter go to the first result, if there is one in sight; whatever  *)
(* the key, the text is compared with the last one searched.                  *)
FieldChange ==
  LET first == IF held \in {"down", "enter"} /\ box.shown THEN Reached(NavNext(0)) ELSE Field
      b     == OnSearchFieldFocus(box, first)
      value == Squeezed(b.field)
      arms  == value # b.last /\ value # << >>
      empty == value # b.last /\ value = << >>
  IN  /\ focus = Field
      /\ held \notin {"menu", "esc", NoKey}
      /\ box' = IF empty THEN [Hidden(b) EXCEPT !.last = << >>] ELSE b
      /\ focus' = IF empty /\ first # Field THEN Nowhere ELSE first
      /\ keyTimeout' = arms
      /\ keyTimers' = IF arms THEN Running + 1 ELSE Running
      /\ keyTimers' <= MaxTimers
      /\ held' = NoKey
      /\ UNCHANGED <<frame, searchIndex, selector, loading>>

-----------------------------------------------------------------------------
(* Keys in the selection window, whose handler is called for keydown.         *)

SelectTo(i) ==
  /\ OnSelectItem(i)
  /\ box' = Selected(box, i)
  /\ UNCHANGED <<frame, focus, selector>>

\* Mutant of SelectDown: the index is not compared with the number of items.
SelectDownPast(k) ==
  /\ Code(k) = "down"
  /\ SelectTo(searchIndex + 1)

SelectDown(k) ==
  /\ Code(k) = "down"
  /\ searchIndex < SelectItemCount
  /\ SelectTo(searchIndex + 1)

SelectUp(k) ==
  /\ k = "up"
  /\ searchIndex > 0
  /\ SelectTo(searchIndex - 1)

(* If OnSelectItem throws, the window stays open.                             *)
SelectDone(k) ==
  LET throws == SearchesAgain(box) /\ Throws(searchIndex)
      b      == Selected(box, searchIndex)
  IN  /\ k \in {"enter", "esc"}
      /\ OnSelectItem(searchIndex)
      /\ box' = IF throws THEN b ELSE OnSearchFieldFocus(b, Field)
      /\ focus' = IF throws THEN focus ELSE Field
      /\ selectShown' = (selectShown /\ throws)
      /\ UNCHANGED <<frame, pointer, hideTimer>>

SelectKey(k) ==
  /\ focus = Select
  /\ held \in {NoKey, k}
  /\ held' = k
  /\ SelectDown(k) \/ SelectUp(k) \/ SelectDone(k)

-----------------------------------------------------------------------------
(* Keys on a result, handled for keydown, keypress and keyup.                 *)

ResultCommand(event, k) == IF focus.at = "result" THEN Command(event, k) ELSE NoKey

NavMove(event, k) ==
  LET to == Reached(IF ResultCommand(event, k) = "up" THEN Up(focus) ELSE Down(focus))
  IN  /\ ResultCommand(event, k) \in {"up", "down"}
      /\ frame' = ProcessKeys(event, k)
      /\ focus' = to
      /\ box' = OnSearchFieldFocus(box, to)

NavOpen(event, k) ==
  /\ ResultCommand(event, k) \in {"left", "right"}
  /\ frame' = Opened(ProcessKeys(event, k))
  /\ UNCHANGED <<focus, box>>

NavEscape(event, k) ==
  /\ ResultCommand(event, k) = "esc"
  /\ frame' = ProcessKeys(event, k)
  /\ focus' = Field
  /\ box' = Activate(CloseResultsWindow(box), TRUE)

(* Enter follows the link of the row, here the one to Toggle.                 *)
NavEnter(event, k) ==
  /\ focus.at = "result"
  /\ focus.child = -1
  /\ FindChildElement(focus.item)
  /\ event = "keydown" /\ k = "enter"
  /\ frame' = Toggled(frame, focus.item)
  /\ UNCHANGED <<focus, box>>

(* An event that only ProcessKeys takes notice of.                            *)
NavNothing(event, k) ==
  /\ focus.at = "result"
  /\ k # "enter"
  /\ Command(event, k) = NoKey
  /\ frame' = ProcessKeys(event, k)
  /\ UNCHANGED <<focus, box>>

Nav(event, k) ==
  /\ NavMove(event, k) \/ NavOpen(event, k) \/ NavEscape(event, k)
       \/ NavEnter(event, k) \/ NavNothing(event, k)
  /\ UNCHANGED <<search, selector>>

(* A key pressed, or repeated by a browser that repeats keydown.              *)
ResultKeyDown(k) ==
  /\ held \in {NoKey, k}
  /\ held' = k
  /\ Nav("keydown", k)

ResultKeyPress ==
  /\ held # NoKey
  /\ Nav("keypress", held)
  /\ UNCHANGED held

ResultKeyUp ==
  /\ held # NoKey
  /\ focus.at = "result"
  /\ IF held = "enter" THEN UNCHANGED <<frame, focus, box, search, selector>>
     ELSE Nav("keyup", held)
  /\ held' = NoKey

ReleaseElsewhere ==
  /\ focus \in {Select, Nowhere}
  /\ held # NoKey
  /\ held' = NoKey
  /\ UNCHANGED <<frame, focus, box, search, selector>>

-----------------------------------------------------------------------------
(* Timers and the frame *)

KeyTimerFires ==
  /\ keyTimers > 0
  /\ Search(searchIndex)
  /\ box' = Searched(box, searchIndex)
  /\ keyTimers' = keyTimers - 1
  /\ UNCHANGED <<frame, focus, searchIndex, selector, held>>

CloseSelectionWindow ==
  /\ hideTimer
  /\ hideTimer' = FALSE
  /\ selectShown' = FALSE
  /\ focus' = IF focus = Select THEN Nowhere ELSE focus
  /\ UNCHANGED <<frame, box, search, pointer, held>>

(* The document arrives: createResults, a new SearchResults and its Search.   *)
createResults ==
  /\ loading # NotLoading
  /\ frame' = Loaded(loading.page, loading.query)
  /\ loading' = NotLoading
  /\ focus' = IF focus.at = "result" THEN Nowhere ELSE focus
  /\ UNCHANGED <<box, searchIndex, timers, selector, held>>

-----------------------------------------------------------------------------
Mouse ==
  \/ ClickField
  \/ ClickAway
  \/ ClickClose
  \/ \E i \in Visible : ClickResult(i)
  \/ \E i \in 0 .. SelectItemCount - 1 : ClickSelectItem(i)
  \/ OnSearchSelectShow
  \/ OnSearchSelectHide

Keyboard ==
  \/ \E t \in Typed : PressText(t)
  \/ \E k \in Pressed : PressOther(k) \/ SelectKey(k) \/ ResultKeyDown(k)
  \/ FieldMenu
  \/ FieldEscape
  \/ FieldChange
  \/ ResultKeyPress
  \/ ResultKeyUp
  \/ ReleaseElsewhere

Browser == KeyTimerFires \/ CloseSelectionWindow \/ createResults

Next == Mouse \/ Keyboard \/ Browser

(* Timers run out and documents arrive; keys that are down are released. A    *)
(* timer of the field need not run out as long as keys are released in it:    *)
(* each one stops it and may start another.                                   *)
Released == FieldMenu \/ FieldEscape \/ FieldChange \/ ResultKeyUp \/ ReleaseElsewhere

Fairness == /\ WF_vars(KeyTimerFires \/ FieldChange)
            /\ WF_vars(CloseSelectionWindow)
            /\ WF_vars(createResults)
            /\ WF_vars(Released)

Spec == Init /\ [][Next]_vars /\ Fairness

(* The fields of the box: two texts and three flags.                          *)
BoxType == [field : Text, active : BOOLEAN, last : Text, shown : BOOLEAN, close : BOOLEAN]

(* What the variables hold; searchIndex may go one past the last section.     *)
TypeOK ==
  /\ box \in BoxType
  /\ searchIndex \in 0 .. SelectItemCount
  /\ keyTimeout \in BOOLEAN
  /\ keyTimers \in 0 .. MaxTimers
  /\ keyTimeout => keyTimers > 0
  /\ selectShown \in BOOLEAN
  /\ pointer \in BOOLEAN
  /\ hideTimer \in BOOLEAN
  /\ frame \in FrameType
  /\ loading \in [page : Page, query : Text]
  /\ focus \in Element
  /\ held \in Key \cup {NoKey}

(* Once the results window is closed, by whichever of the five ways, its      *)
(* close button is gone and the last search is forgotten: otherwise typing    *)
(* the same text again would count as no change and not be searched.          *)
ClosedForgets == ~box.shown => box.last = << >> /\ ~box.close

(* The document for a text has rows of its initial and its query.             *)
Answers(document, text) ==
  \/ document.page = NoMatches
  \/ text # << >> /\ document.page[2] = text[1] /\ document.query = text

(* When nothing is loading the results on display are those of the text that  *)
(* was searched last, though documents arrive late and the user goes on.      *)
PageAnswersLast == box.shown /\ loading = NotLoading => Answers(frame, box.last)

(* The focus never stays on a result the user cannot see, when rows are       *)
(* collapsed or filtered away or the window is closed under it.               *)
FocusVisible == focus.at = "result" => box.shown /\ Shown(focus)

(* A field left with its results closed shows no query any more.              *)
NothingLeft == ~box.shown /\ focus # Field => Squeezed(box.field) \in {<< >>, Squeezed(Label)}

(* What is typed is answered, whether OnSearchFieldChange schedules a search  *)
(* for it or takes it for the text searched last: its results come up, up to  *)
(* spaces. The exceptions: the user never stops pressing keys in the field,   *)
(* changes the text, or leaves the field before the key is up; the user turns *)
(* to the selection window; or has moved past the last section there, after   *)
(* which Search throws.                                                       *)
Answered(t) ==
  /\ box.shown
  /\ loading = NotLoading
  /\ frame.page = ResultsPage(searchIndex, box.last).page
  /\ Squeezed(box.last) = Squeezed(t)

QueryAnswered ==
  \/ []<><<FieldChange>>_vars
  \/ \A t \in {s \in Typed : Squeezed(s) # << >>} :
       held = "text" /\ focus = Field /\ box.field = t ~>
         \/ Answered(t)
         \/ box.field # t
         \/ held = "text" /\ focus # Field
         \/ focus = Select
         \/ Throws(searchIndex)
=============================================================================
