---------------------------- MODULE DisplayPages ----------------------------
(***************************************************************************)
(* The OLED and the two tasks that draw on it (TrackerDisplay.cpp): the    *)
(* task tracker_display_CB, which shows the next page every five seconds,  *)
(* and the button's task, whose menu handlers call write3Line().  Both     *)
(* work on the one Adafruit display object: a text cursor, a text size and *)
(* a frame buffer that display() sends to the screen.  No lock keeps one   *)
(* out while the other draws, and the display task looks at none of the    *)
(* Scheduler's flags, so its drawing calls may come between any two of the *)
(* menu's.                                                                 *)
(*                                                                         *)
(* A page is the sequence of calls its write function makes; setTextSize() *)
(* and setCursor() before a print are one call here.  A text is a name;    *)
(* where the cursor is after a print depends on the text's width and is    *)
(* Moved.  The satellites and the hdop in the corner belong to the head.   *)
(***************************************************************************)
EXTENDS Integers, Sequences

CONSTANTS
    MenuPages,       \* the menu's pages that are drawn
    MaxMenuPages     \* bound: how many pages the menu draws

Moved == -1          \* the cursor after a print
Unset == -2          \* a cursor or a size nothing has set yet

Clear == [do |-> "clear"]
At(row, n) == [do |-> "at", row |-> row, size |-> n]
Text(t) == [do |-> "print", text |-> t]
Show == [do |-> "display"]

Large == 2
Small == 1
Put(row, n, t) == << At(row, n), Text(t) >>

\* _writeHead
writeHead(head) == Put(0, Large, head)

\* Slip: the display is not cleared.
write3LineOver(head, line1, line2, n) ==
    writeHead(head) \o Put(22, n, line1) \o Put(44, n, line2) \o <<Show>>

write3Line(head, line1, line2, n) ==
    <<Clear>> \o writeHead(head) \o Put(22, n, line1) \o Put(44, n, line2) \o <<Show>>

noValidData == Put(22, Large, "no valid") \o Put(44, Large, "data yet") \o <<Show>>

writeUTC(valid) ==
    <<Clear>> \o writeHead("- UTC -") \o
    (IF valid THEN write3Line("- UTC -", "time", "date", Large) ELSE noValidData)

writeGPS(valid) ==
    <<Clear>> \o writeHead("GPS") \o
    (IF valid THEN Put(20, Small, "lat") \o Put(32, Small, "lng")
                   \o Put(44, Small, "speed") \o Put(56, Small, "alt") \o <<Show>>
     ELSE noValidData)

writeWX ==
    <<Clear>> \o writeHead("WX") \o Put(22, Small, "temp") \o Put(36, Small, "hum")
    \o Put(50, Small, "press") \o <<Show>>

\* In both modes the SSID and the status are short and the address is long.
writeWiFiStatus(off) ==
    <<Clear>> \o
    (IF off THEN writeHead("Wifi") \o Put(32, Large, "OFF")
     ELSE writeHead("Wifi AP") \o Put(22, Large, "SSID")
          \o Put(38, Large, "status") \o Put(54, Small, "IP"))
    \o <<Show>>

\* The pages of each DisplayMode.
DisplayModes == 0 .. 3
PagesOf(mode) ==
    CASE mode = 0 -> { writeUTC(valid) : valid \in BOOLEAN }
      [] mode = 1 -> { writeGPS(valid) : valid \in BOOLEAN }
      [] mode = 2 -> { writeWX }
      [] mode = 3 -> { writeWiFiStatus(off) : off \in BOOLEAN }

menuPage(item) == write3Line(item, "what it does", "how to go on", Small)

VARIABLES
    current_display_mode,
    cursor, size, buffer,   \* the display object
    screen,                 \* what display() sent last
    page, at,               \* of each task: the page it draws and the call it is at
    alone,                  \* of each task: the other made no call since its page began
    shown,                  \* the page whose display() was last
    clean,                  \* whether that page was drawn alone
    menuPages               \* pages the menu has drawn

object == <<cursor, size, buffer, screen>>
vars == <<current_display_mode, object, page, at, alone, shown, clean, menuPages>>

Task == {"display", "menu"}
NoPage == <<>>
Busy(task) == at[task] <= Len(page[task])

\* What one drawing call makes of cursor, size and buffer.
Draw(d, call) ==
    CASE call.do = "clear" -> [d EXCEPT !.buffer = {}]
      [] call.do = "at" -> [d EXCEPT !.cursor = call.row, !.size = call.size]
      [] call.do = "print" ->
            [d EXCEPT !.buffer = @ \cup {[text |-> call.text, row |-> d.cursor, size |-> d.size]},
                      !.cursor = Moved]
      [] call.do = "display" -> d

\* The texts of the first n calls of page p, without those a later clear takes
\* away: each in the place and size that the call just before it has set.
Drawn(p, n) ==
    { [text |-> p[i].text, row |-> p[i - 1].row, size |-> p[i - 1].size] :
        i \in { k \in 2 .. n : /\ p[k].do = "print" /\ p[k - 1].do = "at"
                               /\ \A c \in k .. n : p[c] # Clear } }

\* What a page is meant to show.
Picture(p) == Drawn(p, Len(p))

-----------------------------------------------------------------------------
Init ==
    /\ current_display_mode = 0
    /\ cursor = Unset /\ size = Unset /\ buffer = {} /\ screen = {}
    /\ page = [t \in Task |-> NoPage] /\ at = [t \in Task |-> 1]
    /\ alone = [t \in Task |-> TRUE]
    /\ shown = NoPage /\ clean = TRUE
    /\ menuPages = 0

Begin(task, p) ==
    /\ ~Busy(task)
    /\ page' = [page EXCEPT ![task] = p]
    /\ at' = [at EXCEPT ![task] = 1]
    /\ alone' = [alone EXCEPT ![task] = TRUE]
    /\ UNCHANGED <<object, shown, clean>>

\* Slip: the last mode is left out.
NextPageSkipsLast ==
    /\ Busy("menu") => alone["menu"]
    /\ current_display_mode' = IF current_display_mode < 2 THEN current_display_mode + 1 ELSE 0
    /\ \E p \in PagesOf(current_display_mode') : Begin("display", p)
    /\ UNCHANGED menuPages

\* Slip: a menu page stops the task for good.
NextPageUntilMenu ==
    /\ menuPages = 0
    /\ current_display_mode' = IF current_display_mode < 3 THEN current_display_mode + 1 ELSE 0
    /\ \E p \in PagesOf(current_display_mode') : Begin("display", p)
    /\ UNCHANGED menuPages

\* tracker_display_CB: nextDisplayMode() and showDisplayMode().  The five
\* seconds since the last page outlast a page of the menu, so that none is
\* still being drawn that began before them.
NextPage ==
    /\ Busy("menu") => alone["menu"]
    /\ current_display_mode' = IF current_display_mode < 3 THEN current_display_mode + 1 ELSE 0
    /\ \E p \in PagesOf(current_display_mode') : Begin("display", p)
    /\ UNCHANGED menuPages

\* A handler of the menu shows its page.
MenuPage ==
    /\ menuPages < MaxMenuPages
    /\ menuPages' = menuPages + 1
    /\ \E item \in MenuPages : Begin("menu", menuPage(item))
    /\ UNCHANGED current_display_mode

\* The next call of a page.
Call(task) ==
    /\ Busy(task)
    /\ LET call == page[task][at[task]]
           d == Draw([cursor |-> cursor, size |-> size, buffer |-> buffer], call)
       IN
       /\ cursor' = d.cursor /\ size' = d.size /\ buffer' = d.buffer
       /\ IF call = Show
          THEN screen' = buffer /\ shown' = page[task] /\ clean' = alone[task]
          ELSE UNCHANGED <<screen, shown, clean>>
    /\ at' = [at EXCEPT ![task] = @ + 1]
    /\ alone' = [t \in Task |-> alone[t] /\ t = task]
    /\ UNCHANGED <<current_display_mode, page, menuPages>>

Next == NextPage \/ MenuPage \/ \E task \in Task : Call(task)

Spec == Init /\ [][Next]_vars

\* Both tasks run on; the user need not click.
FairSpec == Spec /\ WF_vars(NextPage) /\ \A task \in Task : WF_vars(Call(task))

-----------------------------------------------------------------------------

\* A page that no other task drew into is on the screen as it was meant, all
\* its texts and nothing else, whatever cursor, size and buffer the other task
\* left behind: every write function clears first and sets all it uses.
CleanUnlessOverlapped == clean /\ shown # NoPage => screen = Picture(shown)

\* A page the tasks spoiled between them does not stay.
Recovers == ~clean ~> clean

\* Every page has its turn, however often the menu draws.
AllPagesShown ==
    \A mode \in DisplayModes : []<>(shown \in PagesOf(mode))
=============================================================================
