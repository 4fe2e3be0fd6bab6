---------------------------- MODULE GpsSnapshot ----------------------------
(***************************************************************************)
(* The GPS data in cfg.  The idle hook feeds the parser; when a sentence   *)
(* is complete and correct the parser takes its fields over at once        *)
(* (commit), and setGPSData() copies what is valid into cfg word by word.  *)
(* sendGPSDataJson() asks the parser what is valid and reads cfg, also     *)
(* word by word, in a task that may run at any moment of the copying, or   *)
(* on the other core beside it.  (The display's task preempts the hook on  *)
(* its own core and reads all it shows while the hook stands still.)       *)
(*                                                                         *)
(* A double is two words to this CPU.  A word holds the number of the      *)
(* sentence that measured it: 0 in the parser before any did, Unmeasured   *)
(* in cfg before anything was copied.                                      *)
(***************************************************************************)
EXTENDS Integers, Sequences

CONSTANTS
    Words,         \* the words of cfg that are modelled, in the order of AllWords
    MaxSentences   \* bound: sentences received

\* The order in which setGPSData() writes; sendGPSDataJson() reads in the same.
AllWords ==
    << "hour", "minute", "second", "year", "month", "day",
       "lat.0", "lat.1", "lng.0", "lng.1", "alt.0", "alt.1", "course.0", "course.1",
       "speed.0", "speed.1", "sat", "hdop.0", "hdop.1" >>

TimeWords == {"hour", "minute", "second"}
DateWords == {"year", "month", "day"}
LocationWords == {"lat.0", "lat.1", "lng.0", "lng.1"}
AltitudeWords == {"alt.0", "alt.1"}
CourseWords == {"course.0", "course.1"}
SpeedWords == {"speed.0", "speed.1"}
HdopWords == {"hdop.0", "hdop.1"}

Word == { Words[i] : i \in DOMAIN Words }

ASSUME WordsAssumption ==
    /\ Words \in Seq({ AllWords[i] : i \in DOMAIN AllWords }) /\ Words # <<>>
    /\ \A i, j \in DOMAIN Words : Words[i] = Words[j] => i = j
    /\ MaxSentences \in Nat

VARIABLES
    gps,         \* what the parser has for each word
    measured,    \* the groups of words whose isValid() is true
    cfg,
    hook,        \* the word setGPSData() copies next, 0 outside of it
    push,        \* what sendGPSDataJson() reads next, 0 outside of it
    page,        \* what it has read of cfg
    isValidGPS,  \* what it sends under this name
    calm,        \* history: no update began or ran since it began to read
    heard        \* history: what the parser had after each sentence

vars == <<gps, measured, cfg, hook, push, page, isValidGPS, calm, heard>>

Unmeasured == -1

-----------------------------------------------------------------------------
\* Where ConfigInit()'s local Config comes from nobody knows: no word of the
\* position is measured.
Init ==
    /\ gps = [w \in Word |-> 0] /\ measured = {}
    /\ cfg = [w \in Word |-> Unmeasured]
    /\ hook = 0 /\ push = 0
    /\ page = [w \in Word |-> Unmeasured] /\ isValidGPS = FALSE
    /\ calm = FALSE
    /\ heard = <<>>

\* What a sentence brings: RMC the time and the date, GGA the time, the
\* satellites and the precision; with a fix also the position, and what it
\* says of the movement or the altitude.
RMC(fix) == {TimeWords, DateWords} \cup (IF fix THEN {LocationWords, CourseWords, SpeedWords} ELSE {})
GGA(fix) == {TimeWords, {"sat"}, HdopWords} \cup (IF fix THEN {LocationWords, AltitudeWords} ELSE {})

\* gps.encode(): the fields of a sentence that was received whole are committed.
encode(groups) ==
    /\ hook = 0 /\ Len(heard) < MaxSentences
    /\ gps' = [w \in Word |-> IF w \in UNION groups THEN Len(heard) + 1 ELSE gps[w]]
    /\ measured' = measured \cup groups
    /\ heard' = Append(heard, gps')
    /\ hook' = 1
    /\ calm' = FALSE
    /\ UNCHANGED <<cfg, push, page, isValidGPS>>

\* Slip: the date is copied with the position.
IsValidDateWithLocation(w) ==
    IF w \in AltitudeWords \cup DateWords THEN LocationWords \in measured
    ELSE \E g \in measured : w \in g

\* The condition under which setGPSData() copies a word: its group is valid;
\* the altitude is copied with the position and has no test of its own.
IsValid(w) ==
    IF w \in AltitudeWords THEN LocationWords \in measured
    ELSE \E g \in measured : w \in g

After(i) == IF i = Len(Words) THEN 0 ELSE i + 1

\* Slip: the last word is not reached.
setGPSDataShort ==
    /\ hook > 0
    /\ cfg' = IF IsValid(Words[hook]) /\ hook < Len(Words)
              THEN [cfg EXCEPT ![Words[hook]] = gps[Words[hook]]] ELSE cfg
    /\ hook' = After(hook)
    /\ UNCHANGED <<gps, measured, push, page, isValidGPS, calm, heard>>

\* The next word.
setGPSData ==
    /\ hook > 0
    /\ cfg' = IF IsValid(Words[hook]) THEN [cfg EXCEPT ![Words[hook]] = gps[Words[hook]]] ELSE cfg
    /\ hook' = After(hook)
    /\ UNCHANGED <<gps, measured, push, page, isValidGPS, calm, heard>>

\* sendGPSDataJson() begins with an empty document: isValidGPS is gps.date.isValid().
Begin ==
    /\ push = 0
    /\ push' = 1
    /\ isValidGPS' = (DateWords \in measured)
    /\ page' = [w \in Word |-> Unmeasured]
    /\ calm' = (hook = 0)
    /\ UNCHANGED <<gps, measured, cfg, hook, heard>>

Read ==
    /\ push \in DOMAIN Words
    /\ page' = [page EXCEPT ![Words[push]] = cfg[Words[push]]]
    /\ push' = push + 1
    /\ UNCHANGED <<gps, measured, cfg, hook, isValidGPS, calm, heard>>

IsRead == push = Len(Words) + 1

\* textAll(): the page is on its way.
Send ==
    /\ IsRead
    /\ push' = 0
    /\ UNCHANGED <<gps, measured, cfg, hook, page, isValidGPS, calm, heard>>

sendGPSDataJson == Begin \/ Read \/ Send

Next ==
    \/ \E fix \in BOOLEAN : encode(RMC(fix)) \/ encode(GGA(fix))
    \/ setGPSData
    \/ sendGPSDataJson

Spec == Init /\ [][Next]_vars

\* The idle task has its turn, for every other task sleeps between its rounds;
\* the push comes once a second while a browser is connected.
FairSpec == Spec /\ WF_vars(setGPSData) /\ WF_vars(sendGPSDataJson)

-----------------------------------------------------------------------------
TypeOK ==
    /\ gps \in [Word -> 0 .. Len(heard)]
    /\ measured \subseteq RMC(TRUE) \cup GGA(TRUE)
    /\ cfg \in [Word -> Unmeasured .. Len(heard)] /\ page \in [Word -> Unmeasured .. Len(heard)]
    /\ hook \in 0 .. Len(Words) /\ push \in 0 .. Len(Words) + 1
    /\ isValidGPS \in BOOLEAN /\ calm \in BOOLEAN
    /\ heard \in Seq([Word -> 0 .. Len(heard)])

\* A word measured by sentence n is followed on the page by words at least as
\* new as they were after sentence n - 1, so that what is read later is at most
\* one update behind; and a page that no update overlapped shows one moment:
\* everything as the last sentence left it, no double half old.
PageHangsTogether ==
    IsRead =>
        /\ \A i, j \in DOMAIN Words :
              i < j /\ page[Words[i]] > 1 =>
                  LET before == heard[page[Words[i]] - 1][Words[j]] IN
                  before > 0 => page[Words[j]] >= before
        /\ calm => \A w \in Word : gps[w] > 0 => page[w] = gps[w]

\* When no more sentences come, the last is pushed to the last of its words.
NewestPushed ==
    Len(heard) = MaxSentences ~> IsRead /\ \A w \in Word : gps[w] > 0 => page[w] = gps[w]

\* data/sloraaprs.js:43 shows lat, lng, course and speed if isValidGPS == 1:
\* what it then shows was measured, even if only pages count that no update
\* overlapped.
ShowsWhatWasMeasured ==
    IsRead /\ calm /\ isValidGPS => \A w \in LocationWords \cap Word : page[w] # Unmeasured
=============================================================================
