------------------------- MODULE DisplayPagesProofs -------------------------
(***************************************************************************)
(* The pages on the screen, for any pages of the menu and any number of    *)
(* them.                                                                   *)
(***************************************************************************)
EXTENDS DisplayPages, SequenceTheorems, TLAPS

-----------------------------------------------------------------------------
(* Pages.                                                                  *)

Known(call) == call = Clear \/ call = Show \/ call.do \in {"at", "print"}

IsSeq(p) == \E S : p \in Seq(S)

\* Every text has its place set just before it.
WellMade(p) ==
    /\ IsSeq(p)
    /\ \A i \in 1 .. Len(p) :
          Known(p[i]) /\ (p[i].do = "print" => i > 1 /\ p[i - 1].do = "at")

\* A part of a page that does not show it, one that shows it with its last call.
Body(p) == WellMade(p) /\ \A i \in 1 .. Len(p) : p[i] # Show
Ends(p) == WellMade(p) /\ Len(p) >= 1 /\ \A i \in 1 .. Len(p) : p[i] = Show <=> i = Len(p)

Starts(p) == IsSeq(p) /\ Len(p) >= 1 /\ p[1] = Clear

Opened(p) == Starts(p) /\ Body(p)
IsPage(p) == Starts(p) /\ Ends(p)

\* EXCEPT changes the one argument.
LEMMA Updated ==
    ASSUME NEW S, NEW F, DOMAIN F = S, NEW a \in S, NEW x, NEW G, G = [F EXCEPT ![a] = x]
    PROVE  /\ DOMAIN G = S /\ G[a] = x
           /\ \A c \in S : c # a => G[c] = F[c]
OBVIOUS

LEMMA Joined ==
    ASSUME NEW p, NEW q, IsSeq(p), IsSeq(q)
    PROVE  /\ IsSeq(p \o q) /\ Len(p) \in Nat /\ Len(q) \in Nat
           /\ Len(p \o q) = Len(p) + Len(q)
           /\ \A i \in 1 .. Len(p \o q) :
                 \/ i \in 1 .. Len(p) /\ (p \o q)[i] = p[i]
                 \/ /\ i \notin 1 .. Len(p) /\ i - Len(p) \in 1 .. Len(q)
                    /\ (p \o q)[i] = q[i - Len(p)]
<1>1. PICK S, T : p \in Seq(S) /\ q \in Seq(T)
  BY Zenon DEF IsSeq
<1> DEFINE U == S \cup T
<1>2. p \in Seq(U) /\ q \in Seq(U)
  BY <1>1
<1> HIDE DEF U
<1>3. /\ p \o q \in Seq(U) /\ Len(p \o q) = Len(p) + Len(q)
      /\ \A i \in 1 .. Len(p) + Len(q) : (p \o q)[i] = IF i <= Len(p) THEN p[i] ELSE q[i - Len(p)]
  BY <1>2, ConcatProperties, Zenon
<1>4. IsSeq(p \o q)
  BY <1>3, Zenon DEF IsSeq
<1>5. Len(p) \in Nat /\ Len(q) \in Nat
  BY <1>2
<1> DEFINE r == p \o q
           m == Len(p)
           n == Len(q)
<1>6. ASSUME NEW i \in 1 .. m + n, r[i] = IF i <= m THEN p[i] ELSE q[i - m], m \in Nat, n \in Nat
      PROVE  \/ i \in 1 .. m /\ r[i] = p[i]
             \/ i \notin 1 .. m /\ i - m \in 1 .. n /\ r[i] = q[i - m]
  <2> HIDE DEF r, m, n
  <2> QED BY <1>6
<1> QED BY <1>3, <1>4, <1>5, <1>6, Zenon

LEMMA WellMadeJoined ==
    ASSUME NEW p, NEW q, WellMade(p), WellMade(q)
    PROVE  WellMade(p \o q)
<1> DEFINE r == p \o q
           m == Len(p)
<1>1. /\ IsSeq(r) /\ m \in Nat /\ Len(q) \in Nat /\ Len(r) = m + Len(q)
      /\ \A i \in 1 .. Len(r) :
            \/ i \in 1 .. m /\ r[i] = p[i]
            \/ i \notin 1 .. m /\ i - m \in 1 .. Len(q) /\ r[i] = q[i - m]
  BY Joined, Zenon DEF WellMade
<1> HIDE DEF r, m
<1>2. ASSUME NEW i \in 1 .. Len(r)
      PROVE  Known(r[i]) /\ (r[i].do = "print" => i > 1 /\ r[i - 1].do = "at")
  <2>1. CASE i \in 1 .. m /\ r[i] = p[i]
    <3>1. Known(p[i]) /\ (p[i].do = "print" => i > 1 /\ p[i - 1].do = "at")
      BY <2>1 DEF WellMade, m
    <3>2. i > 1 => r[i - 1] = p[i - 1]
      BY <1>1, <2>1
    <3> QED BY <2>1, <3>1, <3>2
  <2>2. CASE i \notin 1 .. m /\ i - m \in 1 .. Len(q) /\ r[i] = q[i - m]
    <3>1. Known(q[i - m]) /\ (q[i - m].do = "print" => i - m > 1 /\ q[i - m - 1].do = "at")
      BY <2>2 DEF WellMade
    <3>2. i - m > 1 => i > 1 /\ r[i - 1] = q[i - m - 1]
      <4> SUFFICES ASSUME i - m > 1 PROVE i > 1 /\ r[i - 1] = q[i - m - 1]
        OBVIOUS
      <4>1. i > 1 /\ i - 1 \in 1 .. Len(r) /\ i - 1 \notin 1 .. m /\ (i - 1) - m = i - m - 1
        BY <1>1
      <4> QED BY <1>1, <4>1
    <3> QED BY <2>2, <3>1, <3>2
  <2> QED BY <1>1, <2>1, <2>2
<1> QED BY <1>1, <1>2, Zenon DEF WellMade, r

LEMMA BodyJoined ==
    ASSUME NEW p, NEW q, Body(p), Body(q)
    PROVE  Body(p \o q)
<1>1. WellMade(p \o q)
  BY WellMadeJoined DEF Body
<1> DEFINE r == p \o q
           m == Len(p)
<1>2. \A i \in 1 .. Len(r) :
         \/ i \in 1 .. m /\ r[i] = p[i]
         \/ i \notin 1 .. m /\ i - m \in 1 .. Len(q) /\ r[i] = q[i - m]
  BY Joined, Zenon DEF Body, WellMade
<1>3. (\A i \in 1 .. m : p[i] # Show) /\ \A i \in 1 .. Len(q) : q[i] # Show
  BY Zenon DEF Body
<1> HIDE DEF r, m
<1>4. \A i \in 1 .. Len(r) : r[i] # Show
  BY <1>2, <1>3
<1> QED BY <1>1, <1>4, Zenon DEF Body, r

LEMMA EndsJoined ==
    ASSUME NEW p, NEW q, Body(p), Ends(q)
    PROVE  Ends(p \o q)
<1> DEFINE r == p \o q
           m == Len(p)
<1>1. WellMade(r)
  BY WellMadeJoined DEF Body, Ends
<1>2. /\ m \in Nat /\ Len(q) \in Nat /\ Len(r) = m + Len(q)
      /\ \A i \in 1 .. Len(r) :
            \/ i \in 1 .. m /\ r[i] = p[i]
            \/ i \notin 1 .. m /\ i - m \in 1 .. Len(q) /\ r[i] = q[i - m]
  BY Joined, Zenon DEF Body, Ends, WellMade
<1>3. /\ Len(q) >= 1 /\ \A i \in 1 .. Len(q) : q[i] = Show <=> i = Len(q)
      /\ \A i \in 1 .. m : p[i] # Show
  BY Zenon DEF Body, Ends
<1> HIDE DEF r, m
<1>4. Len(r) >= 1 /\ \A i \in 1 .. Len(r) : r[i] = Show <=> i = Len(r)
  BY <1>2, <1>3
<1> QED BY <1>1, <1>4, Zenon DEF Ends, r

LEMMA StartsJoined ==
    ASSUME NEW p, NEW q, Starts(p), IsSeq(q)
    PROVE  Starts(p \o q)
<1> DEFINE r == p \o q
<1>1. /\ IsSeq(r) /\ Len(p) \in Nat /\ Len(q) \in Nat /\ Len(r) = Len(p) + Len(q)
      /\ \A i \in 1 .. Len(r) :
            \/ i \in 1 .. Len(p) /\ r[i] = p[i]
            \/ i \notin 1 .. Len(p) /\ i - Len(p) \in 1 .. Len(q) /\ r[i] = q[i - Len(p)]
  BY Joined, Zenon DEF Starts
<1> HIDE DEF r
<1>2. Len(p) >= 1 /\ p[1] = Clear
  BY DEF Starts
<1>3. Len(r) >= 1 /\ r[1] = Clear
  BY <1>1, <1>2
<1> QED BY <1>1, <1>3, Zenon DEF Starts, r

LEMMA OpenedJoined ==
    ASSUME NEW p, NEW q, Opened(p)
    PROVE  /\ Body(q) => Opened(p \o q)
           /\ Ends(q) => IsPage(p \o q)
<1>1. Starts(p) /\ Body(p)
  BY DEF Opened
<1>2. Body(q) \/ Ends(q) => IsSeq(q)
  BY Zenon DEF Body, Ends, WellMade
<1> QED BY <1>1, <1>2, StartsJoined, BodyJoined, EndsJoined, Zenon DEF Opened, IsPage

-----------------------------------------------------------------------------
(* The write functions.                                                    *)

LEMMA PutIsBody == ASSUME NEW row, NEW n, NEW t PROVE Body(Put(row, n, t))
<1> DEFINE a == At(row, n)
           b == Text(t)
           p == <<a, b>>
<1>1. a.do = "at" /\ b.do = "print" /\ a # Show /\ b # Show
  BY DEF At, Text, Show
<1> HIDE DEF a, b
<1>2. p \in Seq({a, b}) /\ Len(p) = 2 /\ p[1] = a /\ p[2] = b
  OBVIOUS
<1>3. IsSeq(p)
  BY <1>2, Zenon DEF IsSeq
<1> HIDE DEF p
<1>4. \A i \in 1 .. Len(p) : Known(p[i]) /\ (p[i].do = "print" => i > 1 /\ p[i - 1].do = "at")
  BY <1>1, <1>2 DEF Known
<1>5. \A i \in 1 .. Len(p) : p[i] # Show
  BY <1>1, <1>2
<1> QED BY <1>3, <1>4, <1>5, Zenon DEF Body, WellMade, Put, p, a, b

LEMMA ClearOpens == Opened(<<Clear>>)
<1> DEFINE p == <<Clear>>
<1>1. p \in Seq({Clear}) /\ Len(p) = 1 /\ p[1] = Clear
  OBVIOUS
<1>2. Clear.do = "clear" /\ Clear # Show
  BY DEF Clear, Show
<1>3. IsSeq(p)
  BY <1>1, Zenon DEF IsSeq
<1> HIDE DEF p
<1>4. \A i \in 1 .. Len(p) : Known(p[i]) /\ p[i].do # "print" /\ p[i] # Show
  BY <1>1, <1>2 DEF Known
<1>5. Body(p) /\ Starts(p)
  BY <1>1, <1>3, <1>4 DEF Body, WellMade, Starts
<1> QED BY <1>5, Zenon DEF Opened, p

LEMMA ShowEnds == Ends(<<Show>>)
<1> DEFINE p == <<Show>>
<1>1. p \in Seq({Show}) /\ Len(p) = 1 /\ p[1] = Show
  OBVIOUS
<1>2. Show.do = "display"
  BY DEF Show
<1>3. IsSeq(p)
  BY <1>1, Zenon DEF IsSeq
<1> HIDE DEF p
<1>4. \A i \in 1 .. Len(p) : Known(p[i]) /\ p[i].do # "print" /\ (p[i] = Show <=> i = Len(p))
  BY <1>1, <1>2 DEF Known
<1>5. Ends(p)
  BY <1>1, <1>3, <1>4 DEF Ends, WellMade
<1> QED BY <1>5, Zenon DEF p

LEMMA write3LineIsPage ==
    ASSUME NEW head, NEW line1, NEW line2, NEW n
    PROVE  IsPage(write3Line(head, line1, line2, n))
BY ClearOpens, ShowEnds, PutIsBody, OpenedJoined, Zenon DEF write3Line, writeHead

LEMMA noValidDataEnds == Ends(noValidData)
BY ShowEnds, PutIsBody, BodyJoined, EndsJoined, Zenon DEF noValidData

LEMMA writeUTCIsPage == ASSUME NEW valid \in BOOLEAN PROVE IsPage(writeUTC(valid))
<1>1. Opened(<<Clear>> \o writeHead("- UTC -"))
  BY ClearOpens, PutIsBody, OpenedJoined, Zenon DEF writeHead
<1>2. CASE valid
  <2>1. Ends(write3Line("- UTC -", "time", "date", Large))
    BY write3LineIsPage, Zenon DEF IsPage
  <2> QED BY <1>1, <1>2, <2>1, OpenedJoined, Zenon DEF writeUTC
<1>3. CASE ~valid
  BY <1>1, <1>3, noValidDataEnds, OpenedJoined, Zenon DEF writeUTC
<1> QED BY <1>2, <1>3

LEMMA writeGPSIsPage == ASSUME NEW valid \in BOOLEAN PROVE IsPage(writeGPS(valid))
<1>1. Opened(<<Clear>> \o writeHead("GPS"))
  BY ClearOpens, PutIsBody, OpenedJoined, Zenon DEF writeHead
<1> DEFINE lines == Put(20, Small, "lat") \o Put(32, Small, "lng")
                    \o Put(44, Small, "speed") \o Put(56, Small, "alt") \o <<Show>>
<1>2. Ends(lines)
  BY ShowEnds, PutIsBody, BodyJoined, EndsJoined, Zenon
<1>3. writeGPS(valid) = <<Clear>> \o writeHead("GPS") \o (IF valid THEN lines ELSE noValidData)
  BY Zenon DEF writeGPS
<1> HIDE DEF lines
<1>4. CASE valid
  BY <1>1, <1>2, <1>3, <1>4, OpenedJoined, Zenon
<1>5. CASE ~valid
  BY <1>1, <1>3, <1>5, noValidDataEnds, OpenedJoined, Zenon
<1> QED BY <1>4, <1>5

LEMMA writeWXIsPage == IsPage(writeWX)
BY ClearOpens, ShowEnds, PutIsBody, OpenedJoined, Zenon DEF writeWX, writeHead

LEMMA writeWiFiStatusIsPage == ASSUME NEW off \in BOOLEAN PROVE IsPage(writeWiFiStatus(off))
<1> DEFINE lines == IF off THEN writeHead("Wifi") \o Put(32, Large, "OFF")
                    ELSE writeHead("Wifi AP") \o Put(22, Large, "SSID")
                         \o Put(38, Large, "status") \o Put(54, Small, "IP")
<1>1. Body(lines)
  BY PutIsBody, BodyJoined, Zenon DEF writeHead
<1>2. writeWiFiStatus(off) = <<Clear>> \o lines \o <<Show>>
  BY Zenon DEF writeWiFiStatus
<1> HIDE DEF lines
<1> QED BY <1>1, <1>2, ClearOpens, ShowEnds, OpenedJoined, Zenon

\* Every page of the display task and of the menu clears first, sets the place
\* of each text just before it and shows with its last call.
LEMMA PagesArePages ==
    /\ \A mode \in DisplayModes : \A p \in PagesOf(mode) : IsPage(p)
    /\ \A item : IsPage(menuPage(item))
<1>1. ASSUME NEW mode \in DisplayModes, NEW p \in PagesOf(mode)
      PROVE  IsPage(p)
  <2>1. \/ \E valid \in BOOLEAN : p = writeUTC(valid) \/ p = writeGPS(valid) \/ p = writeWiFiStatus(valid)
        \/ p = writeWX
    BY <1>1 DEF DisplayModes, PagesOf
  <2> QED BY <2>1, writeUTCIsPage, writeGPSIsPage, writeWiFiStatusIsPage, writeWXIsPage, Zenon
<1>2. \A item : IsPage(menuPage(item))
  BY write3LineIsPage, Zenon DEF menuPage
<1> QED BY <1>1, <1>2, Zenon

-----------------------------------------------------------------------------
(* Drawing.                                                                *)

\* What is added by one more call.
LEMMA DrawnNext ==
    ASSUME NEW p, IsPage(p), NEW n \in Nat, n >= 1, n + 1 \in 1 .. Len(p)
    PROVE  /\ p[n + 1] = Clear => Drawn(p, n + 1) = {}
           /\ p[n + 1] # Clear /\ p[n + 1].do # "print" => Drawn(p, n + 1) = Drawn(p, n)
           /\ p[n + 1].do = "print" =>
                 Drawn(p, n + 1) = Drawn(p, n) \cup
                    {[text |-> p[n + 1].text, row |-> p[n].row, size |-> p[n].size]}
<1> DEFINE Entry(i) == [text |-> p[i].text, row |-> p[i - 1].row, size |-> p[i - 1].size]
           Lasts(m) == { k \in 2 .. m : /\ p[k].do = "print" /\ p[k - 1].do = "at"
                                        /\ \A c \in k .. m : p[c] # Clear }
<1>0. \A m : Drawn(p, m) = { Entry(i) : i \in Lasts(m) }
  BY Zenon DEF Drawn
<1>1. ASSUME p[n + 1] = Clear PROVE Lasts(n + 1) = {}
  BY <1>1
<1>2. ASSUME p[n + 1] # Clear, p[n + 1].do # "print" PROVE Lasts(n + 1) = Lasts(n)
  BY <1>2
<1>3. ASSUME p[n + 1].do = "print" PROVE Lasts(n + 1) = Lasts(n) \cup {n + 1}
  <2>1. p[n].do = "at"
    BY <1>3 DEF IsPage, Ends, WellMade
  <2>2. p[n + 1] # Clear
    BY <1>3 DEF Clear
  <2> QED BY <1>3, <2>1, <2>2
<1> HIDE DEF Lasts
<1>4. Entry(n + 1) = [text |-> p[n + 1].text, row |-> p[n].row, size |-> p[n].size]
  OBVIOUS
<1> HIDE DEF Entry
<1>5. p[n + 1] = Clear => Drawn(p, n + 1) = {}
  BY <1>0, <1>1
<1>6. p[n + 1] # Clear /\ p[n + 1].do # "print" => Drawn(p, n + 1) = Drawn(p, n)
  BY <1>0, <1>2, Zenon
<1>7. p[n + 1].do = "print" => Drawn(p, n + 1) = Drawn(p, n) \cup {Entry(n + 1)}
  BY <1>0, <1>3
<1> QED BY <1>4, <1>5, <1>6, <1>7, Zenon

LEMMA DrawnFirst == ASSUME NEW p PROVE Drawn(p, 1) = {}
BY DEF Drawn

\* What one call makes of the display.
LEMMA Draws ==
    ASSUME NEW c, NEW s, NEW b, NEW call, Known(call),
           NEW d, d = Draw([cursor |-> c, size |-> s, buffer |-> b], call)
    PROVE  /\ call = Clear => d.buffer = {}
           /\ call.do = "at" => d.buffer = b /\ d.cursor = call.row /\ d.size = call.size
           /\ call.do = "print" => d.buffer = b \cup {[text |-> call.text, row |-> c, size |-> s]}
           /\ call = Show => d.buffer = b
<1>1. ASSUME call = Clear PROVE d.buffer = {}
  BY <1>1 DEF Draw, Clear
<1>2. ASSUME call.do = "at" PROVE d.buffer = b /\ d.cursor = call.row /\ d.size = call.size
  BY <1>2 DEF Draw
<1>3. ASSUME call.do = "print" PROVE d.buffer = b \cup {[text |-> call.text, row |-> c, size |-> s]}
  BY <1>3 DEF Draw
<1>4. ASSUME call = Show PROVE d.buffer = b
  BY <1>4 DEF Draw, Show
<1> QED BY <1>1, <1>2, <1>3, <1>4

\* A page drawn on is drawn as it is meant, whatever is in the display at first.
LEMMA DrawsFirst ==
    ASSUME NEW p, IsPage(p), NEW c, NEW s, NEW b,
           NEW d, d = Draw([cursor |-> c, size |-> s, buffer |-> b], p[1])
    PROVE  d.buffer = Drawn(p, 1) /\ p[1].do # "at"
<1>1. p[1] = Clear
  BY DEF IsPage, Starts
<1>2. d.buffer = {}
  BY <1>1, Draws DEF Known
<1> QED BY <1>1, <1>2, DrawnFirst DEF Clear

LEMMA DrawsNext ==
    ASSUME NEW p, IsPage(p), NEW n \in Nat, n > 1, n <= Len(p), NEW c, NEW s, NEW b,
           b = Drawn(p, n - 1), p[n - 1].do = "at" => c = p[n - 1].row /\ s = p[n - 1].size,
           NEW d, d = Draw([cursor |-> c, size |-> s, buffer |-> b], p[n])
    PROVE  /\ d.buffer = Drawn(p, n)
           /\ p[n].do = "at" => d.cursor = p[n].row /\ d.size = p[n].size
           /\ p[n] = Show => d.buffer = b
<1>1. n \in 1 .. Len(p)
  OBVIOUS
<1>2. Known(p[n]) /\ (p[n].do = "print" => p[n - 1].do = "at")
  BY <1>1, Zenon DEF IsPage, Ends, WellMade
<1>0. PICK call : call = p[n] /\ d = Draw([cursor |-> c, size |-> s, buffer |-> b], call)
  OBVIOUS
<1>3. /\ p[n] = Clear => d.buffer = {}
      /\ p[n].do = "at" => d.buffer = b /\ d.cursor = p[n].row /\ d.size = p[n].size
      /\ p[n].do = "print" => d.buffer = b \cup {[text |-> p[n].text, row |-> c, size |-> s]}
      /\ p[n] = Show => d.buffer = b
  <2>1. Known(call)
    BY <1>0, <1>2, Zenon
  <2>2. /\ call = Clear => d.buffer = {}
        /\ call.do = "at" => d.buffer = b /\ d.cursor = call.row /\ d.size = call.size
        /\ call.do = "print" => d.buffer = b \cup {[text |-> call.text, row |-> c, size |-> s]}
        /\ call = Show => d.buffer = b
    BY <1>0, <2>1, Draws
  <2> QED BY <1>0, <2>2
<1>4. PICK m \in Nat : m >= 1 /\ m + 1 = n /\ m = n - 1 /\ m + 1 \in 1 .. Len(p)
  BY <1>1
<1>5. /\ p[m + 1] = Clear => Drawn(p, m + 1) = {}
      /\ p[m + 1] # Clear /\ p[m + 1].do # "print" => Drawn(p, m + 1) = Drawn(p, m)
      /\ p[m + 1].do = "print" =>
            Drawn(p, m + 1) = Drawn(p, m) \cup
               {[text |-> p[m + 1].text, row |-> p[m].row, size |-> p[m].size]}
  BY <1>4, DrawnNext
<1>6. /\ p[n] = Clear => Drawn(p, n) = {}
      /\ p[n] # Clear /\ p[n].do # "print" => Drawn(p, n) = b
      /\ p[n].do = "print" =>
            Drawn(p, n) = b \cup {[text |-> p[n].text, row |-> p[n - 1].row, size |-> p[n - 1].size]}
  BY <1>4, <1>5, Zenon
<1>7. CASE p[n] = Clear
  <2>1. p[n].do # "at" /\ p[n] # Show
    BY <1>7 DEF Clear, Show
  <2> QED BY <1>3, <1>6, <1>7, <2>1, Zenon
<1>8. CASE p[n] = Show
  <2>1. p[n].do = "display" /\ p[n] # Clear
    BY <1>8 DEF Clear, Show
  <2>2. p[n].do # "at" /\ p[n].do # "print"
    BY <2>1
  <2> QED BY <1>3, <1>6, <1>8, <2>1, <2>2, Zenon
<1>9. CASE p[n].do = "at"
  <2>1. p[n] # Clear /\ p[n].do # "print"
    BY <1>9 DEF Clear
  <2> QED BY <1>3, <1>6, <1>9, <2>1, Zenon
<1>10. CASE p[n].do = "print"
  <2>1. p[n].do # "at" /\ p[n] # Show
    BY <1>10 DEF Show
  <2> QED BY <1>2, <1>3, <1>6, <1>10, <2>1, Zenon
<1> QED BY <1>2, <1>7, <1>8, <1>9, <1>10 DEF Known

-----------------------------------------------------------------------------
(* The inductive invariant.                                                *)

\* The buffer holds what p is to have drawn by call n, and cursor and size are
\* where that call has set them.
Upto(p, n) ==
    /\ buffer = Drawn(p, n)
    /\ p[n].do = "at" => cursor = p[n].row /\ size = p[n].size

Typed ==
    /\ current_display_mode \in DisplayModes
    /\ DOMAIN page = Task /\ DOMAIN at = Task /\ DOMAIN alone = Task
    /\ \A t \in Task : (page[t] = NoPage \/ IsPage(page[t])) /\ at[t] \in Nat \ {0}

\* A page in whose course the other task made no call.
AloneDrawn ==
    \A t \in Task : alone[t] /\ Busy(t) /\ at[t] > 1 => Upto(page[t], at[t] - 1)

DInv == Typed /\ AloneDrawn /\ CleanUnlessOverlapped

LEMMA InitDInv == Init => DInv
<1> SUFFICES ASSUME Init PROVE DInv
  OBVIOUS
<1>1. Typed
  BY DEF Init, Typed, DisplayModes
<1>2. AloneDrawn
  BY DEF Init, AloneDrawn, Task
<1>3. CleanUnlessOverlapped
  BY DEF Init, CleanUnlessOverlapped
<1> QED BY <1>1, <1>2, <1>3 DEF DInv

\* A page that begins: nothing of it is drawn yet, and the other's goes on.
LEMMA BeginDInv ==
    ASSUME DInv, NEW t \in Task, NEW p, IsPage(p), Begin(t, p), current_display_mode' \in DisplayModes
    PROVE  DInv'
<1>1. /\ page' = [page EXCEPT ![t] = p] /\ at' = [at EXCEPT ![t] = 1]
      /\ alone' = [alone EXCEPT ![t] = TRUE]
      /\ UNCHANGED <<cursor, size, buffer, screen, shown, clean>>
  BY DEF Begin, object
<1>2. DOMAIN page = Task /\ DOMAIN at = Task /\ DOMAIN alone = Task
  BY DEF DInv, Typed
<1>3. /\ DOMAIN page' = Task /\ DOMAIN at' = Task /\ DOMAIN alone' = Task
      /\ page'[t] = p /\ at'[t] = 1
      /\ \A u \in Task : u # t => page'[u] = page[u] /\ at'[u] = at[u] /\ alone'[u] = alone[u]
  BY <1>1, <1>2
<1>4. Typed'
  <2>1. \A u \in Task : (page'[u] = NoPage \/ IsPage(page'[u])) /\ at'[u] \in Nat \ {0}
    BY <1>3 DEF DInv, Typed
  <2> QED BY <1>3, <2>1, Zenon DEF Typed
<1>5. AloneDrawn'
  <2>1. ASSUME NEW u \in Task, alone'[u], Busy(u)', at'[u] > 1
        PROVE  Upto(page[u], at[u] - 1)'
    <3>1. u # t
      BY <1>3, <2>1
    <3>2. page'[u] = page[u] /\ at'[u] = at[u] /\ alone'[u] = alone[u]
      BY <1>3, <3>1, Zenon
    <3>3. Upto(page[u], at[u] - 1)
      BY <2>1, <3>2, Zenon DEF DInv, AloneDrawn, Busy
    <3> QED BY <1>1, <3>2, <3>3, Zenon DEF Upto
  <2> QED BY <2>1, Zenon DEF AloneDrawn, Busy
<1>6. CleanUnlessOverlapped'
  BY <1>1, Zenon DEF DInv, CleanUnlessOverlapped
<1> QED BY <1>4, <1>5, <1>6 DEF DInv

\* The next call of a page.
LEMMA CallDInv == ASSUME DInv, NEW t \in Task, Call(t) PROVE DInv'
<1>1. PICK p, n, a : p = page[t] /\ n = at[t] /\ a = alone[t]
  OBVIOUS
<1>2. n \in Nat /\ n >= 1 /\ n <= Len(p) /\ IsPage(p)
  <2>1. n \in Nat \ {0} /\ (p = NoPage \/ IsPage(p)) /\ n <= Len(p)
    BY <1>1, Zenon DEF DInv, Typed, Call, Busy
  <2> QED BY <2>1 DEF NoPage
<1>3. PICK d : /\ d = Draw([cursor |-> cursor, size |-> size, buffer |-> buffer], p[n])
               /\ cursor' = d.cursor /\ size' = d.size /\ buffer' = d.buffer
               /\ IF p[n] = Show THEN screen' = buffer /\ shown' = p /\ clean' = a
                  ELSE UNCHANGED <<screen, shown, clean>>
  BY <1>1, Zenon DEF Call
<1>4. /\ page' = page /\ at' = [at EXCEPT ![t] = at[t] + 1]
      /\ alone' = [u \in Task |-> alone[u] /\ u = t]
      /\ current_display_mode' = current_display_mode
  BY DEF Call
<1>5. /\ DOMAIN at' = Task /\ at'[t] = n + 1
      /\ \A u \in Task : u # t => at'[u] = at[u]
  BY <1>1, <1>4, Updated, Zenon DEF DInv, Typed
<1>6. DOMAIN alone' = Task /\ \A u \in Task : alone'[u] = (alone[u] /\ u = t)
  BY <1>4, Zenon
<1>7. Typed'
  <2>1. n + 1 \in Nat \ {0}
    BY <1>2
  <2>2. \A u \in Task : (page'[u] = NoPage \/ IsPage(page'[u])) /\ at'[u] \in Nat \ {0}
    BY <1>4, <1>5, <2>1, Zenon DEF DInv, Typed
  <2> QED BY <1>4, <1>5, <1>6, <2>2, Zenon DEF DInv, Typed
<1>8. CASE n = 1
  <2>1. p[n] = Clear /\ p[n] # Show
    BY <1>2, <1>8 DEF IsPage, Starts, Clear, Show
  <2>2. buffer' = Drawn(p, n) /\ p[n].do # "at"
    BY <1>2, <1>3, <1>8, DrawsFirst, Zenon
  <2>3. AloneDrawn'
    <3>1. ASSUME NEW u \in Task, alone'[u], Busy(u)', at'[u] > 1 PROVE Upto(page[u], at[u] - 1)'
      <4>1. u = t
        BY <1>6, <3>1, Zenon
      <4>2. page'[u] = p /\ at'[u] - 1 = n
        BY <1>1, <1>2, <1>4, <1>5, <4>1
      <4> QED BY <2>2, <4>2, Zenon DEF Upto
    <3> QED BY <3>1, Zenon DEF AloneDrawn, Busy
  <2>4. CleanUnlessOverlapped'
    BY <1>3, <2>1, Zenon DEF DInv, CleanUnlessOverlapped
  <2> QED BY <1>7, <2>3, <2>4 DEF DInv
<1>9. CASE n > 1
  <2>1. ASSUME a
        PROVE  /\ buffer' = Drawn(p, n) /\ (p[n] = Show => buffer' = buffer)
               /\ p[n].do = "at" => cursor' = p[n].row /\ size' = p[n].size
    <3>1. Upto(p, n - 1)
      BY <1>1, <1>2, <1>9, <2>1, Zenon DEF DInv, AloneDrawn, Busy
    <3>2. /\ buffer = Drawn(p, n - 1)
          /\ p[n - 1].do = "at" => cursor = p[n - 1].row /\ size = p[n - 1].size
      BY <3>1, Zenon DEF Upto
    <3>3. PICK c, s, b : c = cursor /\ s = size /\ b = buffer
      OBVIOUS
    <3>4. /\ d = Draw([cursor |-> c, size |-> s, buffer |-> b], p[n]) /\ b = Drawn(p, n - 1)
          /\ p[n - 1].do = "at" => c = p[n - 1].row /\ s = p[n - 1].size
      BY <1>3, <3>2, <3>3, Zenon
    <3>5. /\ d.buffer = Drawn(p, n)
          /\ p[n].do = "at" => d.cursor = p[n].row /\ d.size = p[n].size
          /\ p[n] = Show => d.buffer = b
      BY <1>2, <1>9, <3>4, DrawsNext
    <3> QED BY <1>3, <3>3, <3>5, Zenon
  <2>2. AloneDrawn'
    <3>1. ASSUME NEW u \in Task, alone'[u], Busy(u)', at'[u] > 1 PROVE Upto(page[u], at[u] - 1)'
      <4>1. u = t /\ a
        BY <1>1, <1>6, <3>1, Zenon
      <4>2. page'[u] = p /\ at'[u] - 1 = n
        BY <1>1, <1>2, <1>4, <1>5, <4>1
      <4> QED BY <2>1, <4>1, <4>2, Zenon DEF Upto
    <3> QED BY <3>1, Zenon DEF AloneDrawn, Busy
  <2>3. CleanUnlessOverlapped'
    <3>1. CASE p[n] = Show
      <4>1. n = Len(p)
        BY <1>2, <3>1 DEF IsPage, Ends
      <4>2. a => screen' = Picture(p)
        BY <1>3, <2>1, <3>1, <4>1, Zenon DEF Picture
      <4> QED BY <1>3, <3>1, <4>2, Zenon DEF CleanUnlessOverlapped
    <3>2. CASE p[n] # Show
      BY <1>3, <3>2, Zenon DEF DInv, CleanUnlessOverlapped
    <3> QED BY <3>1, <3>2
  <2> QED BY <1>7, <2>2, <2>3 DEF DInv
<1> QED BY <1>2, <1>8, <1>9

LEMMA NextDInv == DInv /\ [Next]_vars => DInv'
<1> SUFFICES ASSUME DInv, [Next]_vars PROVE DInv'
  OBVIOUS
<1>1. CASE NextPage
  <2>1. current_display_mode' \in DisplayModes
    <3>1. current_display_mode \in DisplayModes
      BY DEF DInv, Typed
    <3>2. current_display_mode' = IF current_display_mode < 3 THEN current_display_mode + 1 ELSE 0
      BY <1>1 DEF NextPage
    <3> QED BY <3>1, <3>2 DEF DisplayModes
  <2>2. PICK p \in PagesOf(current_display_mode') : Begin("display", p)
    BY <1>1, Zenon DEF NextPage
  <2>3. IsPage(p) /\ "display" \in Task
    BY <2>1, <2>2, PagesArePages, Zenon DEF Task
  <2> QED BY <2>1, <2>2, <2>3, BeginDInv, Zenon
<1>2. CASE MenuPage
  <2>1. PICK item : Begin("menu", menuPage(item))
    BY <1>2, Zenon DEF MenuPage
  <2>2. IsPage(menuPage(item)) /\ "menu" \in Task
    BY PagesArePages, Zenon DEF Task
  <2>3. current_display_mode' \in DisplayModes
    BY <1>2, Zenon DEF MenuPage, DInv, Typed
  <2> QED BY <2>1, <2>2, <2>3, BeginDInv, Zenon
<1>3. ASSUME NEW t \in Task, Call(t) PROVE DInv'
  BY <1>3, CallDInv
<1>4. CASE UNCHANGED vars
  <2>1. /\ UNCHANGED <<current_display_mode, page, at, alone, shown, clean>>
        /\ UNCHANGED <<cursor, size, buffer, screen>>
    BY <1>4 DEF vars, object
  <2> QED BY <2>1, Zenon DEF DInv, Typed, AloneDrawn, Upto, Busy, CleanUnlessOverlapped
<1> QED BY <1>1, <1>2, <1>3, <1>4, Zenon DEF Next

\* Whatever the other task leaves in the one display object (write3Line() and
\* the other write functions clear and set all they use), a page that it did
\* not draw into is shown as it was meant.
THEOREM CleanPages == Spec => []CleanUnlessOverlapped
<1>1. DInv => CleanUnlessOverlapped
  BY DEF DInv
<1> QED BY <1>1, InitDInv, NextDInv, PTL DEF Spec
=============================================================================
