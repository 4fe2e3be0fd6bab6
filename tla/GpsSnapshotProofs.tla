------------------------- MODULE GpsSnapshotProofs -------------------------
(***************************************************************************)
(* The page of sendGPSDataJson() hangs together, for every choice and      *)
(* order of words and any number of sentences.                             *)
(*                                                                         *)
(* What makes it so is that the copying never begins anew before it has    *)
(* come to its end: a word of cfg is as the last sentence or the one       *)
(* before left it, never older, so whoever has read a word of sentence n   *)
(* finds in the words after it nothing older than sentence n - 1.          *)
(***************************************************************************)
EXTENDS GpsSnapshot, SequenceTheorems, TLAPS

Position == DOMAIN Words

\* What the parser had after sentence n, or before the first.
Had(n) == IF n = 0 THEN [w \in Word |-> 0] ELSE heard[n]

\* The sentence as of which cfg holds the ith word.
Version(i) == IF hook = 0 \/ i < hook THEN Len(heard) ELSE Len(heard) - 1

\* A word keeps what it has until a later sentence measures it.
Grows ==
    \A m, n \in 0 .. Len(heard) : m <= n => \A w \in Word : Had(m)[w] <= Had(n)[w]

\* What has a value may be copied.
Measured == \A w \in Word : gps[w] > 0 => IsValid(w)

\* What cfg holds of a word of which the parser has had.
Holds(c, had) == IF had > 0 THEN c = had ELSE c <= 0

\* The copying has come to the word at the hook.
Copied == \A i \in Position : Holds(cfg[Words[i]], Had(Version(i))[Words[i]])

\* What is on the page of a word and of one after it.
PageOrdered ==
    \A i, j \in Position :
        i < j /\ j < push /\ page[Words[i]] > 1 =>
            LET before == heard[page[Words[i]] - 1][Words[j]] IN
            before > 0 => page[Words[j]] >= before

\* A page in whose course nothing was updated.
PageCalm ==
    calm => /\ hook = 0
            /\ \A i \in Position : i < push /\ gps[Words[i]] > 0 => page[Words[i]] = gps[Words[i]]

GInv ==
    /\ TypeOK /\ gps = Had(Len(heard)) /\ (hook > 0 => heard # <<>>)
    /\ Grows /\ Measured /\ Copied /\ PageOrdered /\ PageCalm

-----------------------------------------------------------------------------
(* The words, and what a sentence brings.                                  *)

LEMMA WordsFacts ==
    /\ Len(Words) \in Nat /\ Position = 1 .. Len(Words) /\ Len(Words) > 0
    /\ \A i \in Position : Words[i] \in Word
    /\ \A w \in Word : \E i \in Position : w = Words[i]
    /\ \A i, j \in Position : Words[i] = Words[j] => i = j
    /\ MaxSentences \in Nat
<1> DEFINE S == { AllWords[i] : i \in DOMAIN AllWords }
<1>1. Words \in Seq(S) /\ Words # <<>> /\ MaxSentences \in Nat
      /\ \A i, j \in Position : Words[i] = Words[j] => i = j
  BY WordsAssumption, Zenon DEF Position
<1> HIDE DEF S
<1>2. Len(Words) \in Nat /\ Position = 1 .. Len(Words)
  BY <1>1, LenProperties DEF Position
<1>3. Len(Words) > 0
  BY <1>1, EmptySeq, <1>2
<1>4. /\ \A i \in Position : Words[i] \in Word
      /\ \A w \in Word : \E i \in Position : w = Words[i]
  BY Zenon DEF Position, Word
<1> QED
  BY <1>1, <1>2, <1>3, <1>4, Zenon

\* A sentence that brings an altitude brings the position with it.
WithPosition(groups) ==
    \A w \in UNION groups : w \in AltitudeWords => LocationWords \in groups

LEMMA SentenceFacts ==
    ASSUME NEW fix \in BOOLEAN, NEW groups, groups = RMC(fix) \/ groups = GGA(fix)
    PROVE  WithPosition(groups) /\ groups \subseteq RMC(TRUE) \cup GGA(TRUE)
<1>1. CASE groups = RMC(fix)
  <2>1. \A w \in UNION groups : w \notin AltitudeWords
    BY <1>1 DEF RMC, TimeWords, DateWords, LocationWords, CourseWords, SpeedWords, AltitudeWords
  <2>2. groups \subseteq RMC(TRUE)
    BY <1>1, Zenon DEF RMC
  <2> QED
    BY <2>1, <2>2, Zenon DEF WithPosition
<1>2. CASE groups = GGA(fix)
  <2>1. fix => LocationWords \in groups
    BY <1>2, Zenon DEF GGA
  <2>2. ~fix => \A w \in UNION groups : w \notin AltitudeWords
    BY <1>2 DEF GGA, TimeWords, HdopWords, AltitudeWords
  <2>3. groups \subseteq GGA(TRUE)
    BY <1>2, Zenon DEF GGA
  <2> QED
    BY <2>1, <2>2, <2>3, Zenon DEF WithPosition
<1> QED
  BY <1>1, <1>2

\* What was valid stays so, and what the sentence brings becomes so.
LEMMA StaysValid ==
    ASSUME NEW groups, WithPosition(groups), measured' = measured \cup groups, NEW w
    PROVE  IsValid(w) \/ w \in UNION groups => IsValid(w)'
<1>1. CASE w \in AltitudeWords
  BY <1>1, Zenon DEF IsValid, WithPosition
<1>2. CASE w \notin AltitudeWords
  BY <1>2, Zenon DEF IsValid
<1> QED
  BY <1>1, <1>2

-----------------------------------------------------------------------------
(* The invariant holds initially and is preserved by every step.           *)

LEMMA InitGInv == Init => GInv
<1> SUFFICES ASSUME Init PROVE GInv
  OBVIOUS
<1> USE WordsFacts
<1>1. /\ gps = [w \in Word |-> 0] /\ measured = {}
      /\ cfg = [w \in Word |-> -1] /\ page = [w \in Word |-> -1]
      /\ hook = 0 /\ push = 0 /\ heard = <<>>
      /\ isValidGPS \in BOOLEAN /\ calm \in BOOLEAN /\ ~calm
  BY Zenon DEF Init, Unmeasured
<1>2. Len(heard) = 0
  BY <1>1
<1>3. TypeOK
  <2>1. heard \in Seq([Word -> 0 .. Len(heard)])
    BY <1>1
  <2>2. /\ gps \in [Word -> 0 .. Len(heard)]
        /\ cfg \in [Word -> Unmeasured .. Len(heard)] /\ page \in [Word -> Unmeasured .. Len(heard)]
        /\ hook \in 0 .. Len(Words) /\ push \in 0 .. Len(Words) + 1
    BY <1>1, <1>2 DEF Unmeasured
  <2>3. measured \subseteq RMC(TRUE) \cup GGA(TRUE)
    BY <1>1, Zenon
  <2>4. isValidGPS \in BOOLEAN /\ calm \in BOOLEAN
    BY <1>1
  <2> QED
    BY <2>1, <2>2, <2>3, <2>4, Zenon DEF TypeOK
<1>4. gps = Had(Len(heard)) /\ ~(hook > 0)
  BY <1>1, <1>2 DEF Had
<1>5. Grows
  BY <1>2 DEF Grows, Had
<1>6. Measured
  BY <1>1 DEF Measured
<1>7. Copied
  <2>1. \A i \in Position : Version(i) = 0
    BY <1>1, <1>2, Zenon DEF Version
  <2>2. \A w \in Word : Had(0)[w] = 0 /\ cfg[w] = -1
    BY <1>1 DEF Had
  <2>3. Holds(-1, 0)
    BY DEF Holds
  <2>4. ASSUME NEW i \in Position PROVE Holds(cfg[Words[i]], Had(Version(i))[Words[i]])
    <3>1. Words[i] \in Word
      BY WordsFacts, Zenon
    <3>2. Had(Version(i))[Words[i]] = 0 /\ cfg[Words[i]] = -1
      BY <3>1, <2>1, <2>2, Zenon
    <3> QED
      BY <3>2, <2>3, Zenon
  <2> QED
    BY <2>4, Zenon DEF Copied
<1>8. PageOrdered
  BY <1>1 DEF PageOrdered
<1>9. PageCalm
  BY <1>1, Zenon DEF PageCalm
<1> QED
  BY <1>3, <1>4, <1>5, <1>6, <1>7, <1>8, <1>9, Zenon DEF GInv

\* What TypeOK says without the Booleans.
LEMMA Types ==
    ASSUME TypeOK
    PROVE  /\ gps \in [Word -> 0 .. Len(heard)]
           /\ cfg \in [Word -> Unmeasured .. Len(heard)]
           /\ page \in [Word -> Unmeasured .. Len(heard)]
           /\ hook \in 0 .. Len(Words) /\ push \in 0 .. Len(Words) + 1
           /\ Len(heard) \in Nat /\ heard \in Seq([Word -> 0 .. Len(heard)])
           /\ \A n \in 0 .. Len(heard) : Had(n) \in [Word -> 0 .. Len(heard)]
           /\ \A n \in 1 .. Len(heard) : Had(n) = heard[n]
<1>1. /\ gps \in [Word -> 0 .. Len(heard)]
      /\ cfg \in [Word -> Unmeasured .. Len(heard)]
      /\ page \in [Word -> Unmeasured .. Len(heard)]
      /\ hook \in 0 .. Len(Words) /\ push \in 0 .. Len(Words) + 1
      /\ heard \in Seq([Word -> 0 .. Len(heard)])
  BY Zenon DEF TypeOK
<1> DEFINE F == [Word -> 0 .. Len(heard)]
<1>2. heard \in Seq(F)
  BY <1>1, Zenon
<1>3. ASSUME NEW n \in 1 .. Len(heard) PROVE Had(n) = heard[n]
  <2> n # 0
    OBVIOUS
  <2> QED
    BY Zenon DEF Had
<1> HIDE DEF F
<1>4. Len(heard) \in Nat /\ \A n \in 1 .. Len(heard) : heard[n] \in F
  BY <1>2, ElementOfSeq, LenProperties
<1>5. Had(0) \in F
  BY <1>4 DEF Had, F
<1>6. \A n \in 0 .. Len(heard) : n = 0 \/ n \in 1 .. Len(heard)
  BY <1>4
<1> QED
  BY <1>1, <1>3, <1>4, <1>5, <1>6, Zenon DEF F

LEMMA SeqMono == ASSUME NEW S, NEW T, S \subseteq T, NEW s \in Seq(S) PROVE s \in Seq(T)
<1>1. Len(s) \in Nat /\ s \in [1 .. Len(s) -> S]
  BY LenProperties
<1>2. s \in [1 .. Len(s) -> T]
  BY <1>1
<1> QED
  BY <1>1, <1>2, SeqDef

LEMMA EncodeStep ==
    ASSUME GInv, NEW fix \in BOOLEAN,
           NEW groups, groups = RMC(fix) \/ groups = GGA(fix), encode(groups)
    PROVE  GInv'
<1> DEFINE F(n) == [Word -> 0 .. n]
<1>0. PICK N : N = Len(heard)
  BY Zenon
<1>1. /\ TypeOK /\ gps = Had(Len(heard)) /\ Grows /\ Measured /\ Copied /\ PageOrdered
  BY Zenon DEF GInv
<1>2. /\ hook = 0 /\ N < MaxSentences
      /\ gps' = [w \in Word |-> IF w \in UNION groups THEN N + 1 ELSE gps[w]]
      /\ measured' = measured \cup groups
      /\ heard' = Append(heard, gps')
      /\ hook' = 1 /\ calm' = FALSE
      /\ cfg' = cfg /\ push' = push /\ page' = page /\ isValidGPS' = isValidGPS
  BY <1>0, Zenon DEF encode
<1>3. N \in Nat /\ gps \in F(N) /\ heard \in Seq(F(N))
  BY <1>0, <1>1, Types
<1>4. /\ gps' \in F(N + 1)
      /\ \A w \in Word : gps'[w] >= gps[w] /\ (w \in UNION groups \/ gps'[w] = gps[w])
  BY <1>2, <1>3
<1>5. heard \in Seq(F(N + 1))
  <2>1. F(N) \subseteq F(N + 1)
    BY <1>3
  <2> QED
    BY <1>3, <2>1, SeqMono, Zenon
<1>6. /\ heard' \in Seq(F(N + 1)) /\ Len(heard') = N + 1 /\ heard'[N + 1] = gps'
      /\ \A n \in 1 .. N : heard'[n] = heard[n]
  <2> HIDE DEF F
  <2>1. /\ heard' \in Seq(F(N + 1)) /\ Len(heard') = Len(heard) + 1
        /\ heard'[Len(heard) + 1] = gps'
        /\ \A n \in 1 .. Len(heard) : heard'[n] = heard[n]
    BY <1>2, <1>4, <1>5, AppendProperties
  <2> QED
    BY <2>1, <1>0, Zenon
<1>7. (\A n \in 0 .. N : Had(n)' = Had(n)) /\ Had(N + 1)' = gps'
  <2>1. Had(0)' = Had(0)
    BY Zenon DEF Had
  <2>2. ASSUME NEW n \in 1 .. N PROVE Had(n)' = Had(n)
    <3>1. n # 0
      BY <2>2
    <3> QED
      BY <3>1, <1>6, Zenon DEF Had
  <2>3. N + 1 # 0 /\ \A n \in 0 .. N : n = 0 \/ n \in 1 .. N
    BY <1>3
  <2>4. Had(N + 1)' = gps'
    BY <2>3, <1>6, Zenon DEF Had
  <2> QED
    BY <2>1, <2>2, <2>3, <2>4, Zenon
<1>8. TypeOK'
  <2>1. gps' \in [Word -> 0 .. Len(heard')] /\ heard' \in Seq([Word -> 0 .. Len(heard')])
    BY <1>4, <1>6, Zenon
  <2>2. /\ cfg' \in [Word -> Unmeasured .. Len(heard')]
        /\ page' \in [Word -> Unmeasured .. Len(heard')]
    <3>1. cfg \in [Word -> Unmeasured .. N] /\ page \in [Word -> Unmeasured .. N]
      BY <1>0, <1>1, Types
    <3>2. cfg \in [Word -> Unmeasured .. N + 1] /\ page \in [Word -> Unmeasured .. N + 1]
      BY <1>3, <3>1 DEF Unmeasured
    <3> QED
      BY <3>2, <1>2, <1>6, Zenon
  <2>3. hook' \in 0 .. Len(Words) /\ push' \in 0 .. Len(Words) + 1
    BY <1>1, <1>2, Types, WordsFacts
  <2>4. measured' \subseteq RMC(TRUE) \cup GGA(TRUE)
    BY <1>1, <1>2, SentenceFacts, Zenon DEF TypeOK
  <2>5. isValidGPS' \in BOOLEAN /\ calm' \in BOOLEAN
    BY <1>1, <1>2, Zenon DEF TypeOK
  <2> QED
    BY <2>1, <2>2, <2>3, <2>4, <2>5, Zenon DEF TypeOK
<1>9. gps' = Had(N + 1)' /\ heard' # <<>>
  BY <1>3, <1>6, <1>7
<1>10. Grows'
  <2>1. ASSUME NEW m \in 0 .. N + 1, NEW n \in 0 .. N + 1, m <= n, NEW w \in Word
        PROVE  Had(m)'[w] <= Had(n)'[w]
    <3>1. \A k \in 0 .. N : Had(k) \in F(N)
      BY <1>0, <1>1, Types
    <3>2. CASE n <= N
      <4>1. m \in 0 .. N /\ n \in 0 .. N
        BY <1>3, <3>2, <2>1
      <4>2. Had(m)[w] <= Had(n)[w]
        BY <4>1, <2>1, <1>1, <1>0, Zenon DEF Grows
      <4> QED
        BY <4>1, <4>2, <1>7, Zenon
    <3>3. CASE n = N + 1 /\ m <= N
      <4>1. m \in 0 .. N /\ N \in 0 .. N
        BY <1>3, <3>3, <2>1
      <4>2. Had(m)[w] <= gps[w]
        BY <4>1, <3>3, <1>1, <1>0, Zenon DEF Grows
      <4>3. Had(m)[w] \in 0 .. N /\ gps[w] \in 0 .. N /\ gps'[w] \in 0 .. N + 1 /\ gps'[w] >= gps[w]
        BY <3>1, <4>1, <1>3, <1>4
      <4>4. Had(m)[w] <= gps'[w]
        BY <4>2, <4>3, <1>3
      <4> QED
        BY <4>1, <4>4, <3>3, <1>7, Zenon
    <3>4. CASE n = N + 1 /\ m = N + 1
      <4>1. gps'[w] <= gps'[w]
        BY <1>3, <1>4
      <4> QED
        BY <4>1, <3>4, <1>7, Zenon
    <3> QED
      BY <1>3, <2>1, <3>2, <3>3, <3>4
  <2> QED
    BY <2>1, <1>6, Zenon DEF Grows
<1>11. Measured'
  <2>1. \A w \in Word : gps'[w] > 0 => w \in UNION groups \/ gps[w] > 0
    BY <1>4
  <2>2. \A w \in Word : gps[w] > 0 => IsValid(w)
    BY <1>1 DEF Measured
  <2>3. \A w \in Word : gps'[w] > 0 => IsValid(w)'
    BY <2>1, <2>2, <1>2, SentenceFacts, StaysValid, Zenon
  <2> QED
    BY <2>3, Zenon DEF Measured
<1>12. Copied'
  <2>1. \A i \in Position : Version(i) = N
    BY <1>0, <1>2, Zenon DEF Version
  <2>2. \A i \in Position : Version(i)' = N
    <3>1. \A i \in Position : ~(hook' = 0 \/ i < hook')
      BY <1>2, WordsFacts
    <3>2. Len(heard') - 1 = N
      BY <1>3, <1>6
    <3> QED
      BY <3>1, <3>2, Zenon DEF Version
  <2>3. Had(N)' = Had(N)
    BY <1>3, <1>7
  <2> QED
    BY <1>1, <1>2, <2>1, <2>2, <2>3, Zenon DEF Copied
<1>13. PageOrdered'
  <2>1. \A i \in Position : page[Words[i]] > 1 => page[Words[i]] - 1 \in 1 .. N
    <3>1. page \in [Word -> -1 .. N] /\ \A i \in Position : Words[i] \in Word
      BY <1>0, <1>1, Types, WordsFacts, Zenon DEF Unmeasured
    <3>2. \A i \in Position : page[Words[i]] \in -1 .. N
      BY <3>1, Zenon
    <3> QED
      BY <3>2, <1>3
  <2>2. \A i \in Position : page[Words[i]] > 1 =>
            heard'[page[Words[i]] - 1] = heard[page[Words[i]] - 1]
    BY <1>6, <2>1, Zenon
  <2> QED
    BY <1>1, <1>2, <2>2, Zenon DEF PageOrdered
<1>14. PageCalm'
  BY <1>2, Zenon DEF PageCalm
<1> QED
  <2>1. gps' = Had(Len(heard))'
    BY <1>6, <1>9, Zenon
  <2> QED
    BY <2>1, <1>8, <1>9, <1>10, <1>11, <1>12, <1>13, <1>14, Zenon DEF GInv

LEMMA CopyStep == ASSUME GInv, setGPSData PROVE GInv'
<1> DEFINE w0 == Words[hook]
<1>0. PICK N : N = Len(heard)
  BY Zenon
<1>1. /\ TypeOK /\ gps = Had(Len(heard)) /\ (hook > 0 => heard # <<>>)
      /\ Grows /\ Measured /\ Copied /\ PageOrdered /\ PageCalm
  BY Zenon DEF GInv
<1>2. /\ hook > 0
      /\ cfg' = IF IsValid(w0) THEN [cfg EXCEPT ![w0] = gps[w0]] ELSE cfg
      /\ hook' = After(hook)
      /\ gps' = gps /\ measured' = measured /\ heard' = heard
      /\ push' = push /\ page' = page /\ isValidGPS' = isValidGPS /\ calm' = calm
  BY Zenon DEF setGPSData
<1>3. /\ N \in Nat /\ N > 0 /\ gps \in [Word -> 0 .. N]
      /\ cfg \in [Word -> -1 .. N] /\ page \in [Word -> -1 .. N]
      /\ hook \in 0 .. Len(Words) /\ push \in 0 .. Len(Words) + 1
  <2>1. heard \in Seq([Word -> 0 .. Len(heard)])
    BY <1>1, Types
  <2> DEFINE F == [Word -> 0 .. Len(heard)]
  <2>2. heard \in Seq(F) /\ heard # <<>>
    BY <2>1, <1>1, <1>2
  <2> HIDE DEF F
  <2>3. Len(heard) \in Nat /\ Len(heard) > 0
    BY <2>2, EmptySeq, LenProperties
  <2> QED
    BY <2>3, <1>0, <1>1, Types DEF Unmeasured
<1>4. hook \in Position /\ w0 \in Word
  BY <1>2, <1>3, WordsFacts
<1>5. \A w \in Word : w # w0 => cfg'[w] = cfg[w]
  <2>1. CASE IsValid(w0)
    BY <2>1, <1>2, <1>3, <1>4
  <2>2. CASE ~IsValid(w0)
    BY <2>2, <1>2, Zenon
  <2> QED
    BY <2>1, <2>2
<1>6. cfg'[w0] = IF IsValid(w0) THEN gps[w0] ELSE cfg[w0]
  <2>1. CASE IsValid(w0)
    BY <2>1, <1>2, <1>3, <1>4
  <2>2. CASE ~IsValid(w0)
    BY <2>2, <1>2, Zenon
  <2> QED
    BY <2>1, <2>2
<1>7. cfg' \in [Word -> -1 .. N]
  <2>1. gps[w0] \in -1 .. N
    BY <1>3, <1>4
  <2>2. CASE IsValid(w0)
    BY <2>1, <2>2, <1>2, <1>3, <1>4
  <2>3. CASE ~IsValid(w0)
    BY <2>3, <1>2, <1>3, Zenon
  <2> QED
    BY <2>2, <2>3
<1>8. TypeOK'
  <2>1. hook' \in 0 .. Len(Words)
    <3>1. After(hook) \in 0 .. Len(Words)
      BY <1>3, WordsFacts DEF After
    <3> QED
      BY <3>1, <1>2, Zenon
  <2>2. cfg' \in [Word -> Unmeasured .. Len(heard')]
    BY <1>0, <1>2, <1>7, Zenon DEF Unmeasured
  <2> QED
    BY <2>1, <2>2, <1>1, <1>2, Zenon DEF TypeOK
<1>9. \A n : Had(n)' = Had(n)
  BY <1>2, Zenon DEF Had
<1>10. Measured' /\ Grows' /\ gps' = Had(Len(heard))'
  <2>1. \A w : IsValid(w)' = IsValid(w)
    BY <1>2, Zenon DEF IsValid
  <2> QED
    BY <2>1, <1>1, <1>2, <1>9, Zenon DEF Measured, Grows
<1>11. PageOrdered' /\ PageCalm' /\ heard' # <<>>
  <2>1. PageOrdered'
    BY <1>1, <1>2, Zenon DEF PageOrdered
  <2>2. hook # 0
    BY <1>2, <1>3
  <2>3. PageCalm'
    BY <2>2, <1>1, <1>2, Zenon DEF PageCalm
  <2>4. heard' # <<>>
    BY <1>1, <1>2, Zenon
  <2> QED
    BY <2>1, <2>3, <2>4
<1>12. Copied'
  <2>1. ASSUME NEW i \in Position PROVE Holds(cfg'[Words[i]], Had(Version(i))'[Words[i]])
    <3>0. /\ Words[i] \in Word /\ (i # hook => Words[i] # w0)
          /\ Holds(cfg[Words[i]], Had(Version(i))[Words[i]])
      BY <1>1, <1>4, WordsFacts, Zenon DEF Copied
    <3>1. CASE i # hook
      <4>1. Version(i)' = Version(i)
        <5> DEFINE h == After(hook)
        <5>1. (h = 0 \/ i < h) <=> (hook = 0 \/ i < hook)
          BY <3>1, <1>2, <1>3, WordsFacts DEF After
        <5> HIDE DEF h
        <5> QED
          BY <5>1, <1>2, Zenon DEF Version, h
      <4>2. cfg'[Words[i]] = cfg[Words[i]]
        BY <3>0, <3>1, <1>5
      <4> QED
        BY <4>1, <4>2, <3>0, <1>9, Zenon
    <3>2. CASE i = hook
      <4>1. Version(i)' = N
        <5> DEFINE h == After(hook)
        <5>1. h = 0 \/ i < h
          BY <3>2, <1>2, <1>3, WordsFacts DEF After
        <5> HIDE DEF h
        <5> QED
          BY <5>1, <1>0, <1>2, Zenon DEF Version, h
      <4>2. Had(N)' = gps
        BY <1>0, <1>1, <1>9, Zenon
      <4>3. Holds(cfg'[w0], gps[w0])
        <5>1. CASE IsValid(w0)
          <6>1. gps[w0] \in 0 .. N
            BY <1>3, <1>4
          <6>2. Holds(gps[w0], gps[w0])
            BY <6>1 DEF Holds
          <6> QED
            BY <6>2, <5>1, <1>6, Zenon
        <5>2. CASE ~IsValid(w0)
          <6>1. ~(gps[w0] > 0)
            BY <5>2, <1>1, <1>4, Zenon DEF Measured
          <6>2. Version(i) = N - 1
            <7>1. ~(hook = 0 \/ i < hook)
              BY <3>2, <1>2, <1>3
            <7> QED
              BY <7>1, <1>0, Zenon DEF Version
          <6>3. N - 1 \in 0 .. N /\ N \in 0 .. N /\ N - 1 <= N
            BY <1>3
          <6>4. Had(N - 1)[w0] <= gps[w0]
            BY <6>3, <1>0, <1>1, <1>4, Zenon DEF Grows
          <6>5. Had(N - 1) \in [Word -> 0 .. N]
            BY <6>3, <1>0, <1>1, Types, Zenon
          <6>6. Had(N - 1)[w0] \in 0 .. N /\ gps[w0] \in 0 .. N /\ cfg[w0] \in -1 .. N
            BY <6>5, <1>3, <1>4
          <6> DEFINE old == Had(N - 1)[w0]
                     new == gps[w0]
                     c == cfg[w0]
          <6>7. Holds(c, old)
            BY <6>2, <3>0, <3>2, Zenon
          <6>8. old \in 0 .. N /\ new \in 0 .. N /\ c \in -1 .. N /\ old <= new /\ ~(new > 0)
            BY <6>1, <6>4, <6>6
          <6> HIDE DEF old, new, c
          <6>9. Holds(c, new)
            BY <6>7, <6>8, <1>3 DEF Holds
          <6> QED
            BY <6>9, <5>2, <1>6, Zenon DEF new, c
        <5> QED
          BY <5>1, <5>2
      <4> QED
        BY <4>1, <4>2, <4>3, <3>2, Zenon
    <3> QED
      BY <3>1, <3>2
  <2> QED
    BY <2>1, Zenon DEF Copied
<1> QED
  BY <1>8, <1>10, <1>11, <1>12, Zenon DEF GInv

\* What the pushing task does leaves the parser, the hook and cfg alone.
LEMMA PushKeeps ==
    ASSUME GInv, UNCHANGED <<gps, measured, cfg, hook, heard>>
    PROVE  /\ gps' = Had(Len(heard))' /\ (hook' > 0 => heard' # <<>>)
           /\ Grows' /\ Measured' /\ Copied'
<1>1. \A n : Had(n)' = Had(n)
  BY Zenon DEF Had
<1>2. \A i : Version(i)' = Version(i)
  BY Zenon DEF Version
<1>3. \A w : IsValid(w)' = IsValid(w)
  BY Zenon DEF IsValid
<1> QED
  BY <1>1, <1>2, <1>3, Zenon DEF GInv, Grows, Measured, Copied

LEMMA BeginStep == ASSUME GInv, Begin PROVE GInv'
<1>1. /\ gps' = gps /\ measured' = measured /\ cfg' = cfg /\ hook' = hook /\ heard' = heard
      /\ push' = 1 /\ page' = [w \in Word |-> Unmeasured]
      /\ isValidGPS' = (DateWords \in measured) /\ calm' = (hook = 0)
  BY Zenon DEF Begin
<1>2. TypeOK'
  <2>1. TypeOK
    BY Zenon DEF GInv
  <2>2. push' \in 0 .. Len(Words) + 1
    BY <1>1, WordsFacts
  <2>3. page' \in [Word -> Unmeasured .. Len(heard)]
    BY <2>1, <1>1, Types DEF Unmeasured
  <2>4. (DateWords \in measured) \in BOOLEAN /\ (hook = 0) \in BOOLEAN
    OBVIOUS
  <2>5. isValidGPS' \in BOOLEAN /\ calm' \in BOOLEAN
    BY <2>4, <1>1, Zenon
  <2> QED
    BY <2>1, <2>2, <2>3, <2>5, <1>1, Zenon DEF TypeOK
<1>3. \A i \in Position : ~(i < push')
  BY <1>1, WordsFacts
<1>4. PageOrdered' /\ PageCalm'
  BY <1>1, <1>3, Zenon DEF PageOrdered, PageCalm
<1> QED
  BY <1>1, <1>2, <1>4, PushKeeps, Zenon DEF GInv

LEMMA SendStep == ASSUME GInv, Send PROVE GInv'
<1>1. /\ gps' = gps /\ measured' = measured /\ cfg' = cfg /\ hook' = hook /\ heard' = heard
      /\ push' = 0 /\ page' = page /\ isValidGPS' = isValidGPS /\ calm' = calm
  BY Zenon DEF Send
<1>2. TypeOK'
  <2>1. push' \in 0 .. Len(Words) + 1
    BY <1>1, WordsFacts
  <2> QED
    BY <2>1, <1>1, Zenon DEF GInv, TypeOK
<1>3. \A i \in Position : ~(i < push')
  BY <1>1, WordsFacts
<1>4. PageOrdered' /\ PageCalm'
  BY <1>1, <1>3, Zenon DEF GInv, PageOrdered, PageCalm
<1> QED
  BY <1>1, <1>2, <1>4, PushKeeps, Zenon DEF GInv

\* A word read of cfg is no older than the words before it on the page allow.
LEMMA ReadStep == ASSUME GInv, Read PROVE GInv'
<1> DEFINE w0 == Words[push]
<1>0. PICK N : N = Len(heard)
  BY Zenon
<1>1. /\ TypeOK /\ gps = Had(Len(heard)) /\ Grows /\ Copied /\ PageOrdered /\ PageCalm
  BY Zenon DEF GInv
<1>2. /\ push \in Position
      /\ page' = [page EXCEPT ![w0] = cfg[w0]] /\ push' = push + 1
      /\ gps' = gps /\ measured' = measured /\ cfg' = cfg /\ hook' = hook /\ heard' = heard
      /\ isValidGPS' = isValidGPS /\ calm' = calm
  BY Zenon DEF Read, Position
<1>3. /\ N \in Nat /\ gps \in [Word -> 0 .. N]
      /\ cfg \in [Word -> -1 .. N] /\ page \in [Word -> -1 .. N]
      /\ \A n \in 0 .. N : Had(n) \in [Word -> 0 .. N]
      /\ \A n \in 1 .. N : Had(n) = heard[n]
  BY <1>0, <1>1, Types DEF Unmeasured
<1>4. /\ w0 \in Word /\ \A i \in Position : Words[i] \in Word /\ (i # push => Words[i] # w0)
      /\ \A i \in Position : i < push' <=> i < push \/ i = push
  BY <1>2, WordsFacts
<1>5. page'[w0] = cfg[w0] /\ \A w \in Word : w # w0 => page'[w] = page[w]
  BY <1>2, <1>3, <1>4
<1>6. TypeOK'
  <2>1. page' \in [Word -> Unmeasured .. Len(heard)]
    BY <1>0, <1>2, <1>3, <1>4 DEF Unmeasured
  <2>2. push' \in 0 .. Len(Words) + 1
    BY <1>2, WordsFacts
  <2> QED
    BY <2>1, <2>2, <1>1, <1>2, Zenon DEF TypeOK
\* What cfg holds was in the parser after the last sentence but one.
<1>7. ASSUME NEW j \in Position, NEW n \in 1 .. N - 1, Had(n)[Words[j]] > 0
      PROVE  cfg[Words[j]] >= Had(n)[Words[j]]
  <2>1. Version(j) \in 0 .. N /\ n <= Version(j)
    <3>1. Version(j) = N \/ Version(j) = N - 1
      BY <1>0, Zenon DEF Version
    <3> QED
      BY <3>1, <1>3
  <2>2. n \in 0 .. N /\ Words[j] \in Word
    BY <1>3, <1>4
  <2> DEFINE old == Had(n)[Words[j]]
             had == Had(Version(j))[Words[j]]
             c == cfg[Words[j]]
  <2>3. old <= had
    BY <2>1, <2>2, <1>0, <1>1, Zenon DEF Grows
  <2>4. Holds(c, had)
    BY <1>1, Zenon DEF Copied
  <2>5. Had(n) \in [Word -> 0 .. N] /\ Had(Version(j)) \in [Word -> 0 .. N]
    BY <2>1, <2>2, <1>3, Zenon
  <2>6. old \in 0 .. N /\ had \in 0 .. N /\ c \in -1 .. N
    BY <2>2, <2>5, <1>3, Zenon
  <2>7. old > 0
    BY <1>7
  <2> HIDE DEF old, had, c
  <2>8. c >= old
    BY <2>3, <2>4, <2>6, <2>7, <1>3 DEF Holds
  <2> QED
    BY <2>8, Zenon DEF old, c
<1>8. PageOrdered'
  <2>1. ASSUME NEW i \in Position, NEW j \in Position, i < j, j < push', page'[Words[i]] > 1,
               heard[page'[Words[i]] - 1][Words[j]] > 0
        PROVE  page'[Words[j]] >= heard[page'[Words[i]] - 1][Words[j]]
    <3>1. i # push /\ (j < push \/ j = push)
      BY <2>1, <1>2, <1>4, WordsFacts
    <3>2. page'[Words[i]] = page[Words[i]]
      BY <3>1, <1>4, <1>5, Zenon
    <3>3. page[Words[i]] > 1 /\ heard[page[Words[i]] - 1][Words[j]] > 0
      BY <2>1, <3>2, Zenon
    <3>4. CASE j < push
      <4>1. page'[Words[j]] = page[Words[j]]
        <5>1. j # push
          BY <3>4, <1>2, WordsFacts
        <5> QED
          BY <5>1, <1>4, <1>5, Zenon
      <4> QED
        BY <4>1, <3>2, <3>3, <3>4, <2>1, <1>1, Zenon DEF PageOrdered
    <3>5. CASE j = push
      <4>1. page[Words[i]] - 1 \in 1 .. N - 1 /\ page[Words[i]] - 1 \in 1 .. N
        <5>1. page[Words[i]] \in -1 .. N
          BY <1>3, <1>4, Zenon
        <5> QED
          BY <5>1, <3>3, <1>3
      <4>2. Had(page[Words[i]] - 1) = heard[page[Words[i]] - 1]
        BY <4>1, <1>3, Zenon
      <4>3. cfg[Words[j]] >= heard[page[Words[i]] - 1][Words[j]]
        BY <4>1, <4>2, <3>3, <1>7, Zenon
      <4> QED
        BY <4>3, <3>2, <3>5, <1>5, Zenon
    <3> QED
      BY <3>1, <3>4, <3>5
  <2> QED
    BY <2>1, <1>2, Zenon DEF PageOrdered
<1>9. PageCalm'
  <2>1. ASSUME calm, NEW i \in Position, i < push', gps[Words[i]] > 0
        PROVE  page'[Words[i]] = gps[Words[i]]
    <3>1. hook = 0
      BY <2>1, <1>1, Zenon DEF PageCalm
    <3>2. CASE i = push
      <4>1. Version(i) = N
        BY <3>1, <1>0, Zenon DEF Version
      <4>2. Holds(cfg[Words[i]], gps[Words[i]])
        BY <4>1, <1>0, <1>1, Zenon DEF Copied
      <4>3. cfg[Words[i]] = gps[Words[i]]
        BY <4>2, <2>1, Zenon DEF Holds
      <4> QED
        BY <4>3, <3>2, <1>5, Zenon
    <3>3. CASE i # push
      <4>1. i < push
        BY <3>3, <2>1, <1>4, Zenon
      <4>2. page[Words[i]] = gps[Words[i]]
        BY <4>1, <2>1, <1>1, Zenon DEF PageCalm
      <4> QED
        BY <4>2, <3>3, <1>4, <1>5, Zenon
    <3> QED
      BY <3>2, <3>3
  <2> QED
    BY <2>1, <1>1, <1>2, Zenon DEF PageCalm
<1> QED
  BY <1>2, <1>6, <1>8, <1>9, PushKeeps, Zenon DEF GInv

LEMMA NextGInv == GInv /\ [Next]_vars => GInv'
<1> SUFFICES ASSUME GInv, [Next]_vars PROVE GInv'
  OBVIOUS
<1>1. ASSUME NEW fix \in BOOLEAN, encode(RMC(fix)) \/ encode(GGA(fix)) PROVE GInv'
  BY <1>1, EncodeStep, Zenon
<1>2. CASE UNCHANGED vars
  <2>1. UNCHANGED <<gps, measured, cfg, hook, push, page, isValidGPS, calm, heard>>
    BY <1>2, Zenon DEF vars
  <2>2. TypeOK' /\ PageOrdered' /\ PageCalm'
    BY <2>1, Zenon DEF GInv, TypeOK, PageOrdered, PageCalm
  <2> QED
    BY <2>1, <2>2, PushKeeps, Zenon DEF GInv
<1> QED
  BY <1>1, <1>2, CopyStep, BeginStep, ReadStep, SendStep, Zenon DEF Next, sendGPSDataJson

LEMMA Hangs == GInv => PageHangsTogether
<1> SUFFICES ASSUME GInv, IsRead PROVE PageHangsTogether
  BY Zenon DEF PageHangsTogether
<1>1. \A i \in Position : i < push
  <2>1. ASSUME NEW i \in Position PROVE i < Len(Words) + 1
    <3>1. Len(Words) \in Nat /\ i \in 1 .. Len(Words)
      BY WordsFacts, Zenon
    <3> QED
      BY <3>1
  <2> QED
    BY <2>1, Zenon DEF IsRead
<1>2. PageOrdered /\ PageCalm
  BY Zenon DEF GInv
<1>3. ASSUME NEW i \in DOMAIN Words, NEW j \in DOMAIN Words, i < j, page[Words[i]] > 1,
             heard[page[Words[i]] - 1][Words[j]] > 0
      PROVE  page[Words[j]] >= heard[page[Words[i]] - 1][Words[j]]
  BY <1>1, <1>2, <1>3, Zenon DEF PageOrdered, Position
<1>4. ASSUME calm, NEW w \in Word, gps[w] > 0 PROVE page[w] = gps[w]
  <2>1. PICK i \in Position : w = Words[i]
    BY WordsFacts, Zenon
  <2> QED
    BY <2>1, <1>1, <1>2, <1>4, Zenon DEF PageCalm
<1> QED
  BY <1>3, <1>4, Zenon DEF PageHangsTogether

\* The variables keep their types, for every choice of words and any number of
\* sentences.
THEOREM TypeCorrect == Spec => []TypeOK
BY InitGInv, NextGInv, PTL DEF Spec, GInv

\* What the browser is sent was never put together of sentences more than one
\* apart, and is one moment when no sentence came meanwhile; sendGPSDataJson()
\* may read between any two of the words setGPSData() writes.
THEOREM PagesHangTogether == Spec => []PageHangsTogether
BY InitGInv, NextGInv, Hangs, PTL DEF Spec
=============================================================================
