------------------------ MODULE InferenceWorkerProofs ------------------------
(***************************************************************************)
(* TLAPS proofs about InferenceWorker, for any number of frames, layouts   *)
(* of the buffers and DMA-BUFs: the sessions in which it reads, that it    *)
(* reads whole pictures, and that no snapshot or result is of another      *)
(* frame.  After them, what nonMaximumSuppression() keeps of any list of   *)
(* detections, and that makeRawBuffer() shows the picture of any layout.   *)
(***************************************************************************)
EXTENDS MCInference, FiniteSetTheorems, SequenceTheorems, WellFoundedInduction, TLAPS

(* How often x is in a sequence s; and that s is one, whatever it is of.   *)
CountTo(s, n, x) == Cardinality({i \in 1..n : s[i] = x})
Count(s, x) == CountTo(s, Len(s), x)
IsSequence(s) == s \in Seq({s[i] : i \in 1..Len(s)})

(* The sessions under way are those that synchronized_fds_ lists, and it   *)
(* is empty outside of a DmaBufReadSync.                                   *)
SessionInv ==
  /\ sessions \in [Fds -> Int] /\ IsSequence(synchronized)
  /\ \A fd \in Fds : sessions[fd] = Count(synchronized, fd)
  /\ worker \notin {"start", "read", "finish"} => synchronized = <<>>

(* What follows finish() uses a picture of the frame the worker holds; a   *)
(* main picture is read only for a snapshot, which is empty or of that     *)
(* frame.                                                                  *)
FrameInv ==
  /\ worker \in {"start", "read", "convert", "infer"} => ~failed
  /\ worker = "convert" \/ (worker = "finish" /\ then = "convert") => i420 = frame
  /\ worker = "infer" \/ (worker = "finish" /\ then = "infer") => bgr = frame
  /\ worker = "finish" => then \in {"convert", "infer", "drop"}
  /\ reading = "main" =>
       /\ worker \in {"start", "read", "finish", "drop"}
       /\ worker = "finish" => then = "drop"
       /\ worker \in {"start", "read"} => snapshot = 0
       /\ snapshot \in {0, frame}
       /\ worker = "drop" /\ failed => snapshot = 0

-----------------------------------------------------------------------------
(* Counting in a sequence.                                                 *)

LEMMA CountEmpty == ASSUME NEW x PROVE Count(<<>>, x) = 0
<1>1. {i \in 1..Len(<<>>) : <<>>[i] = x} = {}
  OBVIOUS
<1> QED BY <1>1, FS_EmptySet DEF Count, CountTo

LEMMA PrefixFinite ==
  ASSUME NEW s, NEW x, NEW n \in Nat
  PROVE  LET F == {i \in 1..n : s[i] = x} IN
         IsFiniteSet(F) /\ Cardinality(F) \in Nat /\ n + 1 \notin F
<1> DEFINE F == {i \in 1..n : s[i] = x}
<1>1. IsFiniteSet(1..n)
  BY FS_Interval
<1>2. IsFiniteSet(F)
  BY <1>1, FS_Subset
<1>3. Cardinality(F) \in Nat
  BY <1>2, FS_CardinalityType
<1> QED BY <1>2, <1>3

(* One element more. *)
LEMMA CountStep ==
  ASSUME NEW s, NEW x, NEW n \in Nat
  PROVE  CountTo(s, n + 1, x) = CountTo(s, n, x) + IF s[n + 1] = x THEN 1 ELSE 0
<1> DEFINE F == {i \in 1..n : s[i] = x}
           G == {i \in 1..n+1 : s[i] = x}
<1>1. IsFiniteSet(F) /\ Cardinality(F) \in Nat /\ n + 1 \notin F
  BY PrefixFinite
<1>2. 1..n+1 = (1..n) \cup {n + 1}
  OBVIOUS
<1>3. CASE s[n + 1] = x
  <2>1. G = F \cup {n + 1}
    BY <1>2, <1>3
  <2> HIDE DEF F, G
  <2>2. Cardinality(G) = Cardinality(F) + 1
    BY <1>1, <2>1, FS_AddElement
  <2> QED BY <1>3, <2>2 DEF F, G, CountTo
<1>4. CASE s[n + 1] # x
  <2>1. G = F
    BY <1>2, <1>4
  <2> QED BY <1>1, <1>4, <2>1 DEF CountTo
<1> QED BY <1>3, <1>4

LEMMA SamePrefixCount ==
  ASSUME NEW s, NEW t, NEW x, NEW n \in Nat, \A i \in 1..n : t[i] = s[i]
  PROVE  CountTo(t, n, x) = CountTo(s, n, x)
<1>1. {i \in 1..n : t[i] = x} = {i \in 1..n : s[i] = x}
  OBVIOUS
<1> QED BY <1>1 DEF CountTo

LEMMA OverAnySet ==
  ASSUME NEW S, NEW t \in Seq(S)
  PROVE  IsSequence(t)
<1> DEFINE R == {t[i] : i \in 1..Len(t)}
<1>1. Len(t) \in Nat /\ t \in [1..Len(t) -> S]
  BY LenProperties
<1>2. t \in [1..Len(t) -> R]
  BY <1>1
<1> HIDE DEF R
<1>3. t \in UNION {[1..n -> R] : n \in Nat}
  BY <1>1, <1>2
<1>4. t \in Seq(R)
  BY <1>3, SeqDef
<1> QED BY <1>4 DEF IsSequence, R

LEMMA AppendIsSequence ==
  ASSUME NEW s, IsSequence(s), NEW e
  PROVE  /\ IsSequence(Append(s, e)) /\ Len(Append(s, e)) = Len(s) + 1
         /\ Len(s) \in Nat /\ Append(s, e)[Len(s) + 1] = e
         /\ \A i \in 1..Len(s) : Append(s, e)[i] = s[i]
<1> DEFINE S == {s[i] : i \in 1..Len(s)} \cup {e}
           t == Append(s, e)
<1>1. s \in Seq(S) /\ e \in S
  BY DEF IsSequence
<1> HIDE DEF S
<1>2. /\ Len(s) \in Nat /\ t \in Seq(S) /\ Len(t) = Len(s) + 1
      /\ t[Len(s) + 1] = e /\ \A i \in 1..Len(s) : t[i] = s[i]
  BY <1>1
<1>3. IsSequence(t)
  BY <1>2, OverAnySet
<1> QED BY <1>2, <1>3

LEMMA CountAppend ==
  ASSUME NEW s, IsSequence(s), NEW e, NEW x
  PROVE  Count(Append(s, e), x) = Count(s, x) + IF e = x THEN 1 ELSE 0
<1> DEFINE t == Append(s, e)
           n == Len(s)
<1>1. n \in Nat /\ Len(t) = n + 1 /\ t[n + 1] = e /\ \A i \in 1..n : t[i] = s[i]
  BY AppendIsSequence
<1> HIDE DEF t, n
<1>2. CountTo(t, n, x) = CountTo(s, n, x)
  BY <1>1, SamePrefixCount
<1>3. CountTo(t, n + 1, x) = CountTo(t, n, x) + IF t[n + 1] = x THEN 1 ELSE 0
  BY <1>1, CountStep
<1> QED BY <1>1, <1>2, <1>3 DEF Count, t, n

LEMMA FrontIsSequence ==
  ASSUME NEW s, IsSequence(s), s # <<>>
  PROVE  /\ IsSequence(Front(s)) /\ Len(s) \in Nat \ {0} /\ Len(Front(s)) = Len(s) - 1
         /\ \A i \in 1..Len(s)-1 : Front(s)[i] = s[i]
<1> DEFINE S == {s[i] : i \in 1..Len(s)}
           t == SubSeq(s, 1, Len(s) - 1)
<1>1. s \in Seq(S)
  BY DEF IsSequence
<1> HIDE DEF S
<1>2. Len(s) \in Nat \ {0}
  BY <1>1
<1>3. /\ t \in Seq(S) /\ Len(t) = Len(s) - 1
      /\ \A i \in 1..Len(s)-1 : t[i] = s[i]
  BY <1>1, <1>2, SubSeqProperties, SMTT(20)
<1>4. IsSequence(t)
  BY <1>3, OverAnySet
<1> QED BY <1>2, <1>3, <1>4 DEF Front

LEMMA CountFront ==
  ASSUME NEW s, IsSequence(s), s # <<>>, NEW x
  PROVE  Count(s, x) = Count(Front(s), x) + IF Last(s) = x THEN 1 ELSE 0
<1> DEFINE t == Front(s)
           n == Len(s) - 1
<1>1. n \in Nat /\ Len(s) = n + 1 /\ Len(t) = n /\ \A i \in 1..n : t[i] = s[i]
  BY FrontIsSequence
<1>2. Last(s) = s[Len(s)]
  BY DEF Last
<1> HIDE DEF t, n
<1>3. CountTo(t, n, x) = CountTo(s, n, x)
  BY <1>1, SamePrefixCount
<1>4. CountTo(s, n + 1, x) = CountTo(s, n, x) + IF s[n + 1] = x THEN 1 ELSE 0
  BY <1>1, CountStep
<1> QED BY <1>1, <1>2, <1>3, <1>4 DEF Count, t, n

LEMMA CountType ==
  ASSUME NEW s, IsSequence(s), NEW x
  PROVE  Count(s, x) \in Nat
<1>1. Len(s) \in Nat
  BY AppendIsSequence
<1> QED BY <1>1, PrefixFinite DEF Count, CountTo

-----------------------------------------------------------------------------
(* Sessions.                                                               *)

(* Steps that start and end nothing. *)
LEMMA NoSessionStep ==
  ASSUME SessionInv, UNCHANGED <<sessions, synchronized>>,
         worker' \notin {"start", "read", "finish"} =>
           synchronized = <<>> \/ worker \notin {"start", "read", "finish"}
  PROVE  SessionInv'
BY DEF SessionInv

LEMMA UpdateType ==
  ASSUME NEW D, NEW S, NEW f \in [D -> S], NEW d, NEW v, d \in D => v \in S
  PROVE  [f EXCEPT ![d] = v] \in [D -> S]
OBVIOUS

LEMMA StartSession == SessionInv /\ StartSucceeds => SessionInv'
<1> SUFFICES ASSUME SessionInv, StartSucceeds PROVE SessionInv'
  OBVIOUS
<1> DEFINE e == Head(fds)
           t == Append(synchronized, e)
<1>1. /\ synchronized' = t /\ sessions' = [sessions EXCEPT ![e] = @ + 1]
      /\ worker' = "start"
  BY DEF StartSucceeds
<1>2. sessions \in [Fds -> Int] /\ IsSequence(synchronized)
  BY DEF SessionInv
<1>3. IsSequence(t)
  BY <1>2, AppendIsSequence
<1>4. \A fd \in Fds : Count(t, fd) = Count(synchronized, fd) + IF e = fd THEN 1 ELSE 0
  BY <1>2, CountAppend
<1> HIDE DEF e, t
<1>5. sessions' \in [Fds -> Int]
  <2>1. sessions' = [sessions EXCEPT ![e] = sessions[e] + 1]
    BY <1>1
  <2>2. e \in Fds => sessions[e] + 1 \in Int
    BY <1>2
  <2> QED BY <1>2, <2>1, <2>2, UpdateType
<1>6. \A fd \in Fds : sessions'[fd] = Count(t, fd)
  <2> TAKE fd \in Fds
  <2>1. sessions[fd] = Count(synchronized, fd) /\ sessions[fd] \in Int
    BY <1>2 DEF SessionInv
  <2>2. sessions'[fd] = IF e = fd THEN sessions[fd] + 1 ELSE sessions[fd]
    BY <1>1, <1>2
  <2> QED BY <1>4, <2>1, <2>2
<1> QED BY <1>1, <1>3, <1>5, <1>6 DEF SessionInv

LEMMA EndSession == SessionInv /\ End => SessionInv'
<1> SUFFICES ASSUME SessionInv, End PROVE SessionInv'
  OBVIOUS
<1> DEFINE e == Last(synchronized)
           t == Front(synchronized)
<1>1. /\ synchronized' = t /\ sessions' = [sessions EXCEPT ![e] = @ - 1]
      /\ worker' = "finish" /\ synchronized # <<>>
  BY DEF End
<1>2. sessions \in [Fds -> Int] /\ IsSequence(synchronized)
  BY DEF SessionInv
<1>3. IsSequence(t)
  BY <1>1, <1>2, FrontIsSequence
<1>4. \A fd \in Fds : /\ Count(synchronized, fd) = Count(t, fd) + IF e = fd THEN 1 ELSE 0
                      /\ Count(t, fd) \in Nat
  BY <1>1, <1>2, <1>3, CountFront, CountType
<1> HIDE DEF e, t
<1>5. sessions' \in [Fds -> Int]
  <2>1. sessions' = [sessions EXCEPT ![e] = sessions[e] - 1]
    BY <1>1
  <2>2. e \in Fds => sessions[e] - 1 \in Int
    BY <1>2
  <2> QED BY <1>2, <2>1, <2>2, UpdateType
<1>6. \A fd \in Fds : sessions'[fd] = Count(t, fd)
  <2> TAKE fd \in Fds
  <2>1. sessions[fd] = Count(synchronized, fd) /\ sessions[fd] \in Int
    BY <1>2 DEF SessionInv
  <2>2. sessions'[fd] = IF e = fd THEN sessions[fd] - 1 ELSE sessions[fd]
    BY <1>1, <1>2
  <2> QED BY <1>4, <2>1, <2>2
<1> QED BY <1>1, <1>3, <1>5, <1>6 DEF SessionInv

(* The constructor begins with an empty list, where it was empty. *)
LEMMA OpenSession ==
  ASSUME SessionInv, worker \in {"wait", "infer"}, NEW what, NEW b, Open(what, b)
  PROVE  SessionInv'
<1>1. synchronized = <<>> /\ synchronized' = <<>> /\ UNCHANGED sessions /\ worker' = "start"
  BY DEF SessionInv, Open
<1> QED BY <1>1, NoSessionStep

LEMMA SessionInvPreserved ==
  ASSUME NEW Lores, NEW Main, SessionInv, [Next(Lores, Main)]_vars
  PROVE  SessionInv'
<1>1. CASE StartSucceeds \/ End
  BY <1>1, StartSession, EndSession
<1>2. ASSUME worker = "wait", NEW b, Pop(b) PROVE SessionInv'
  BY <1>2, OpenSession DEF Pop
<1>3. ASSUME worker = "infer", NEW b, Trigger(b) PROVE SessionInv'
  BY <1>3, OpenSession DEF Trigger
<1>4. CASE submit \/ stop \/ UNCHANGED vars
  BY <1>4, NoSessionStep DEF submit, stop, vars, syncVars
<1>5. CASE Leave \/ NothingDetected \/ Drop \/ ConvertCopy
  BY <1>5, NoSessionStep DEF Leave, NothingDetected, Drop, ConvertCopy, syncVars
<1>6. CASE StartFails \/ ConvertMapping \/ CopyMapping
  BY <1>6, NoSessionStep DEF StartFails, CleanUp, ConvertMapping, CopyMapping, CopyRows,
                             Finish
<1>7. CASE Ready \/ Finished
  BY <1>7, NoSessionStep DEF Ready, Finished, syncVars
<1> QED BY <1>1, <1>2, <1>3, <1>4, <1>5, <1>6, <1>7 DEF Next, Proceed, Sync, Convert

LEMMA SessionInvInit == Init => SessionInv
<1> SUFFICES ASSUME Init PROVE SessionInv
  OBVIOUS
<1>1. IsSequence(synchronized)
  BY DEF Init, IsSequence
<1> QED BY <1>1, CountEmpty DEF Init, SessionInv

(* Every read session that DmaBufReadSync started is ended before the      *)
(* worker goes on, whichever START, END, copy or conversion failed, and    *)
(* whatever layouts the camera's buffers have.                             *)
THEOREM EverySessionEnds ==
  ASSUME NEW CONSTANT Lores, NEW CONSTANT Main
  PROVE  Spec(Lores, Main) => []SessionsEnded
<1>1. SessionInv => SessionsEnded
  BY CountEmpty DEF SessionInv, SessionsEnded
<1>2. SessionInv /\ [Next(Lores, Main)]_vars => SessionInv'
  BY SessionInvPreserved
<1> QED BY <1>1, <1>2, SessionInvInit, PTL DEF Spec

-----------------------------------------------------------------------------
(* Frames.                                                                 *)

LEMMA FrameInvPreserved ==
  ASSUME NEW Lores, NEW Main, FrameInv, [Next(Lores, Main)]_vars
  PROVE  FrameInv'
<1>1. ASSUME worker = "wait", NEW b, Pop(b) PROVE FrameInv'
  BY <1>1 DEF Pop, Open, FrameInv
<1>2. ASSUME worker = "infer", NEW b, Trigger(b) PROVE FrameInv'
  BY <1>2 DEF Trigger, Open, FrameInv
<1>3. CASE submit \/ stop \/ UNCHANGED vars
  BY <1>3 DEF submit, stop, vars, syncVars, FrameInv
<1>4. CASE Leave \/ NothingDetected
  BY <1>4 DEF Leave, NothingDetected, syncVars, FrameInv
<1>5. CASE Drop
  BY <1>5 DEF Drop, syncVars, FrameInv
<1>6. CASE StartSucceeds \/ StartFails \/ Ready \/ End
  <2>1. CASE StartSucceeds \/ Ready
    BY <2>1 DEF StartSucceeds, Ready, syncVars, FrameInv
  <2>2. CASE StartFails
    BY <2>2 DEF StartFails, CleanUp, Finish, FrameInv
  <2>3. CASE End
    BY <2>3 DEF End, FrameInv
  <2> QED BY <1>6, <2>1, <2>2, <2>3
<1>7. CASE Finished
  BY <1>7 DEF Finished, syncVars, FrameInv
<1>8. CASE ConvertMapping
  BY <1>8 DEF ConvertMapping, InPlace, Finish, FrameInv
<1>9. CASE CopyMapping
  BY <1>9 DEF CopyMapping, CopyRows, CopyTo, Finish, FrameInv
<1>10. CASE ConvertCopy
  BY <1>10 DEF ConvertCopy, syncVars, FrameInv
<1> QED BY <1>1, <1>2, <1>3, <1>4, <1>5, <1>6, <1>7, <1>8, <1>9, <1>10
      DEF Next, Proceed, Sync, Convert

(* infer() and a snapshot show the frame the worker holds, though i420 and *)
(* bgr are used again from frame to frame, and never one whose session     *)
(* ended with an error.                                                    *)
THEOREM InfersTheFrameItHolds ==
  ASSUME NEW CONSTANT Lores, NEW CONSTANT Main
  PROVE  Spec(Lores, Main) => []InfersCurrentFrame
<1>1. Init => FrameInv
  BY DEF Init, FrameInv
<1>2. FrameInv /\ [Next(Lores, Main)]_vars => FrameInv'
  BY FrameInvPreserved
<1>3. FrameInv => InfersCurrentFrame
  BY DEF FrameInv, InfersCurrentFrame
<1> QED BY <1>1, <1>2, <1>3, PTL DEF Spec

-----------------------------------------------------------------------------
(* Induction, from the well-foundedness of < on Nat.                       *)

LEMMA LeastElement ==
  ASSUME NEW T \in SUBSET Nat, T # {}
  PROVE  \E m \in T : \A k \in T : m <= k
<1> DEFINE R == OpToRel(<, Nat)
<1>1. IsWellFoundedOn(R, Nat)
  BY NatLessThanWellFounded
<1>2. \A a, b \in Nat : a < b => <<a, b>> \in R
  BY DEF OpToRel
<1> HIDE DEF R
<1>3. PICK x \in T : \A y \in T : ~(<<y, x>> \in R)
  BY <1>1, WFMin
<1>4. \A y \in T : ~(y < x)
  BY <1>2, <1>3
<1>5. \A y \in T : x <= y
  BY <1>4
<1> QED BY <1>5

LEMMA GreatestElement ==
  ASSUME NEW n \in Nat, NEW T \in SUBSET (0..n), T # {}
  PROVE  \E m \in T : \A k \in T : k <= m
<1> DEFINE D == {n - k : k \in T}
<1>1. D \in SUBSET Nat /\ D # {}
  <2>1. \A k \in T : k \in 0..n
    OBVIOUS
  <2>2. \A k \in T : n - k \in Nat
    BY <2>1
  <2> QED BY <2>2
<1>2. PICK d \in D : \A e \in D : d <= e
  BY <1>1, LeastElement
<1>3. PICK m \in T : d = n - m
  BY <1>2
<1>4. \A k \in T : n - m <= n - k
  BY <1>2, <1>3
<1>5. \A k \in T : k <= m
  BY <1>4
<1> QED BY <1>5

LEMMA SetInduction ==
  ASSUME NEW T, 0 \in T, \A n \in Nat : n \in T => n + 1 \in T
  PROVE  Nat \subseteq T
<1> DEFINE B == Nat \ T
<1> SUFFICES ASSUME B # {} PROVE FALSE
  OBVIOUS
<1>1. PICK m \in B : \A k \in B : m <= k
  BY LeastElement
<1>2. m \in Nat /\ m # 0 /\ m - 1 \in Nat /\ m - 1 \notin B
  BY <1>1
<1> QED BY <1>1, <1>2

-----------------------------------------------------------------------------
(* nonMaximumSuppression().                                                *)

Box == [x : Int, y : Int, width : Int, height : Int]
Detection == [class_id : Int, confidence : Int, box : Box]

(* M[i] is what the first i iterations of the outer loop mark. *)
IsMarking(M, s, t, n) ==
  M = [i \in 0..n |-> IF i = 0 THEN {} ELSE Mark(s, t, i, M[i-1])]

LEMMA MarkingExists ==
  ASSUME NEW s, NEW t, NEW n \in Nat
  PROVE  \E M : IsMarking(M, s, t, n)
<1> DEFINE T == {m \in Nat : \E M : IsMarking(M, s, t, m)}
<1>1. 0 \in T
  <2> DEFINE M == [i \in 0..0 |-> {}]
  <2>1. M = [i \in 0..0 |-> IF i = 0 THEN {} ELSE Mark(s, t, i, M[i-1])]
    OBVIOUS
  <2> QED BY <2>1 DEF IsMarking
<1>2. ASSUME NEW m \in Nat, m \in T PROVE m + 1 \in T
  <2>1. PICK M : IsMarking(M, s, t, m)
    BY <1>2
  <2> DEFINE g == [i \in 0..m+1 |-> IF i = m + 1 THEN Mark(s, t, m+1, M[m]) ELSE M[i]]
  <2>2. ASSUME NEW i \in 0..m+1
        PROVE  g[i] = IF i = 0 THEN {} ELSE Mark(s, t, i, g[i-1])
    <3>1. CASE i = m + 1
      <4>1. g[i] = Mark(s, t, i, M[m]) /\ g[i-1] = M[m] /\ i # 0
        BY <3>1
      <4> HIDE DEF g
      <4> QED BY <4>1
    <3>2. CASE i \in 0..m
      <4>1. g[i] = M[i] /\ (i # 0 => g[i-1] = M[i-1])
        BY <3>2
      <4>2. M[i] = IF i = 0 THEN {} ELSE Mark(s, t, i, M[i-1])
        BY <2>1, <3>2 DEF IsMarking
      <4> HIDE DEF g
      <4> QED BY <4>1, <4>2
    <3> QED BY <3>1, <3>2
  <2>3. g = [i \in 0..m+1 |-> g[i]]
    OBVIOUS
  <2> HIDE DEF g
  <2>4. IsMarking(g, s, t, m + 1)
    BY <2>2, <2>3 DEF IsMarking
  <2> QED BY <2>4
<1> HIDE DEF T
<1>3. Nat \subseteq T
  BY <1>1, <1>2, SetInduction
<1> QED BY <1>3 DEF T

LEMMA RemainingIs ==
  ASSUME NEW s, NEW t, Len(s) \in Nat
  PROVE  \E M : IsMarking(M, s, t, Len(s)) /\ Remaining(s, t) = (1..Len(s)) \ M[Len(s)]
<1> DEFINE M == CHOOSE f : IsMarking(f, s, t, Len(s))
<1>1. IsMarking(M, s, t, Len(s))
  <2>1. \E f : IsMarking(f, s, t, Len(s))
    BY MarkingExists
  <2> QED BY <2>1, Zenon
<1>2. Remaining(s, t) = (1..Len(s)) \ M[Len(s)]
  BY DEF Remaining, IsMarking
<1> HIDE DEF M
<1> QED BY <1>1, <1>2

LEMMA MarkingStep ==
  ASSUME NEW s, NEW t, NEW n \in Nat, NEW M, IsMarking(M, s, t, n), NEW i \in 1..n
  PROVE  M[i] = Mark(s, t, i, M[i-1])
<1>1. i \in 0..n /\ i # 0
  OBVIOUS
<1>2. M[i] = IF i = 0 THEN {} ELSE Mark(s, t, i, M[i-1])
  BY <1>1 DEF IsMarking
<1> QED BY <1>1, <1>2

(* What is marked stays marked. *)
LEMMA MarkingGrows ==
  ASSUME NEW s, NEW t, NEW n \in Nat, NEW M, IsMarking(M, s, t, n),
         NEW i \in 0..n, NEW j \in 0..n, i <= j
  PROVE  M[i] \subseteq M[j]
<1> DEFINE T == {d \in Nat : i + d <= n => M[i] \subseteq M[i + d]}
<1>1. 0 \in T
  OBVIOUS
<1>2. ASSUME NEW d \in Nat, d \in T PROVE d + 1 \in T
  <2>1. CASE i + d + 1 <= n
    <3> DEFINE k == i + d + 1
    <3>1. k \in 1..n /\ k - 1 = i + d
      BY <2>1
    <3> HIDE DEF k
    <3>2. M[k] = Mark(s, t, k, M[k-1])
      BY <3>1, MarkingStep
    <3>3. M[i+d] \subseteq M[k]
      BY <3>1, <3>2 DEF Mark
    <3> USE DEF k
    <3> QED BY <1>2, <2>1, <3>3
  <2> QED BY <2>1
<1> HIDE DEF T
<1>3. Nat \subseteq T
  BY <1>1, <1>2, SetInduction
<1>4. j - i \in T
  BY <1>3
<1> QED BY <1>4 DEF T

(* What is marked was marked by an earlier detection that was not. *)
LEMMA MarkedBy ==
  ASSUME NEW s, NEW t, NEW n \in Nat, NEW M, IsMarking(M, s, t, n),
         NEW k \in 0..n, NEW x \in M[k]
  PROVE  \E i \in 1..k : i \notin M[i-1] /\ x \in i+1..Len(s) /\ Suppresses(s[i], s[x], t)
<1> DEFINE T == {i \in 0..k : x \in M[i]}
<1>1. T \in SUBSET Nat /\ k \in T
  OBVIOUS
<1>2. PICK i \in T : \A j \in T : i <= j
  BY <1>1, LeastElement
<1>3. M[0] = {}
  BY DEF IsMarking
<1>4. i \in 1..k /\ i \in 0..n /\ x \in M[i] /\ i - 1 \in 0..k /\ x \notin M[i-1]
  BY <1>2, <1>3
<1>5. M[i] = Mark(s, t, i, M[i-1])
  BY <1>4 DEF IsMarking
<1> QED BY <1>4, <1>5 DEF Mark

LEMMA TwoInts ==
  ASSUME NEW p \in Int, NEW q \in Int
  PROVE  Max({p, q}) \in Int /\ Min({p, q}) \in Int
<1>1. \E x \in {p, q} : \A y \in {p, q} : x >= y
  OBVIOUS
<1>2. \E x \in {p, q} : \A y \in {p, q} : x =< y
  OBVIOUS
<1> QED BY <1>1, <1>2 DEF Max, Min

LEMMA ExtentInt ==
  ASSUME NEW f1 \in Int, NEW s1 \in Int, NEW f2 \in Int, NEW s2 \in Int
  PROVE  Extent(f1, s1, f2, s2) \in Int
<1>1. Min({f1 + s1, f2 + s2}) \in Int /\ Max({f1, f2}) \in Int
  <2>1. f1 + s1 \in Int /\ f2 + s2 \in Int
    OBVIOUS
  <2>2. Min({f1 + s1, f2 + s2}) \in Int
    BY <2>1, TwoInts
  <2> QED BY <2>2, TwoInts
<1>2. Min({f1 + s1, f2 + s2}) - Max({f1, f2}) \in Int
  BY <1>1
<1> QED BY <1>2, TwoInts DEF Extent

LEMMA OverlapSymmetric ==
  ASSUME NEW a \in Box, NEW b \in Box, NEW t, Overlap(a, b, t)
  PROVE  Overlap(b, a, t)
<1>1. Intersection(a, b) = Intersection(b, a)
  <2>1. \A p, q : {p, q} = {q, p}
    OBVIOUS
  <2>2. /\ Extent(a.x, a.width, b.x, b.width) = Extent(b.x, b.width, a.x, a.width)
        /\ Extent(a.y, a.height, b.y, b.height) = Extent(b.y, b.height, a.y, a.height)
    BY <2>1 DEF Extent
  <2> QED BY <2>2 DEF Intersection
<1>2. /\ a.width * a.height \in Int /\ b.width * b.height \in Int
      /\ Intersection(a, b) \in Int
  <2>1. /\ a.x \in Int /\ a.y \in Int /\ a.width \in Int /\ a.height \in Int
        /\ b.x \in Int /\ b.y \in Int /\ b.width \in Int /\ b.height \in Int
    BY DEF Box
  <2>2. /\ Extent(a.x, a.width, b.x, b.width) \in Int
        /\ Extent(a.y, a.height, b.y, b.height) \in Int
    BY <2>1, ExtentInt
  <2> QED BY <2>1, <2>2 DEF Intersection
<1>3. a.width * a.height + b.width * b.height - Intersection(a, b)
        = b.width * b.height + a.width * a.height - Intersection(b, a)
  <2>1. \A p, q, i \in Int : p + q - i = q + p - i
    OBVIOUS
  <2> QED BY <1>1, <1>2, <2>1
<1> QED BY <1>1, <1>3, Zenon DEF Overlap

(* In sorted detections an earlier one is at least as likely. *)
LEMMA SortedFalls ==
  ASSUME NEW s, NEW n \in Nat, Len(s) = n, \A i \in 1..n : s[i].confidence \in Int, Sorted(s),
         NEW i \in 1..n, NEW j \in 1..n, i <= j
  PROVE  s[i].confidence >= s[j].confidence
<1> DEFINE T == {d \in Nat : i + d <= n => s[i].confidence >= s[i+d].confidence}
<1>1. 0 \in T
  OBVIOUS
<1>2. ASSUME NEW d \in Nat, d \in T PROVE d + 1 \in T
  <2>1. CASE i + d + 1 <= n
    <3>1. i + d \in 1..n-1 /\ i + d \in 1..n /\ i + d + 1 \in 1..n
      BY <2>1
    <3>2. s[i+d].confidence >= s[i+d+1].confidence
      BY <3>1 DEF Sorted
    <3>3. s[i].confidence >= s[i+d].confidence
      BY <1>2, <2>1
    <3>4. /\ s[i].confidence \in Int /\ s[i+d].confidence \in Int
          /\ s[i+d+1].confidence \in Int
      BY <3>1
    <3>5. s[i].confidence >= s[i+d+1].confidence
      BY <3>2, <3>3, <3>4
    <3> QED BY <3>5
  <2> QED BY <2>1
<1> HIDE DEF T
<1>3. Nat \subseteq T
  BY <1>1, <1>2, SetInduction
<1>4. j - i \in T /\ i + (j - i) = j
  BY <1>3
<1> QED BY <1>4 DEF T

LEMMA SuppressionKeeps ==
  ASSUME NEW D \in SUBSET Detection, NEW n \in Nat, NEW t
  PROVE  KeepsTheLikeliest(D, n, t)
<1> SUFFICES ASSUME NEW s \in UNION {[1..k -> D] : k \in 0..n}, Sorted(s),
                    NEW kept, kept = Remaining(s, t)
             PROVE  /\ \A i, j \in kept : i # j => ~Suppresses(s[i], s[j], t)
                    /\ \A j \in (1..Len(s)) \ kept : \E i \in kept :
                         Suppresses(s[i], s[j], t) /\ s[i].confidence >= s[j].confidence
  BY DEF KeepsTheLikeliest
<1>1. PICK N \in 0..n : s \in [1..N -> D]
  OBVIOUS
<1>2. N \in Nat /\ N \in 0..N /\ Len(s) = N /\ \A i \in 1..N : s[i] \in Detection
  BY <1>1
<1>3. \A i \in 1..N : s[i].confidence \in Int /\ s[i].box \in Box
  BY <1>2 DEF Detection
<1>4. PICK M : IsMarking(M, s, t, N) /\ kept = (1..N) \ M[N]
  BY <1>2, RemainingIs
<1>5. ASSUME NEW i \in 1..N, i \notin M[i-1] PROVE i \in kept
  <2> SUFFICES ASSUME i \in M[N] PROVE FALSE
    BY <1>4
  <2>1. PICK x \in 1..N : x \notin M[x-1] /\ i \in x+1..Len(s) /\ Suppresses(s[x], s[i], t)
    BY <1>2, <1>4, MarkedBy
  <2>2. x \in 1..N /\ x \in 0..N /\ i-1 \in 0..N /\ x <= i-1
    BY <1>2, <2>1
  <2>3. M[x] = Mark(s, t, x, M[x-1])
    BY <1>2, <1>4, <2>2, MarkingStep
  <2>4. i \in M[x]
    BY <2>1, <2>3 DEF Mark
  <2>5. M[x] \subseteq M[i-1]
    <3> DEFINE y == i - 1
    <3>1. y \in 0..N /\ x <= y
      BY <2>2
    <3> HIDE DEF y
    <3>2. M[x] \subseteq M[y]
      BY <1>2, <1>4, <2>2, <3>1, MarkingGrows
    <3> QED BY <3>2 DEF y
  <2> QED BY <1>5, <2>4, <2>5
<1>6. ASSUME NEW i \in kept, NEW j \in kept, i < j PROVE ~Suppresses(s[i], s[j], t)
  <2> SUFFICES ASSUME Suppresses(s[i], s[j], t) PROVE FALSE
    OBVIOUS
  <2>1. i \in 1..N /\ j \in 1..N /\ i \notin M[N] /\ j \notin M[N]
    BY <1>4
  <2>2. i \in 0..N /\ i-1 \in 0..N /\ N \in 0..N /\ i-1 <= N /\ i <= N /\ j \in i+1..N
    BY <1>2, <1>6, <2>1
  <2>3. M[i-1] \subseteq M[N] /\ M[i] \subseteq M[N]
    BY <1>2, <1>4, <2>2, MarkingGrows
  <2>4. M[i] = Mark(s, t, i, M[i-1])
    BY <1>2, <1>4, <2>2, MarkingStep
  <2>5. j \in M[i]
    BY <1>2, <2>1, <2>2, <2>3, <2>4 DEF Mark
  <2> QED BY <2>1, <2>3, <2>5
<1>7. ASSUME NEW i \in kept, NEW j \in kept, i # j PROVE ~Suppresses(s[i], s[j], t)
  <2>1. i \in 1..N /\ j \in 1..N
    BY <1>4
  <2>2. Suppresses(s[i], s[j], t) => Suppresses(s[j], s[i], t)
    BY <1>3, <2>1, OverlapSymmetric DEF Suppresses
  <2>3. i < j \/ j < i
    BY <1>2, <1>7, <2>1
  <2> QED BY <1>6, <2>2, <2>3
<1>8. ASSUME NEW j \in (1..Len(s)) \ kept
      PROVE  \E i \in kept : Suppresses(s[i], s[j], t) /\ s[i].confidence >= s[j].confidence
  <2>1. j \in 1..N /\ j \in M[N]
    BY <1>2, <1>4
  <2>2. PICK i \in 1..N : i \notin M[i-1] /\ j \in i+1..Len(s) /\ Suppresses(s[i], s[j], t)
    BY <1>2, <1>4, <2>1, MarkedBy
  <2>3. i \in kept
    BY <1>5, <2>2
  <2>4. i <= j
    BY <1>2, <2>1, <2>2
  <2>5. s[i].confidence >= s[j].confidence
    BY <1>2, <1>3, <2>1, <2>4, SortedFalls
  <2> QED BY <2>2, <2>3, <2>5
<1> QED BY <1>7, <1>8

LEMMA InstanceDetections == MCDetections \in SUBSET Detection
<1> SUFFICES ASSUME NEW d \in MCDetections PROVE d \in Detection
  OBVIOUS
<1>1. \A b \in Boxes : b[1] \in Int /\ b[2] \in Int
  BY DEF Boxes
<1>2. \A b \in Boxes : [x |-> b[1], y |-> 0, width |-> b[2], height |-> 1] \in Box
  BY <1>1 DEF Box
<1>3. d.class_id \in Int /\ d.confidence \in Int /\ d.box \in Box
  BY <1>2 DEF MCDetections
<1>4. d = [class_id |-> d.class_id, confidence |-> d.confidence, box |-> d.box]
  BY DEF MCDetections
<1> QED BY <1>3, <1>4 DEF Detection

(* Of any list of detections that is sorted by confidence, those that      *)
(* nonMaximumSuppression() leaves do not overlap, and one that it removes  *)
(* overlaps one that it leaves and that is at least as likely: whatever    *)
(* the boxes, the classes, the threshold and the length of the list, and   *)
(* so for the lists the instance checks.                                   *)
THEOREM SuppressionAlwaysKeepsTheLikeliest ==
  /\ \A t : \A D \in SUBSET Detection, n \in Nat : KeepsTheLikeliest(D, n, t)
  /\ MCSpec => []SuppressionKeepsTheLikeliest
<1>1. \A t : \A D \in SUBSET Detection, n \in Nat : KeepsTheLikeliest(D, n, t)
  BY SuppressionKeeps
<1>2. SuppressionKeepsTheLikeliest
  BY <1>1, InstanceDetections, InferenceBoundAssumption DEF SuppressionKeepsTheLikeliest
<1>3. MCSpec => []SuppressionKeepsTheLikeliest
  BY <1>2, PTL
<1> QED BY <1>1, <1>3

-----------------------------------------------------------------------------
(* Arithmetic.                                                             *)

LEMMA Division ==
  ASSUME NEW a \in Nat, NEW w \in Nat \ {0}
  PROVE  /\ a \div w \in Nat /\ a % w \in 0..w-1
         /\ a = (a \div w) * w + (a % w)
OBVIOUS

LEMMA ProductMonotone ==
  ASSUME NEW a \in Nat, NEW b \in Nat, NEW c \in Nat, a <= b
  PROVE  a * c <= b * c /\ a * c \in Nat /\ b * c \in Nat
OBVIOUS

LEMMA QuotientUnique ==
  ASSUME NEW w \in Nat \ {0}, NEW r \in Nat, NEW c \in 0..w-1
  PROVE  (r * w + c) \div w = r /\ (r * w + c) % w = c /\ r * w + c \in Nat
OBVIOUS

LEMMA SizeSmall ==
  ASSUME NEW n \in 0..SizeMax PROVE Size(n) = n
BY WidthAssumption DEF Size

LEMMA SizeBounded ==
  ASSUME NEW n \in Nat PROVE Size(n) \in 0..SizeMax
BY WidthAssumption DEF Size

LEMMA MultipliesMeans ==
  ASSUME NEW a \in Nat, NEW b \in Nat
  PROVE  Multiplies(a, b) <=> a * b <= SizeMax
<1>1. CASE a = 0
  BY <1>1, WidthAssumption DEF Multiplies
<1>2. CASE a # 0
  <2> DEFINE q == SizeMax \div a
             r == SizeMax % a
  <2>1. q \in Nat /\ r \in 0..a-1 /\ SizeMax = q * a + r
    BY <1>2, Division, WidthAssumption
  <2> HIDE DEF q, r
  <2>2. b <= q => a * b <= SizeMax
    <3>1. b <= q => b * a <= q * a /\ b * a = a * b
      BY <2>1, ProductMonotone
    <3> QED BY <2>1, <3>1
  <2>3. ~(b <= q) => a * b > SizeMax
    <3> SUFFICES ASSUME q + 1 <= b PROVE a * b > SizeMax
      BY <2>1
    <3>1. (q + 1) * a <= b * a /\ b * a = a * b /\ (q + 1) * a = q * a + a
      BY <2>1, ProductMonotone
    <3> QED BY <2>1, <3>1
  <2>4. a * b \in Nat /\ SizeMax \in Nat
    BY WidthAssumption
  <2> QED BY <1>2, <2>2, <2>3, <2>4 DEF Multiplies, q
<1> QED BY <1>1, <1>2
LEMMA GreatestIsMax ==
  ASSUME NEW n \in Nat, NEW T \in SUBSET (0..n), T # {}
  PROVE  Max(T) \in T /\ \A k \in T : k <= Max(T)
<1>1. \E m \in T : \A k \in T : m >= k
  BY GreatestElement
<1>2. Max(T) \in T /\ \A k \in T : Max(T) >= k
  BY <1>1, Zenon DEF Max
<1> QED BY <1>2

-----------------------------------------------------------------------------
(* Buffers as libcamera reports them. *)
PlaneLayout == [fd : Fds, offset : 0..UIntMax, length : 0..UIntMax]
BufferLayout ==
  [width : Nat, height : Nat, stride : Nat, frame_size : 0..UIntMax,
   planes : Seq(PlaneLayout), bytesused : Seq(0..UIntMax)]

(* The number of bytes of plane i that hold data. *)
Held(b, i) == IF UsedOf(b, i) <= b.planes[i].length THEN UsedOf(b, i) ELSE b.planes[i].length

LEMMA PlaneType ==
  ASSUME NEW b \in BufferLayout, NEW i \in 1..Len(b.planes)
  PROVE  LET p == b.planes[i] IN
         /\ p \in PlaneLayout /\ p.fd \in Fds
         /\ p.offset \in 0..UIntMax /\ p.length \in 0..UIntMax
         /\ p.offset \in 0..SizeMax /\ p.length \in 0..SizeMax
         /\ UsedOf(b, i) \in 0..UIntMax /\ Held(b, i) \in 0..UIntMax
         /\ Held(b, i) <= p.length /\ Held(b, i) \in Nat /\ Held(b, i) <= SizeMax
         /\ Held(b, i) <= UsedOf(b, i)
         /\ \A n \in Nat : n <= p.length /\ n <= UsedOf(b, i) <=> n <= Held(b, i)
         /\ \A n \in Nat : Holds(b, i, n) <=> n < Held(b, i)
<1> DEFINE p == b.planes[i]
<1>1. b.planes \in Seq(PlaneLayout) /\ b.bytesused \in Seq(0..UIntMax)
  BY DEF BufferLayout
<1>2. p \in PlaneLayout
  BY <1>1
<1>3. p.fd \in Fds /\ p.offset \in 0..UIntMax /\ p.length \in 0..UIntMax
  BY <1>2 DEF PlaneLayout
<1>4. UsedOf(b, i) \in 0..UIntMax
  <2>1. CASE i <= Len(b.bytesused)
    <3>1. i \in 1..Len(b.bytesused)
      BY <1>1, <2>1
    <3>2. b.bytesused[i] \in 0..UIntMax
      BY <1>1, <3>1, ElementOfSeq
    <3> QED BY <2>1, <3>2 DEF UsedOf
  <2>2. CASE ~(i <= Len(b.bytesused))
    BY <1>3, <2>2 DEF UsedOf
  <2> QED BY <2>1, <2>2
<1> DEFINE u == UsedOf(b, i)
           m == Held(b, i)
           l == p.length
<1>5. m = IF u <= l THEN u ELSE l
  BY DEF Held
<1>6. \A n \in Nat : Holds(b, i, n) <=> n < l /\ n < u
  BY DEF Holds
<1> HIDE DEF u, m, l
<1>7. u \in 0..UIntMax /\ l \in 0..UIntMax
  BY <1>3, <1>4 DEF u, l
<1>8. m \in 0..UIntMax /\ m <= l /\ m <= u
  BY <1>5, <1>7, WidthAssumption
<1>9. \A n \in Nat : n <= l /\ n <= u <=> n <= m
  BY <1>5, <1>7, WidthAssumption
<1>10. \A n \in Nat : Holds(b, i, n) <=> n < m
  BY <1>5, <1>6, <1>7, WidthAssumption
<1>11. m \in Nat /\ m <= SizeMax /\ p.offset \in 0..SizeMax /\ l \in 0..SizeMax
  BY <1>3, <1>7, <1>8, WidthAssumption
<1> QED BY <1>2, <1>3, <1>4, <1>8, <1>9, <1>10, <1>11 DEF m, l, u

LEMMA MappingCovers ==
  ASSUME NEW b \in BufferLayout, Mappable(b), NEW i \in 1..Len(b.planes)
  PROVE  LET p == b.planes[i]
             m == MappedLength(b, p.fd)
         IN m \in 0..SizeMax /\ p.length <= SizeMax - p.offset
            /\ Size(p.offset + p.length) = p.offset + p.length /\ p.offset + p.length <= m
<1> DEFINE p == b.planes[i]
           T == {Size(q.offset + q.length) : q \in {r \in ToSet(b.planes) : r.fd = p.fd}}
<1>1. DOMAIN b.planes = 1..Len(b.planes)
  BY DEF BufferLayout
<1>2. p \in ToSet(b.planes)
  BY <1>1 DEF ToSet
<1>3. T \in SUBSET (0..SizeMax)
  <2>1. ASSUME NEW q \in ToSet(b.planes) PROVE Size(q.offset + q.length) \in 0..SizeMax
    <3>1. PICK j \in 1..Len(b.planes) : q = b.planes[j]
      BY <1>1 DEF ToSet
    <3>2. q.offset \in 0..UIntMax /\ q.length \in 0..UIntMax
      BY <3>1, PlaneType
    <3>3. q.offset + q.length \in Nat
      BY <3>2, WidthAssumption
    <3> QED BY <3>3, SizeBounded
  <2> QED BY <2>1
<1>4. Size(p.offset + p.length) \in T
  BY <1>2
<1>5. p.length <= SizeMax - p.offset
  BY <1>2 DEF Mappable
<1>6. MappedLength(b, p.fd) = Max(T)
  BY DEF MappedLength
<1> HIDE DEF T
<1>7. Max(T) \in 0..SizeMax /\ Size(p.offset + p.length) <= Max(T)
  BY <1>3, <1>4, GreatestIsMax, WidthAssumption
<1>8. p.offset \in 0..UIntMax /\ p.length \in 0..UIntMax
  BY PlaneType
<1>9. p.offset + p.length \in 0..SizeMax
  <2>1. \A x, y, z \in Nat : y <= z - x => x + y \in 0..z
    OBVIOUS
  <2>2. p.offset \in Nat /\ p.length \in Nat /\ SizeMax \in Nat
    BY <1>8, WidthAssumption
  <2> QED BY <1>5, <2>1, <2>2
<1>10. Size(p.offset + p.length) = p.offset + p.length
  BY <1>9, SizeSmall
<1> QED BY <1>5, <1>6, <1>7, <1>10

LEMMA ViewFields ==
  ASSUME NEW b \in BufferLayout, Mappable(b)
  PROVE  LET v == makeView(b) IN
         /\ v.width = b.width /\ v.height = b.height /\ v.stride = b.stride
         /\ v.frame_size = b.frame_size /\ Len(v.planes) = Len(b.planes)
         /\ \A i \in 1..Len(b.planes) :
              /\ v.planes[i].fd = b.planes[i].fd
              /\ v.planes[i].offset = b.planes[i].offset
              /\ v.planes[i].length = b.planes[i].length
              /\ v.planes[i].bytes_used = UsedOf(b, i)
              /\ v.planes[i].data = b.planes[i].offset
              /\ v.planes[i].mapping_base = b.planes[i].fd
              /\ v.planes[i].mapped_length = MappedLength(b, b.planes[i].fd)
<1>1. Len(b.planes) \in Nat
  BY DEF BufferLayout
<1>2. Len([i \in 1..Len(b.planes) |-> PlaneViewOf(b, i)]) = Len(b.planes)
  BY <1>1
<1>3. ASSUME NEW i \in 1..Len(b.planes)
      PROVE  LET x == PlaneViewOf(b, i) IN
             /\ x.fd = b.planes[i].fd
             /\ x.offset = b.planes[i].offset
             /\ x.length = b.planes[i].length
             /\ x.bytes_used = UsedOf(b, i)
             /\ x.data = b.planes[i].offset
             /\ x.mapping_base = b.planes[i].fd
             /\ x.mapped_length = MappedLength(b, b.planes[i].fd)
  <2>1. LET p == b.planes[i] IN
        p.length <= SizeMax - p.offset /\ Size(p.offset + p.length) <= MappedLength(b, p.fd)
    BY MappingCovers
  <2> QED BY <2>1 DEF PlaneViewOf, UsedOf
<1> QED BY <1>2, <1>3 DEF makeView

LEMMA ContainsMeans ==
  ASSUME NEW b \in BufferLayout, Mappable(b), NEW i \in 1..Len(b.planes), NEW n \in Nat
  PROVE  containsBytes(makeView(b).planes[i], n) <=> n <= Held(b, i)
<1> DEFINE x == makeView(b).planes[i]
           p == b.planes[i]
           m == MappedLength(b, p.fd)
<1>1. /\ x.length = p.length /\ x.bytes_used = UsedOf(b, i) /\ x.data = p.offset
      /\ x.mapped_length = m
  BY ViewFields
<1>2. containsBytes(x, n) <=>
        /\ p.offset # Null /\ n <= p.length /\ n <= UsedOf(b, i)
        /\ p.offset <= m /\ n <= m - p.offset
  BY <1>1 DEF containsBytes
<1>3. m \in 0..SizeMax /\ p.offset + p.length <= m
  BY MappingCovers
<1>4. /\ p.offset \in 0..UIntMax /\ p.length \in 0..UIntMax
      /\ n <= p.length /\ n <= UsedOf(b, i) <=> n <= Held(b, i)
  BY PlaneType
<1> HIDE DEF m, x, p
<1>5. n <= p.length => p.offset # Null /\ p.offset <= m /\ n <= m - p.offset
  BY <1>3, <1>4, WidthAssumption DEF Null
<1> QED BY <1>2, <1>4, <1>5 DEF x, p

-----------------------------------------------------------------------------
(* Sizes of a picture whose numbers are even, in quarters. *)
Quarter(w, h) == (w \div 2) * (h \div 2)

LEMMA Halves ==
  ASSUME NEW n \in Nat, n % 2 = 0
  PROVE  n \div 2 \in Nat /\ n = 2 * (n \div 2)
OBVIOUS

LEMMA QuarterMeans ==
  ASSUME NEW w \in Nat, NEW h \in Nat, w % 2 = 0, h % 2 = 0
  PROVE  LET q == Quarter(w, h) IN
         /\ q \in Nat /\ w * h = 4 * q /\ (w * h) \div 4 = q
         /\ (3 * w * h) \div 2 = 6 * q
         /\ ((h * 3) \div 2) * w = 6 * q
<1> DEFINE a == w \div 2
           c == h \div 2
           q == a * c
<1>1. a \in Nat /\ w = 2 * a /\ c \in Nat /\ h = 2 * c
  BY Halves
<1> HIDE DEF a, c
<1>2. q \in Nat
  BY <1>1
<1>3. w * h = 4 * q
  <2>1. (2 * a) * (2 * c) = 4 * (a * c)
    BY <1>1
  <2> QED BY <1>1, <2>1
<1>4. 3 * w * h = 3 * (w * h)
  OBVIOUS
<1>5. (h * 3) \div 2 = 3 * c
  <2>1. h * 3 = 2 * (3 * c)
    BY <1>1
  <2> QED BY <1>1, <2>1
<1>6. (3 * c) * w = 6 * q
  <2>1. (3 * c) * (2 * a) = 6 * (a * c)
    BY <1>1
  <2> QED BY <1>1, <2>1
<1> HIDE DEF q
<1>7. (4 * q) \div 4 = q /\ (3 * (4 * q)) \div 2 = 6 * q
  BY <1>2
<1> QED BY <1>2, <1>3, <1>4, <1>5, <1>6, <1>7 DEF q, a, c, Quarter

Even(w, h) == w % 2 = 0 /\ h % 2 = 0

(* calculateSizes() succeeds exactly when the packed picture can be        *)
(* stored, and then no number wrapped.                                     *)
LEMMA SizesMean ==
  ASSUME NEW v, v.width \in Nat, v.height \in Nat
  PROVE  LET q == Quarter(v.width, v.height) IN
         /\ SizesFit(v) <=>
              /\ v.width > 0 /\ v.height > 0 /\ Even(v.width, v.height)
              /\ 6 * q <= SizeMax
         /\ SizesFit(v) =>
              /\ SizesOf(v).y = 4 * q /\ SizesOf(v).chroma = q /\ SizesOf(v).total = 6 * q
              /\ Size(4 * q + q) = 4 * q + q
<1> DEFINE w == v.width
           h == v.height
           q == Quarter(w, h)
<1>0. w \in Nat /\ h \in Nat
  OBVIOUS
<1>1. SizesFit(v) <=>
        /\ w # 0 /\ h # 0 /\ w % 2 = 0 /\ h % 2 = 0 /\ Multiplies(w, h)
        /\ SizesOf(v).chroma <= (SizeMax - SizesOf(v).y) \div 2
  BY DEF SizesFit
<1>2. /\ SizesOf(v).y = Size(w * h) /\ SizesOf(v).chroma = Size(w * h) \div 4
      /\ SizesOf(v).total = Size(Size(w * h) + 2 * (Size(w * h) \div 4))
  BY DEF SizesOf
<1>3. CASE w > 0 /\ h > 0 /\ Even(w, h)
  <2>1. q \in Nat /\ w * h = 4 * q
    BY <1>3, QuarterMeans DEF Even
  <2>2. Multiplies(w, h) <=> 4 * q <= SizeMax
    BY <1>0, <2>1, MultipliesMeans
  <2> HIDE DEF q
  <2>3. ASSUME 4 * q <= SizeMax
        PROVE  /\ SizesOf(v).y = 4 * q /\ SizesOf(v).chroma = q
               /\ SizesOf(v).total = Size(4 * q + 2 * q)
    <3>1. Size(4 * q) = 4 * q
      BY <2>1, <2>3, SizeSmall
    <3>2. (4 * q) \div 4 = q
      BY <2>1
    <3> QED BY <1>2, <2>1, <3>1, <3>2
  <2>4. 6 * q <= SizeMax => /\ Size(4 * q + 2 * q) = 6 * q /\ Size(4 * q + q) = 4 * q + q
    <3>1. 4 * q + 2 * q = 6 * q
      BY <2>1
    <3>2. 6 * q <= SizeMax => 6 * q \in 0..SizeMax /\ 4 * q + q \in 0..SizeMax
      BY <2>1, WidthAssumption
    <3> QED BY <3>1, <3>2, SizeSmall
  <2>5. 4 * q <= SizeMax => (q <= (SizeMax - 4 * q) \div 2 <=> 6 * q <= SizeMax)
    BY <2>1, WidthAssumption
  <2>6. 6 * q <= SizeMax => 4 * q <= SizeMax
    BY <2>1, WidthAssumption
  <2> QED BY <1>1, <1>3, <2>2, <2>3, <2>4, <2>5, <2>6 DEF Even, q
<1>4. CASE ~(w > 0 /\ h > 0 /\ Even(w, h))
  BY <1>0, <1>1, <1>4 DEF Even
<1> QED BY <1>3, <1>4

(* The bytes from the first to behind the last of the rows. *)
Span(rows, width, stride) == (rows - 1) * stride + width

LEMMA SpanMeans ==
  ASSUME NEW rows \in Nat, NEW width \in Nat, NEW stride \in Nat
  PROVE  LET n == Span(rows, width, stride) IN
         /\ rows > 0 => n \in Nat
         /\ RowSpanFits(rows, width, stride) <=>
              rows > 0 /\ width > 0 /\ stride >= width /\ n <= SizeMax
         /\ RowSpanFits(rows, width, stride) => RowSpan(rows, width, stride) = n
<1>1. CASE rows = 0
  BY <1>1 DEF RowSpanFits
<1>2. CASE rows > 0
  <2> DEFINE m == (rows - 1) * stride
  <2>1. m \in Nat /\ rows - 1 \in Nat
    BY <1>2
  <2>2. Multiplies(rows - 1, stride) <=> m <= SizeMax
    BY <2>1, MultipliesMeans
  <2> HIDE DEF m
  <2>3. m <= SizeMax => Size(m) = m
    BY <2>1, SizeSmall
  <2>4. m + width <= SizeMax => Size(m + width) = m + width /\ m <= SizeMax
    <3>1. m + width <= SizeMax => m + width \in 0..SizeMax /\ m <= SizeMax
      BY <2>1, WidthAssumption
    <3> QED BY <3>1, SizeSmall
  <2>5. m <= SizeMax => (width <= SizeMax - m <=> m + width <= SizeMax)
    BY <2>1, WidthAssumption
  <2>6. Span(rows, width, stride) = m + width
    BY DEF Span, m
  <2>7. RowSpanFits(rows, width, stride) <=>
          width > 0 /\ stride >= width /\ m + width <= SizeMax
    BY <1>2, <2>2, <2>3, <2>4, <2>5 DEF RowSpanFits, m
  <2>8. RowSpanFits(rows, width, stride) => RowSpan(rows, width, stride) = m + width
    BY <2>3, <2>4, <2>7 DEF RowSpan, m
  <2> QED BY <1>2, <2>1, <2>6, <2>7, <2>8
<1> QED BY <1>1, <1>2

(* A sample of the rows is inside of them. *)
LEMMA SampleInSpan ==
  ASSUME NEW rows \in Nat, NEW width \in Nat, NEW stride \in Nat,
         NEW r \in 0..rows-1, NEW c \in 0..width-1
  PROVE  /\ r * stride + c \in Nat /\ r * stride + c < Span(rows, width, stride)
         /\ stride >= width => Span(rows, width, stride) <= rows * stride
<1>1. r * stride <= (rows - 1) * stride /\ r * stride \in Nat /\ (rows - 1) * stride \in Nat
  <2>1. r \in Nat /\ rows - 1 \in Nat /\ r <= rows - 1
    OBVIOUS
  <2> QED BY <2>1, ProductMonotone
<1>2. rows * stride = (rows - 1) * stride + stride
  OBVIOUS
<1> DEFINE m == (rows - 1) * stride
           n == r * stride
<1> HIDE DEF m, n
<1>3. m \in Nat /\ n \in Nat /\ n <= m
  BY <1>1 DEF m, n
<1>4. n + c \in Nat /\ n + c < m + width /\ (stride >= width => m + width <= m + stride)
  BY <1>3
<1> QED BY <1>2, <1>4 DEF m, n, Span

-----------------------------------------------------------------------------
(* The whole picture is in the buffer, and it can be stored packed. *)
ComponentSpan(b, c) ==
  Span(ComponentHeight(b, c), ComponentWidth(b, c), ComponentStride(b, c))

EvenShape(b) ==
  /\ b.width > 0 /\ b.height > 0 /\ b.stride >= b.width
  /\ Even(b.width, b.height) /\ b.stride % 2 = 0

WholePicture(b) ==
  /\ EvenShape(b) /\ 6 * Quarter(b.width, b.height) <= SizeMax
  /\ \/ Len(b.planes) = 1 /\ 6 * Quarter(b.stride, b.height) <= Held(b, 1)
     \/ Len(b.planes) = 3 /\ \A c \in 1..3 : ComponentSpan(b, c) <= Held(b, c)

LEMMA BufferType ==
  ASSUME NEW b \in BufferLayout
  PROVE  /\ b.width \in Nat /\ b.height \in Nat /\ b.stride \in Nat /\ Len(b.planes) \in Nat
         /\ b.planes \in Seq(PlaneLayout) /\ b.frame_size \in 0..UIntMax
BY DEF BufferLayout

LEMMA ComponentType ==
  ASSUME NEW b \in BufferLayout, EvenShape(b), NEW c \in 1..3
  PROVE  LET w == ComponentWidth(b, c)
             h == ComponentHeight(b, c)
             s == ComponentStride(b, c)
         IN /\ w \in Nat /\ h \in Nat /\ s \in Nat /\ w > 0 /\ h > 0 /\ s >= w
            /\ w <= b.width /\ h <= b.height
            /\ w * h = IF c = 1 THEN 4 * Quarter(b.width, b.height)
                                ELSE Quarter(b.width, b.height)
            /\ h * s = IF c = 1 THEN 4 * Quarter(b.stride, b.height)
                                ELSE Quarter(b.stride, b.height)
            /\ ComponentSpan(b, c) \in Nat /\ ComponentSpan(b, c) <= h * s
<1>1. /\ b.width \in Nat /\ b.height \in Nat /\ b.stride \in Nat
      /\ b.width > 0 /\ b.height > 0 /\ b.stride >= b.width
      /\ b.width % 2 = 0 /\ b.height % 2 = 0 /\ b.stride % 2 = 0
  BY BufferType DEF EvenShape, Even
<1> DEFINE w == ComponentWidth(b, c)
           h == ComponentHeight(b, c)
           s == ComponentStride(b, c)
<1>2. /\ w = IF c = 1 THEN b.width ELSE b.width \div 2
      /\ h = IF c = 1 THEN b.height ELSE b.height \div 2
      /\ s = IF c = 1 THEN b.stride ELSE b.stride \div 2
  BY DEF ComponentWidth, ComponentHeight, ComponentStride
<1> HIDE DEF w, h, s
<1>3. /\ w \in Nat /\ h \in Nat /\ s \in Nat /\ w > 0 /\ h > 0 /\ s >= w
      /\ w <= b.width /\ h <= b.height
  BY <1>1, <1>2
<1>4. w * h = IF c = 1 THEN 4 * Quarter(b.width, b.height) ELSE Quarter(b.width, b.height)
  BY <1>1, <1>2, QuarterMeans DEF Quarter
<1>5. h * s = IF c = 1 THEN 4 * Quarter(b.stride, b.height) ELSE Quarter(b.stride, b.height)
  <2>1. h * s = s * h
    BY <1>3
  <2> QED BY <1>1, <1>2, <2>1, QuarterMeans DEF Quarter
<1>6. Span(h, w, s) \in Nat /\ Span(h, w, s) <= h * s
  <2>1. 0 \in 0..h-1 /\ 0 \in 0..w-1
    BY <1>3
  <2> QED BY <1>3, <2>1, SpanMeans, SampleInSpan
<1> QED BY <1>3, <1>4, <1>5, <1>6 DEF w, h, s, ComponentSpan

LEMMA OnePlaneMeans ==
  ASSUME NEW b \in BufferLayout, Mappable(b), EvenShape(b), Len(b.planes) = 1
  PROVE  LET v == makeView(b)
             q == Quarter(b.stride, b.height)
         IN /\ OnePlaneFits(v) <=> 6 * q <= Held(b, 1)
            /\ OnePlaneFits(v) => YBlock(v) = 4 * q /\ ChromaBlock(v) = q
<1> DEFINE v == makeView(b)
           q == Quarter(b.stride, b.height)
           a == b.stride \div 2
           c == b.height \div 2
<1>1. /\ b.height \in Nat /\ b.stride \in Nat /\ b.height % 2 = 0 /\ b.stride % 2 = 0
  BY BufferType DEF EvenShape, Even
<1>2. v.stride = b.stride /\ v.height = b.height
  BY ViewFields
<1>3. q \in Nat /\ b.stride * b.height = 4 * q /\ a \in Nat /\ c \in Nat /\ a * c = q
  BY <1>1, QuarterMeans, Halves DEF Quarter
<1>4. Held(b, 1) \in Nat /\ Held(b, 1) <= SizeMax
  <2>1. 1 \in 1..Len(b.planes)
    OBVIOUS
  <2> QED BY <2>1, PlaneType
<1>5. YBlock(v) = Size(4 * q) /\ ChromaBlock(v) = Size(q)
  BY <1>2, <1>3 DEF YBlock, ChromaBlock
<1>6. Multiplies(b.stride, b.height) <=> 4 * q <= SizeMax
  BY <1>1, <1>3, MultipliesMeans
<1>7. Multiplies(a, c) <=> q <= SizeMax
  BY <1>3, MultipliesMeans
<1>8. ASSUME NEW n \in Nat
      PROVE  containsBytes(v.planes[1], n) <=> n <= Held(b, 1)
  <2>1. 1 \in 1..Len(b.planes)
    OBVIOUS
  <2> QED BY <1>8, <2>1, ContainsMeans
<1>9. OnePlaneFits(v) <=>
        /\ 4 * q <= SizeMax /\ q <= SizeMax /\ Size(q) <= (SizeMax - Size(4 * q)) \div 2
        /\ containsBytes(v.planes[1], Size(4 * q) + 2 * Size(q))
  BY <1>2, <1>5, <1>6, <1>7 DEF OnePlaneFits
<1> HIDE DEF q, a, c
<1>10. 4 * q <= SizeMax => Size(4 * q) = 4 * q /\ Size(q) = q
  <2>1. 4 * q <= SizeMax => 4 * q \in 0..SizeMax /\ q \in 0..SizeMax
    BY <1>3, WidthAssumption
  <2> QED BY <2>1, SizeSmall
<1>11. containsBytes(v.planes[1], 4 * q + 2 * q) <=> 6 * q <= Held(b, 1)
  <2>1. 4 * q + 2 * q \in Nat /\ 4 * q + 2 * q = 6 * q
    BY <1>3
  <2> QED BY <1>8, <2>1
<1>12. /\ 6 * q <= SizeMax => 4 * q <= SizeMax /\ q <= SizeMax
       /\ 4 * q <= SizeMax => (q <= (SizeMax - 4 * q) \div 2 <=> 6 * q <= SizeMax)
       /\ 6 * q <= Held(b, 1) => 6 * q <= SizeMax
  BY <1>3, <1>4, WidthAssumption
<1> QED BY <1>5, <1>9, <1>10, <1>11, <1>12 DEF q

LEMMA CopyableMeans ==
  ASSUME NEW b \in BufferLayout, Mappable(b)
  PROVE  Copyable(makeView(b)) <=> WholePicture(b)
<1> DEFINE v == makeView(b)
<1>1. /\ v.width = b.width /\ v.height = b.height /\ v.stride = b.stride
      /\ Len(v.planes) = Len(b.planes)
  BY ViewFields
<1>2. b.width \in Nat /\ b.height \in Nat /\ b.stride \in Nat
  BY BufferType
<1>3. SizesFit(v) <=> /\ b.width > 0 /\ b.height > 0 /\ Even(b.width, b.height)
                      /\ 6 * Quarter(b.width, b.height) <= SizeMax
  BY <1>1, <1>2, SizesMean
<1> DEFINE w == b.width \div 2
           h == b.height \div 2
           s == b.stride \div 2
           RF == RowSpanFits(b.height, b.width, b.stride) /\ RowSpanFits(h, w, s)
<1>4. Copyable(v) <=>
        /\ SizesFit(v) /\ b.stride >= b.width /\ b.stride % 2 = 0 /\ RF
        /\ \/ Len(b.planes) = 1 /\ OnePlaneFits(v)
           \/ /\ Len(b.planes) = 3
              /\ containsBytes(v.planes[1], RowSpan(b.height, b.width, b.stride))
              /\ \A i \in 2..3 : containsBytes(v.planes[i], RowSpan(h, w, s))
  BY <1>1 DEF Copyable
<1>5. SizesFit(v) /\ b.stride >= b.width /\ b.stride % 2 = 0
        <=> EvenShape(b) /\ 6 * Quarter(b.width, b.height) <= SizeMax
  BY <1>3 DEF EvenShape
<1> SUFFICES ASSUME EvenShape(b)
             PROVE  RF /\ ( \/ Len(b.planes) = 1 /\ OnePlaneFits(v)
                            \/ /\ Len(b.planes) = 3
                               /\ containsBytes(v.planes[1], RowSpan(b.height, b.width, b.stride))
                               /\ \A i \in 2..3 : containsBytes(v.planes[i], RowSpan(h, w, s)) )
                    <=> ( \/ Len(b.planes) = 1 /\ 6 * Quarter(b.stride, b.height) <= Held(b, 1)
                          \/ Len(b.planes) = 3
                               /\ \A c \in 1..3 : ComponentSpan(b, c) <= Held(b, c) )
  BY <1>4, <1>5 DEF WholePicture
<1>6. /\ ComponentSpan(b, 1) = Span(b.height, b.width, b.stride)
      /\ ComponentSpan(b, 2) = Span(h, w, s) /\ ComponentSpan(b, 3) = Span(h, w, s)
  BY DEF ComponentSpan, ComponentWidth, ComponentHeight, ComponentStride
<1>7. /\ h \in Nat /\ w \in Nat /\ s \in Nat /\ h > 0 /\ w > 0 /\ s >= w
      /\ ComponentSpan(b, 1) \in Nat /\ ComponentSpan(b, 2) \in Nat
      /\ ComponentSpan(b, 1) <= 4 * Quarter(b.stride, b.height)
      /\ ComponentSpan(b, 2) <= Quarter(b.stride, b.height)
  <2>1. 1 \in 1..3 /\ 2 \in 1..3
    OBVIOUS
  <2>2. ComponentWidth(b, 2) = w /\ ComponentHeight(b, 2) = h /\ ComponentStride(b, 2) = s
    BY DEF ComponentWidth, ComponentHeight, ComponentStride
  <2> HIDE DEF w, h, s
  <2> QED BY <2>1, <2>2, ComponentType
<1>8. b.width > 0 /\ b.height > 0 /\ b.stride >= b.width
  BY DEF EvenShape
<1> HIDE DEF w, h, s
<1>9. /\ RowSpanFits(b.height, b.width, b.stride) <=> ComponentSpan(b, 1) <= SizeMax
      /\ RowSpanFits(b.height, b.width, b.stride) =>
           RowSpan(b.height, b.width, b.stride) = ComponentSpan(b, 1)
  <2>1. /\ RowSpanFits(b.height, b.width, b.stride) <=>
             /\ b.height > 0 /\ b.width > 0 /\ b.stride >= b.width
             /\ Span(b.height, b.width, b.stride) <= SizeMax
        /\ RowSpanFits(b.height, b.width, b.stride) =>
             RowSpan(b.height, b.width, b.stride) = Span(b.height, b.width, b.stride)
    BY <1>2, SpanMeans
  <2> QED BY <1>6, <1>8, <2>1
<1>10. /\ RowSpanFits(h, w, s) <=> ComponentSpan(b, 2) <= SizeMax
       /\ RowSpanFits(h, w, s) => RowSpan(h, w, s) = ComponentSpan(b, 2)
  <2>1. /\ RowSpanFits(h, w, s) <=> h > 0 /\ w > 0 /\ s >= w /\ Span(h, w, s) <= SizeMax
        /\ RowSpanFits(h, w, s) => RowSpan(h, w, s) = Span(h, w, s)
    BY <1>7, SpanMeans
  <2> QED BY <1>6, <1>7, <2>1
<1>11. RF <=> ComponentSpan(b, 1) <= SizeMax /\ ComponentSpan(b, 2) <= SizeMax
  BY <1>9, <1>10
<1>12. RF => /\ RowSpan(b.height, b.width, b.stride) = ComponentSpan(b, 1)
             /\ RowSpan(h, w, s) = ComponentSpan(b, 2)
  BY <1>9, <1>10
<1> HIDE DEF RF
<1>13. CASE Len(b.planes) = 1
  <2>1. OnePlaneFits(v) <=> 6 * Quarter(b.stride, b.height) <= Held(b, 1)
    BY <1>13, OnePlaneMeans
  <2>2. Held(b, 1) \in Nat /\ Held(b, 1) <= SizeMax
    <3>1. 1 \in 1..Len(b.planes)
      BY <1>13
    <3> QED BY <3>1, PlaneType
  <2>3. Quarter(b.stride, b.height) \in Nat
    BY <1>2, QuarterMeans DEF EvenShape, Even
  <2>4. 6 * Quarter(b.stride, b.height) <= Held(b, 1) => RF
    BY <1>7, <1>11, <2>2, <2>3, WidthAssumption
  <2> QED BY <1>13, <2>1, <2>4
<1>14. CASE Len(b.planes) = 3
  <2>0. 1 \in 1..Len(b.planes) /\ 2 \in 1..Len(b.planes) /\ 3 \in 1..Len(b.planes)
    BY <1>14
  <2>1. ASSUME NEW i \in 1..Len(b.planes), NEW n \in Nat
        PROVE  (containsBytes(v.planes[i], n) <=> n <= Held(b, i))
               /\ (n <= Held(b, i) => n <= SizeMax)
    <3>1. Held(b, i) \in Nat /\ Held(b, i) <= SizeMax
      BY PlaneType
    <3> QED BY <2>1, <3>1, ContainsMeans, WidthAssumption
  <2> HIDE DEF v
  <2>2. /\ containsBytes(v.planes[1], ComponentSpan(b, 1)) <=> ComponentSpan(b, 1) <= Held(b, 1)
        /\ containsBytes(v.planes[2], ComponentSpan(b, 2)) <=> ComponentSpan(b, 2) <= Held(b, 2)
        /\ containsBytes(v.planes[3], ComponentSpan(b, 2)) <=> ComponentSpan(b, 2) <= Held(b, 3)
        /\ ComponentSpan(b, 1) <= Held(b, 1) => ComponentSpan(b, 1) <= SizeMax
        /\ ComponentSpan(b, 2) <= Held(b, 2) => ComponentSpan(b, 2) <= SizeMax
    BY <1>7, <2>0, <2>1
  <2>3. 1..3 = {1, 2, 3} /\ 2..3 = {2, 3}
    OBVIOUS
  <2>4. (\A c \in 1..3 : ComponentSpan(b, c) <= Held(b, c)) <=>
          /\ ComponentSpan(b, 1) <= Held(b, 1) /\ ComponentSpan(b, 2) <= Held(b, 2)
          /\ ComponentSpan(b, 2) <= Held(b, 3)
    BY <1>6, <2>3
  <2>5. ASSUME NEW n
        PROVE  (\A i \in 2..3 : containsBytes(v.planes[i], n)) <=>
               containsBytes(v.planes[2], n) /\ containsBytes(v.planes[3], n)
    BY <2>3
  <2> QED BY <1>11, <1>12, <1>14, <2>2, <2>4, <2>5
<1> QED BY <1>13, <1>14

LEMMA SampleMeans ==
  ASSUME NEW b \in BufferLayout, EvenShape(b)
  PROVE  /\ \A c \in 1..3 : \A r \in 0..ComponentHeight(b, c)-1, x \in 0..ComponentWidth(b, c)-1 :
              <<c, r, x>> \in Samples(b)
         /\ \A s \in Samples(b) :
              /\ s = <<s[1], s[2], s[3]>> /\ s[1] \in 1..3
              /\ s[2] \in 0..ComponentHeight(b, s[1])-1 /\ s[3] \in 0..ComponentWidth(b, s[1])-1
<1>1. ASSUME NEW c \in 1..3, NEW r \in 0..ComponentHeight(b, c)-1,
             NEW x \in 0..ComponentWidth(b, c)-1
      PROVE  <<c, r, x>> \in Samples(b)
  <2> DEFINE w == ComponentWidth(b, c)
             h == ComponentHeight(b, c)
  <2>1. w \in Nat /\ h \in Nat /\ w <= b.width /\ h <= b.height
    BY ComponentType
  <2>2. b.width \in Nat /\ b.height \in Nat
    BY BufferType
  <2>3. r \in 0..h-1 /\ x \in 0..w-1
    OBVIOUS
  <2> HIDE DEF w, h
  <2>4. r \in 0..b.height-1 /\ x \in 0..b.width-1 /\ r < h /\ x < w
    BY <2>1, <2>2, <2>3
  <2> QED BY <2>4 DEF Samples, w, h
<1>2. ASSUME NEW s \in Samples(b)
      PROVE  /\ s = <<s[1], s[2], s[3]>> /\ s[1] \in 1..3
             /\ s[2] \in 0..ComponentHeight(b, s[1])-1 /\ s[3] \in 0..ComponentWidth(b, s[1])-1
  <2> DEFINE c == s[1]
             w == ComponentWidth(b, c)
             h == ComponentHeight(b, c)
  <2>1. /\ s = <<s[1], s[2], s[3]>> /\ c \in 1..3 /\ s[2] \in 0..b.height-1
        /\ s[3] \in 0..b.width-1 /\ s[2] < h /\ s[3] < w
    BY DEF Samples
  <2>2. w \in Nat /\ h \in Nat
    BY <2>1, ComponentType
  <2> HIDE DEF w, h
  <2>3. s[2] \in 0..h-1 /\ s[3] \in 0..w-1
    BY <2>1, <2>2, BufferType
  <2> QED BY <2>1, <2>3 DEF w, h
<1> QED BY <1>1, <1>2

LEMMA BlocksMean ==
  ASSUME NEW b \in BufferLayout, EvenShape(b), Len(b.planes) \in {1, 3}, NEW c \in 1..3
  PROVE  LET q == Quarter(b.stride, b.height) IN
         /\ q \in Nat
         /\ BlockStart(b, c) = IF Len(b.planes) = 3 \/ c = 1 THEN 0
                               ELSE IF c = 2 THEN 4 * q ELSE 5 * q
         /\ PlaneOf(b, c) = IF Len(b.planes) = 3 THEN c ELSE 1
         /\ PlaneOf(b, c) \in 1..Len(b.planes)
<1> DEFINE q == Quarter(b.stride, b.height)
           y == b.stride * b.height
<1>1. /\ b.height \in Nat /\ b.stride \in Nat /\ b.height % 2 = 0 /\ b.stride % 2 = 0
  BY BufferType DEF EvenShape, Even
<1>2. q \in Nat /\ y = 4 * q /\ y \div 4 = q
  BY <1>1, QuarterMeans
<1> HIDE DEF q, y
<1>3. y + y \div 4 = 5 * q
  BY <1>2
<1>4. c = 1 \/ c = 2 \/ c = 3
  OBVIOUS
<1>5. BlockStart(b, c) =
        CASE Len(b.planes) # 1 \/ c = 1 -> 0
          [] Len(b.planes) = 1 /\ c = 2 -> y
          [] Len(b.planes) = 1 /\ c = 3 -> y + y \div 4
  BY DEF BlockStart, y
<1>6. BlockStart(b, c) = IF Len(b.planes) = 3 \/ c = 1 THEN 0
                         ELSE IF c = 2 THEN 4 * q ELSE 5 * q
  BY <1>2, <1>3, <1>4, <1>5
<1>7. PlaneOf(b, c) = IF Len(b.planes) = 3 THEN c ELSE 1
  BY DEF PlaneOf
<1>8. PlaneOf(b, c) \in 1..Len(b.planes)
  <2>1. CASE Len(b.planes) = 1
    BY <1>7, <2>1
  <2>2. CASE Len(b.planes) = 3
    BY <1>7, <2>2
  <2> QED BY <2>1, <2>2
<1> QED BY <1>2, <1>6, <1>7, <1>8 DEF q

(* Where the samples of a component are: between the start of its block    *)
(* and the end of its span.                                                *)
LEMMA SampleOffset ==
  ASSUME NEW b \in BufferLayout, EvenShape(b), Len(b.planes) \in {1, 3}, NEW s \in Samples(b)
  PROVE  /\ s[1] \in 1..3 /\ BlockStart(b, s[1]) \in Nat /\ OffsetOf(b, s) \in Nat
         /\ OffsetOf(b, s) < BlockStart(b, s[1]) + ComponentSpan(b, s[1])
         /\ ComponentSpan(b, s[1]) \in Nat
         /\ s[2] * ComponentStride(b, s[1]) + s[3] \in Nat
         /\ s[2] * ComponentStride(b, s[1]) + s[3] < ComponentSpan(b, s[1])
         /\ OffsetOf(b, s) =
              BlockStart(b, s[1]) + (s[2] * ComponentStride(b, s[1]) + s[3])
<1> DEFINE c == s[1]
           w == ComponentWidth(b, c)
           h == ComponentHeight(b, c)
           t == ComponentStride(b, c)
           k == BlockStart(b, c)
<1>1. c \in 1..3 /\ s[2] \in 0..h-1 /\ s[3] \in 0..w-1
  BY SampleMeans
<1>2. w \in Nat /\ h \in Nat /\ t \in Nat
  BY <1>1, ComponentType
<1>3. k \in Nat
  BY <1>1, BlocksMean
<1>4. OffsetOf(b, s) = k + s[2] * t + s[3] /\ ComponentSpan(b, c) = Span(h, w, t)
  BY DEF OffsetOf, ComponentSpan
<1> HIDE DEF c, w, h, t, k
<1>5. s[2] * t + s[3] \in Nat /\ s[2] * t + s[3] < Span(h, w, t)
  BY <1>1, <1>2, SampleInSpan
<1>6. Span(h, w, t) \in Nat /\ s[2] * t \in Nat
  <2>1. h > 0 /\ s[2] \in Nat
    BY <1>1, <1>2
  <2>2. Span(h, w, t) \in Nat
    BY <1>2, <2>1, SpanMeans
  <2>3. \A m, n \in Nat : m * n \in Nat
    OBVIOUS
  <2> QED BY <1>2, <2>1, <2>2, <2>3
<1>7. k + s[2] * t + s[3] = k + (s[2] * t + s[3])
  BY <1>1, <1>3, <1>6
<1> QED BY <1>1, <1>3, <1>4, <1>5, <1>6, <1>7 DEF c, w, h, t, k

LEMMA HoldsPictureMeans ==
  ASSUME NEW b \in BufferLayout
  PROVE  HoldsPicture(b) <=> WholePicture(b)
<1> DEFINE q == Quarter(b.width, b.height)
           z == Quarter(b.stride, b.height)
<1>1. b.width \in Nat /\ b.height \in Nat /\ b.stride \in Nat
  BY BufferType
<1>2. HoldsPicture(b) <=>
        /\ Len(b.planes) \in {1, 3} /\ EvenShape(b) /\ PackedSize(b) <= SizeMax
        /\ \A s \in Samples(b) : Holds(b, PlaneOf(b, s[1]), OffsetOf(b, s))
        /\ Len(b.planes) = 1 => Holds(b, 1, (3 * b.stride * b.height) \div 2 - 1)
  BY DEF HoldsPicture, EvenShape, Even
<1>3. WholePicture(b) => Len(b.planes) \in {1, 3} /\ EvenShape(b)
  BY DEF WholePicture
<1> SUFFICES ASSUME Len(b.planes) \in {1, 3}, EvenShape(b)
             PROVE  HoldsPicture(b) <=> WholePicture(b)
  BY <1>2, <1>3
<1>4. PackedSize(b) = 6 * q
  BY <1>1, QuarterMeans DEF PackedSize, EvenShape, Even
<1>5. z \in Nat /\ (3 * b.stride * b.height) \div 2 = 6 * z /\ z > 0
  <2>1. z \in Nat /\ (3 * b.stride * b.height) \div 2 = 6 * z /\ b.stride * b.height = 4 * z
    BY <1>1, QuarterMeans DEF EvenShape, Even
  <2>2. b.stride * b.height > 0
    BY <1>1 DEF EvenShape
  <2> QED BY <2>1, <2>2
<1> HIDE DEF z, q
<1>6. CASE Len(b.planes) = 1
  <2>1. 1 \in 1..Len(b.planes)
    BY <1>6
  <2>2. Held(b, 1) \in Nat /\ \A n \in Nat : Holds(b, 1, n) <=> n < Held(b, 1)
    BY <2>1, PlaneType
  <2>3. Holds(b, 1, (3 * b.stride * b.height) \div 2 - 1) <=> 6 * z <= Held(b, 1)
    <3>1. 6 * z - 1 \in Nat
      BY <1>5
    <3> QED BY <1>5, <2>2, <3>1
  <2>4. ASSUME 6 * z <= Held(b, 1), NEW s \in Samples(b)
        PROVE  Holds(b, PlaneOf(b, s[1]), OffsetOf(b, s))
    <3> DEFINE c == s[1]
    <3>1. /\ c \in 1..3 /\ OffsetOf(b, s) \in Nat
          /\ OffsetOf(b, s) < BlockStart(b, c) + ComponentSpan(b, c)
      BY SampleOffset
    <3>2. BlockStart(b, c) = (IF c = 1 THEN 0 ELSE IF c = 2 THEN 4 * z ELSE 5 * z)
          /\ PlaneOf(b, c) = 1
      <4>1. /\ BlockStart(b, c) = IF Len(b.planes) = 3 \/ c = 1 THEN 0
                                  ELSE IF c = 2 THEN 4 * z ELSE 5 * z
            /\ PlaneOf(b, c) = IF Len(b.planes) = 3 THEN c ELSE 1
        BY <3>1, BlocksMean DEF z
      <4> QED BY <1>6, <4>1
    <3>3. ComponentSpan(b, c) \in Nat /\ ComponentSpan(b, c) <= IF c = 1 THEN 4 * z ELSE z
      BY <3>1, ComponentType DEF z
    <3> HIDE DEF c
    <3>4. OffsetOf(b, s) < Held(b, 1)
      BY <1>5, <2>2, <2>4, <3>1, <3>2, <3>3
    <3> QED BY <2>2, <3>1, <3>2, <3>4 DEF c
  <2> QED BY <1>2, <1>4, <1>6, <2>3, <2>4 DEF WholePicture, z, q
<1>7. CASE Len(b.planes) = 3
  <2>1. ASSUME NEW c \in 1..3
        PROVE  /\ Held(b, c) \in Nat /\ \A n \in Nat : Holds(b, c, n) <=> n < Held(b, c)
               /\ PlaneOf(b, c) = c /\ BlockStart(b, c) = 0
    <3>1. c \in 1..Len(b.planes)
      BY <1>7
    <3> QED BY <1>7, <3>1, PlaneType, BlocksMean
  <2>2. ASSUME NEW c \in 1..3, ComponentSpan(b, c) <= Held(b, c),
               NEW s \in Samples(b), s[1] = c
        PROVE  Holds(b, PlaneOf(b, s[1]), OffsetOf(b, s))
    <3>1. /\ OffsetOf(b, s) \in Nat /\ ComponentSpan(b, c) \in Nat
          /\ OffsetOf(b, s) < BlockStart(b, c) + ComponentSpan(b, c)
      BY <2>2, SampleOffset
    <3>2. OffsetOf(b, s) < Held(b, c)
      BY <2>1, <2>2, <3>1
    <3> QED BY <2>1, <2>2, <3>1, <3>2
  <2>3. ASSUME NEW c \in 1..3,
               \A s \in Samples(b) : Holds(b, PlaneOf(b, s[1]), OffsetOf(b, s))
        PROVE  ComponentSpan(b, c) <= Held(b, c)
    <3> DEFINE w == ComponentWidth(b, c)
               h == ComponentHeight(b, c)
               t == ComponentStride(b, c)
               s == <<c, h - 1, w - 1>>
    <3>1. w \in Nat /\ h \in Nat /\ t \in Nat /\ w > 0 /\ h > 0
      BY ComponentType
    <3> HIDE DEF w, h, t
    <3>2. h - 1 \in 0..h-1 /\ w - 1 \in 0..w-1
      BY <3>1
    <3>3. s \in Samples(b)
      BY <3>2, SampleMeans DEF w, h
    <3>4. s[1] = c /\ s[2] = h - 1 /\ s[3] = w - 1
      OBVIOUS
    <3>5. /\ OffsetOf(b, s) = BlockStart(b, s[1]) + (s[2] * ComponentStride(b, s[1]) + s[3])
          /\ OffsetOf(b, s) \in Nat /\ s[2] * ComponentStride(b, s[1]) + s[3] \in Nat
      BY <3>3, SampleOffset
    <3> DEFINE n == (h - 1) * t + (w - 1)
    <3>6. OffsetOf(b, s) = n /\ n \in Nat
      <4>1. s[2] * ComponentStride(b, s[1]) + s[3] = n
        BY <3>4 DEF t
      <4> HIDE DEF s, n
      <4> QED BY <2>1, <3>4, <3>5, <4>1
    <3>7. Holds(b, c, OffsetOf(b, s))
      <4> HIDE DEF s
      <4> QED BY <2>1, <2>3, <3>3, <3>4
    <3>8. ComponentSpan(b, c) = n + 1
      <4>1. ComponentSpan(b, c) = (h - 1) * t + w /\ (h - 1) * t \in Nat
        BY <3>1 DEF ComponentSpan, Span, w, h, t
      <4> QED BY <3>1, <4>1
    <3> HIDE DEF n, s
    <3> QED BY <2>1, <3>6, <3>7, <3>8
  <2> QED BY <1>2, <1>4, <1>7, <2>2, <2>3, SampleOffset DEF WholePicture, q
<1> QED BY <1>6, <1>7

-----------------------------------------------------------------------------
(* The bytes read. *)

(* Where a component begins in a packed picture. *)
PackedStart(b, c) ==
  IF c = 1 THEN 0
  ELSE IF c = 2 THEN 4 * Quarter(b.width, b.height) ELSE 5 * Quarter(b.width, b.height)

LEMMA PackedMeans ==
  ASSUME NEW b \in BufferLayout, EvenShape(b), NEW s \in Samples(b)
  PROVE  LET c == s[1]
             n == s[2] * ComponentWidth(b, c) + s[3]
         IN /\ PackedIndex(b, s) = PackedStart(b, c) + (1 + n)
            /\ n \in Nat /\ n < ComponentWidth(b, c) * ComponentHeight(b, c)
            /\ 1 + n \in 1..(ComponentHeight(b, c) * ComponentWidth(b, c))
<1> DEFINE c == s[1]
           w == ComponentWidth(b, c)
           h == ComponentHeight(b, c)
           q == Quarter(b.width, b.height)
           y == b.width * b.height
           m == s[2] * w
<1>1. c \in 1..3 /\ s[2] \in 0..h-1 /\ s[3] \in 0..w-1
  BY SampleMeans
<1>2. w \in Nat /\ h \in Nat
  BY <1>1, ComponentType
<1>3. q \in Nat /\ y = 4 * q /\ y \div 4 = q
  BY BufferType, QuarterMeans DEF EvenShape, Even
<1>4. PackedIndex(b, s) =
        1 + (CASE c = 1 -> 0 [] c = 2 -> y [] c = 3 -> y + y \div 4) + m + s[3]
  BY DEF PackedIndex
<1> HIDE DEF c, w, h, q, y, m
<1>5. m \in Nat
  <2>1. \A i, j \in Nat : i * j \in Nat
    OBVIOUS
  <2>2. s[2] \in Nat
    BY <1>1, <1>2
  <2> QED BY <1>2, <2>1, <2>2 DEF m
<1>6. m + s[3] \in Nat /\ m + s[3] < h * w
  <2>0. h > 0 /\ w >= w
    BY <1>1, <1>2
  <2>1. /\ m + s[3] \in Nat /\ m + s[3] < Span(h, w, w)
        /\ w >= w => Span(h, w, w) <= h * w
    BY <1>1, <1>2, SampleInSpan DEF m
  <2>2. Span(h, w, w) \in Nat
    BY <1>2, <2>0, SpanMeans
  <2>3. h * w \in Nat
    BY <1>2
  <2> QED BY <2>0, <2>1, <2>2, <2>3
<1>7. h * w = w * h /\ h * w \in Nat
  BY <1>2
<1>8. c = 1 \/ c = 2 \/ c = 3
  BY <1>1
<1>9. (CASE c = 1 -> 0 [] c = 2 -> y [] c = 3 -> y + y \div 4)
        = IF c = 1 THEN 0 ELSE IF c = 2 THEN 4 * q ELSE 5 * q
  BY <1>3, <1>8
<1>10. PackedIndex(b, s) = PackedStart(b, c) + (1 + (m + s[3]))
  <2>1. s[3] \in Nat /\ PackedStart(b, c) \in Nat
    BY <1>1, <1>2, <1>3 DEF PackedStart, q
  <2>2. PackedIndex(b, s) = 1 + PackedStart(b, c) + m + s[3]
    BY <1>4, <1>9 DEF PackedStart, q
  <2> QED BY <1>5, <2>1, <2>2
<1>11. 1 + (m + s[3]) \in 1..(h * w)
  BY <1>6, <1>7
<1> QED BY <1>6, <1>7, <1>10, <1>11 DEF c, w, h, m

(* The rows of a component, packed. *)
Part(b, c) ==
  LET p == b.planes[PlaneOf(b, c)] IN
  copyRows(<<p.fd, p.offset + BlockStart(b, c)>>,
           ComponentHeight(b, c), ComponentWidth(b, c), ComponentStride(b, c))

LEMMA PartBytes ==
  ASSUME NEW b \in BufferLayout, EvenShape(b), Len(b.planes) \in {1, 3}, NEW c \in 1..3
  PROVE  LET n == ComponentHeight(b, c) * ComponentWidth(b, c)
             w == ComponentWidth(b, c)
         IN /\ n \in Nat /\ Len(Part(b, c)) = n /\ Part(b, c) \in Seq(Fds \X Nat)
            /\ \A s \in Samples(b) : s[1] = c =>
                 Part(b, c)[1 + (s[2] * w + s[3])] = ByteOf(b, s)
            /\ \A k \in 1..n : \E s \in Samples(b) : s[1] = c /\ Part(b, c)[k] = ByteOf(b, s)
<1> DEFINE w == ComponentWidth(b, c)
           h == ComponentHeight(b, c)
           t == ComponentStride(b, c)
           n == h * w
           p == b.planes[PlaneOf(b, c)]
           g == BlockStart(b, c)
           f == [k \in 1..n |-> <<p.fd, p.offset + g + ((k - 1) \div w) * t + ((k - 1) % w)>>]
<1>1. w \in Nat \ {0} /\ h \in Nat \ {0} /\ t \in Nat
  BY ComponentType
<1>2. n \in Nat
  BY <1>1
<1>3. Part(b, c) = f
  BY DEF Part, copyRows
<1>4. g \in Nat
  BY BlocksMean
<1>5. p.fd \in Fds /\ p.offset \in Nat
  <2>1. PlaneOf(b, c) \in 1..Len(b.planes)
    BY BlocksMean
  <2>2. p.fd \in Fds /\ p.offset \in 0..UIntMax
    BY <2>1, PlaneType
  <2> QED BY <2>2, WidthAssumption
<1>6. ASSUME NEW s \in Samples(b), s[1] = c
      PROVE  /\ s[2] \in 0..h-1 /\ s[3] \in 0..w-1
             /\ ByteOf(b, s) = <<p.fd, p.offset + (g + s[2] * t + s[3])>>
  <2>1. s[2] \in 0..h-1 /\ s[3] \in 0..w-1
    BY <1>6, SampleMeans
  <2> QED BY <1>6, <2>1 DEF ByteOf, OffsetOf
<1>7. ASSUME NEW r \in 0..h-1, NEW x \in 0..w-1 PROVE <<c, r, x>> \in Samples(b)
  BY SampleMeans
<1> HIDE DEF w, h, t, p, g
<1>8. ASSUME NEW r \in Nat, NEW x \in 0..w-1, r * w + x < n
      PROVE  /\ 1 + (r * w + x) \in 1..n
             /\ f[1 + (r * w + x)] = <<p.fd, p.offset + (g + r * t + x)>>
  <2> DEFINE k == 1 + (r * w + x)
  <2>1. (r * w + x) \div w = r /\ (r * w + x) % w = x /\ r * w + x \in Nat
    BY <1>1, QuotientUnique
  <2>2. k - 1 = r * w + x /\ k \in 1..n
    BY <1>2, <1>8, <2>1
  <2> HIDE DEF k
  <2>3. f[k] = <<p.fd, p.offset + g + r * t + x>>
    BY <2>1, <2>2
  <2>4. r * t \in Nat
    BY <1>1
  <2>5. p.offset + g + r * t + x = p.offset + (g + r * t + x)
    BY <1>1, <1>4, <1>5, <2>4
  <2> QED BY <2>2, <2>3, <2>5 DEF k
<1>9. ASSUME NEW s \in Samples(b), s[1] = c
      PROVE  f[1 + (s[2] * w + s[3])] = ByteOf(b, s)
  <2>1. s[2] \in 0..h-1 /\ s[3] \in 0..w-1 /\ s[2] \in Nat
    BY <1>1, <1>6, <1>9
  <2>2. s[2] * w + s[3] < n
    <3>1. s[2] * w + s[3] < w * h
      BY <1>9, PackedMeans DEF w, h
    <3>2. w * h = n
      BY <1>1
    <3> QED BY <3>1, <3>2
  <2> QED BY <1>6, <1>8, <1>9, <2>1, <2>2
<1>10. ASSUME NEW k \in 1..n
       PROVE  \E s \in Samples(b) : s[1] = c /\ f[k] = ByteOf(b, s)
  <2> DEFINE r == (k - 1) \div w
             x == (k - 1) % w
  <2>1. k - 1 \in Nat /\ k - 1 < n
    BY <1>2
  <2>2. r \in Nat /\ x \in 0..w-1 /\ k - 1 = r * w + x
    BY <1>1, <2>1, Division
  <2> HIDE DEF r, x
  <2>3. r \in 0..h-1
    <3> SUFFICES ASSUME h <= r PROVE FALSE
      BY <1>1, <2>2
    <3>1. h * w <= r * w /\ r * w \in Nat
      BY <1>1, <2>2, ProductMonotone
    <3> QED BY <1>2, <2>1, <2>2, <3>1
  <2> DEFINE s == <<c, r, x>>
  <2>4. s \in Samples(b) /\ s[1] = c /\ s[2] = r /\ s[3] = x
    BY <1>7, <2>2, <2>3
  <2> HIDE DEF s
  <2>5. f[k] = <<p.fd, p.offset + (g + r * t + x)>>
    <3>1. r * w + x < n /\ 1 + (r * w + x) = k
      <4>1. 1 + (k - 1) = k
        OBVIOUS
      <4> QED BY <2>1, <2>2, <4>1
    <3> HIDE DEF f
    <3> QED BY <1>8, <2>2, <3>1
  <2>6. ByteOf(b, s) = <<p.fd, p.offset + (g + r * t + x)>>
    BY <1>6, <2>4
  <2> QED BY <2>4, <2>5, <2>6
<1>11. f \in Seq(Fds \X Nat) /\ Len(f) = n
  <2>1. ASSUME NEW k \in 1..n PROVE f[k] \in Fds \X Nat
    <3>1. PICK s \in Samples(b) : s[1] = c /\ f[k] = ByteOf(b, s)
      BY <1>10
    <3>2. ByteOf(b, s) = <<p.fd, p.offset + OffsetOf(b, s)>>
      BY <3>1 DEF ByteOf, p
    <3>3. OffsetOf(b, s) \in Nat
      BY SampleOffset
    <3> QED BY <1>5, <3>1, <3>2, <3>3
  <2>2. f \in [1..n -> Fds \X Nat]
    BY <2>1
  <2> HIDE DEF f
  <2> QED BY <1>2, <2>2
<1> QED BY <1>2, <1>3, <1>9, <1>10, <1>11 DEF w, h

LEMMA Joined ==
  ASSUME NEW S, NEW x \in Seq(S), NEW y \in Seq(S), NEW z \in Seq(S),
         NEW j, j = x \o y \o z
  PROVE  /\ j \in Seq(S) /\ Len(j) = Len(x) + Len(y) + Len(z)
         /\ \A k \in 1..Len(x) : j[k] = x[k]
         /\ \A k \in 1..Len(y) : j[Len(x) + k] = y[k]
         /\ \A k \in 1..Len(z) : j[Len(x) + Len(y) + k] = z[k]
<1> DEFINE i == x \o y
<1>0. j = i \o z
  OBVIOUS
<1>1. i \in Seq(S) /\ Len(i) = Len(x) + Len(y) /\ Len(x) \in Nat /\ Len(y) \in Nat
  OBVIOUS
<1>2. \A k \in 1..Len(x) : i[k] = x[k] /\ k \in 1..Len(i)
  OBVIOUS
<1>3. \A k \in 1..Len(y) : i[Len(x) + k] = y[k] /\ Len(x) + k \in 1..Len(i)
  OBVIOUS
<1> HIDE DEF i
<1>4. j \in Seq(S) /\ Len(j) = Len(i) + Len(z) /\ Len(z) \in Nat
  <2>1. i \in Seq(S) /\ z \in Seq(S)
    BY <1>1
  <2>2. i \o z \in Seq(S) /\ Len(i \o z) = Len(i) + Len(z)
    BY <2>1, ConcatProperties
  <2>3. Len(z) \in Nat
    OBVIOUS
  <2> QED BY <1>0, <2>2, <2>3
<1>5. \A k \in 1..Len(i) : j[k] = i[k]
  BY <1>0, <1>1
<1>6. \A k \in 1..Len(z) : j[Len(i) + k] = z[k]
  BY <1>0, <1>1
<1> QED BY <1>1, <1>2, <1>3, <1>4, <1>5, <1>6

LEMMA CopyIsParts ==
  ASSUME NEW b \in BufferLayout, Mappable(b), WholePicture(b)
  PROVE  copyMappedI420(makeView(b)) = Part(b, 1) \o Part(b, 2) \o Part(b, 3)
<1> DEFINE v == makeView(b)
           z == Quarter(b.stride, b.height)
           At(i, n) == <<v.planes[i].mapping_base, v.planes[i].data + n>>
<1>1. EvenShape(b) /\ Len(b.planes) \in {1, 3} /\ Len(b.planes) \in Nat
  BY DEF WholePicture
<1>2. /\ v.width = b.width /\ v.height = b.height /\ v.stride = b.stride
      /\ Len(v.planes) = Len(b.planes)
  BY ViewFields
<1>3. ASSUME NEW i \in 1..Len(b.planes), NEW n \in Nat
      PROVE  At(i, n) = <<b.planes[i].fd, b.planes[i].offset + n>>
  <2>1. v.planes[i].mapping_base = b.planes[i].fd /\ v.planes[i].data = b.planes[i].offset
    BY ViewFields
  <2> QED BY <2>1
<1>4. ASSUME NEW c \in 1..3
      PROVE  /\ BlockStart(b, c) = IF Len(b.planes) = 3 \/ c = 1 THEN 0
                                   ELSE IF c = 2 THEN 4 * z ELSE 5 * z
             /\ PlaneOf(b, c) = IF Len(b.planes) = 3 THEN c ELSE 1
             /\ PlaneOf(b, c) \in 1..Len(b.planes) /\ BlockStart(b, c) \in Nat /\ z \in Nat
  BY <1>1, BlocksMean
<1>5. 1 \in 1..3 /\ 2 \in 1..3 /\ 3 \in 1..3
  OBVIOUS
<1>6. Len(b.planes) = 1 => YBlock(v) = 4 * z /\ ChromaBlock(v) = z
  <2> SUFFICES ASSUME Len(b.planes) = 1 PROVE YBlock(v) = 4 * z /\ ChromaBlock(v) = z
    OBVIOUS
  <2>1. 6 * z <= Held(b, 1)
    BY DEF WholePicture
  <2> QED BY <1>1, <2>1, OnePlaneMeans
<1> DEFINE one == Len(b.planes) = 1
           C(source) == copyRows(source, b.height \div 2, b.width \div 2, b.stride \div 2)
<1>7. copyMappedI420(v) =
        copyRows(At(1, 0), b.height, b.width, b.stride)
          \o C(IF one THEN At(1, YBlock(v)) ELSE At(2, 0))
          \o C(IF one THEN At(1, YBlock(v) + ChromaBlock(v)) ELSE At(3, 0))
  BY <1>2 DEF copyMappedI420
<1> DEFINE From(c) == <<b.planes[PlaneOf(b, c)].fd,
                        b.planes[PlaneOf(b, c)].offset + BlockStart(b, c)>>
<1>8. /\ Part(b, 1) = copyRows(From(1), b.height, b.width, b.stride)
      /\ Part(b, 2) = C(From(2)) /\ Part(b, 3) = C(From(3))
  BY DEF Part, ComponentHeight, ComponentWidth, ComponentStride
<1>9. ASSUME NEW c \in 1..3 PROVE From(c) = At(PlaneOf(b, c), BlockStart(b, c))
  BY <1>3, <1>4
<1> HIDE DEF At, From, v, z, C
<1>10. PlaneOf(b, 1) = 1 /\ BlockStart(b, 1) = 0
  BY <1>1, <1>4, <1>5
<1>11. CASE one
  <2>1. PlaneOf(b, 2) = 1 /\ PlaneOf(b, 3) = 1 /\ BlockStart(b, 2) = 4 * z
        /\ BlockStart(b, 3) = 5 * z /\ z \in Nat
    BY <1>4, <1>5, <1>11
  <2>2. YBlock(v) = 4 * z /\ YBlock(v) + ChromaBlock(v) = 5 * z
    BY <1>6, <1>11, <2>1
  <2> QED BY <1>5, <1>7, <1>8, <1>9, <1>10, <1>11, <2>1, <2>2 DEF v
<1>12. CASE ~one
  <2>1. PlaneOf(b, 2) = 2 /\ PlaneOf(b, 3) = 3 /\ BlockStart(b, 2) = 0 /\ BlockStart(b, 3) = 0
    BY <1>1, <1>4, <1>5, <1>12
  <2> QED BY <1>5, <1>7, <1>8, <1>9, <1>10, <1>12, <2>1 DEF v
<1> QED BY <1>11, <1>12

(* Every byte is data of some plane. *)
AllHeld(b, bytes) ==
  \A k \in 1..Len(bytes) : \E i \in 1..Len(b.planes), n \in Nat :
    bytes[k] = <<b.planes[i].fd, b.planes[i].offset + n>> /\ Holds(b, i, n)

LEMMA SampleHeld ==
  ASSUME NEW b \in BufferLayout, WholePicture(b), NEW s \in Samples(b)
  PROVE  \E i \in 1..Len(b.planes), n \in Nat :
           ByteOf(b, s) = <<b.planes[i].fd, b.planes[i].offset + n>> /\ Holds(b, i, n)
<1>1. EvenShape(b) /\ Len(b.planes) \in {1, 3}
  BY DEF WholePicture
<1>2. Holds(b, PlaneOf(b, s[1]), OffsetOf(b, s))
  BY HoldsPictureMeans DEF HoldsPicture
<1>3. s[1] \in 1..3 /\ OffsetOf(b, s) \in Nat
  BY <1>1, SampleOffset
<1>4. PlaneOf(b, s[1]) \in 1..Len(b.planes)
  BY <1>1, <1>3, BlocksMean
<1> QED BY <1>2, <1>3, <1>4 DEF ByteOf

(* copyMappedI420() leaves the picture, from bytes that are data. *)
LEMMA CopyIsPicture ==
  ASSUME NEW b \in BufferLayout, Mappable(b), WholePicture(b)
  PROVE  LET bytes == copyMappedI420(makeView(b)) IN
         IsPicture(b, bytes) /\ AllHeld(b, bytes) /\ bytes \in Seq(Fds \X Nat)
<1> DEFINE bytes == Part(b, 1) \o Part(b, 2) \o Part(b, 3)
           q == Quarter(b.width, b.height)
           L(c) == IF c = 1 THEN 4 * q ELSE q
<1>1. EvenShape(b) /\ Len(b.planes) \in {1, 3}
  BY DEF WholePicture
<1>2. q \in Nat /\ PackedSize(b) = 6 * q
  BY <1>1, BufferType, QuarterMeans DEF EvenShape, Even, PackedSize
<1>3. ASSUME NEW c \in 1..3
      PROVE  /\ ComponentHeight(b, c) * ComponentWidth(b, c) = L(c)
             /\ Len(Part(b, c)) = L(c) /\ Part(b, c) \in Seq(Fds \X Nat)
             /\ \A s \in Samples(b) : s[1] = c =>
                  Part(b, c)[1 + (s[2] * ComponentWidth(b, c) + s[3])] = ByteOf(b, s)
             /\ \A k \in 1..L(c) : \E s \in Samples(b) : Part(b, c)[k] = ByteOf(b, s)
  <2>1. ComponentHeight(b, c) * ComponentWidth(b, c) = L(c)
    <3>1. ComponentWidth(b, c) * ComponentHeight(b, c) = L(c) /\ ComponentWidth(b, c) \in Nat
          /\ ComponentHeight(b, c) \in Nat
      BY <1>1, ComponentType
    <3>2. \A m, n \in Nat : m * n = n * m
      OBVIOUS
    <3> QED BY <3>1, <3>2
  <2> DEFINE n == ComponentHeight(b, c) * ComponentWidth(b, c)
  <2>2. /\ Len(Part(b, c)) = n /\ Part(b, c) \in Seq(Fds \X Nat)
        /\ \A s \in Samples(b) : s[1] = c =>
             Part(b, c)[1 + (s[2] * ComponentWidth(b, c) + s[3])] = ByteOf(b, s)
        /\ \A k \in 1..n : \E s \in Samples(b) : s[1] = c /\ Part(b, c)[k] = ByteOf(b, s)
    BY <1>1, PartBytes
  <2>3. n = L(c)
    BY <2>1
  <2> HIDE DEF n, L
  <2>4. \A k \in 1..L(c) : \E s \in Samples(b) : Part(b, c)[k] = ByteOf(b, s)
    BY <2>2, <2>3
  <2> QED BY <2>1, <2>2, <2>3, <2>4
<1>4. 1 \in 1..3 /\ 2 \in 1..3 /\ 3 \in 1..3
  OBVIOUS
<1> HIDE DEF q
<1>5. /\ bytes \in Seq(Fds \X Nat) /\ Len(bytes) = 4 * q + q + q
      /\ \A k \in 1..(4 * q) : bytes[k] = Part(b, 1)[k]
      /\ \A k \in 1..q : bytes[4 * q + k] = Part(b, 2)[k]
      /\ \A k \in 1..q : bytes[4 * q + q + k] = Part(b, 3)[k]
  <2>1. /\ Part(b, 1) \in Seq(Fds \X Nat) /\ Part(b, 2) \in Seq(Fds \X Nat)
        /\ Part(b, 3) \in Seq(Fds \X Nat) /\ Len(Part(b, 1)) = 4 * q
        /\ Len(Part(b, 2)) = q /\ Len(Part(b, 3)) = q
    BY <1>3, <1>4
  <2>2. /\ bytes \in Seq(Fds \X Nat)
        /\ Len(bytes) = Len(Part(b, 1)) + Len(Part(b, 2)) + Len(Part(b, 3))
        /\ \A k \in 1..Len(Part(b, 1)) : bytes[k] = Part(b, 1)[k]
        /\ \A k \in 1..Len(Part(b, 2)) : bytes[Len(Part(b, 1)) + k] = Part(b, 2)[k]
        /\ \A k \in 1..Len(Part(b, 3)) :
             bytes[Len(Part(b, 1)) + Len(Part(b, 2)) + k] = Part(b, 3)[k]
    <3> DEFINE S == Fds \X Nat
               A == Part(b, 1)
               B == Part(b, 2)
               C == Part(b, 3)
    <3>1. A \in Seq(S) /\ B \in Seq(S) /\ C \in Seq(S) /\ bytes = A \o B \o C
      BY <2>1
    <3> HIDE DEF S, A, B, C, bytes
    <3>2. /\ bytes \in Seq(S) /\ Len(bytes) = Len(A) + Len(B) + Len(C)
          /\ \A k \in 1..Len(A) : bytes[k] = A[k]
          /\ \A k \in 1..Len(B) : bytes[Len(A) + k] = B[k]
          /\ \A k \in 1..Len(C) : bytes[Len(A) + Len(B) + k] = C[k]
      BY <3>1, Joined
    <3> QED BY <3>2 DEF S, A, B, C
  <2> HIDE DEF bytes
  <2> QED BY <2>1, <2>2
<1> HIDE DEF bytes
<1>6. Len(bytes) = 6 * q /\ 4 * q + q = 5 * q
  BY <1>2, <1>5
<1>7. ASSUME NEW c \in 1..3, NEW k \in 1..L(c)
      PROVE  bytes[PackedStart(b, c) + k] = Part(b, c)[k]
  <2>1. CASE c = 1
    <3>1. PackedStart(b, c) = 0 /\ 0 + k = k /\ k \in 1..(4 * q)
      BY <1>2, <2>1 DEF PackedStart
    <3> QED BY <1>5, <2>1, <3>1
  <2>2. CASE c = 2
    <3>1. PackedStart(b, c) = 4 * q /\ k \in 1..q
      BY <2>2 DEF PackedStart, q
    <3> QED BY <1>5, <2>2, <3>1
  <2>3. CASE c = 3
    <3>1. PackedStart(b, c) = 5 * q /\ k \in 1..q
      BY <2>3 DEF PackedStart, q
    <3>2. bytes[4 * q + q + k] = Part(b, 3)[k]
      BY <1>5, <3>1
    <3> QED BY <1>6, <2>3, <3>1, <3>2
  <2> QED BY <2>1, <2>2, <2>3
<1>8. ASSUME NEW s \in Samples(b) PROVE bytes[PackedIndex(b, s)] = ByteOf(b, s)
  <2> DEFINE c == s[1]
             k == 1 + (s[2] * ComponentWidth(b, c) + s[3])
  <2>1. c \in 1..3
    BY <1>1, SampleMeans
  <2>2. PackedIndex(b, s) = PackedStart(b, c) + k
        /\ k \in 1..(ComponentHeight(b, c) * ComponentWidth(b, c))
    BY <1>1, PackedMeans
  <2>3. k \in 1..L(c) /\ Part(b, c)[k] = ByteOf(b, s)
    BY <1>3, <2>1, <2>2
  <2> HIDE DEF c, k, L
  <2> QED BY <1>7, <2>1, <2>2, <2>3
<1>9. IsPicture(b, bytes)
  BY <1>2, <1>6, <1>8 DEF IsPicture
<1>10. AllHeld(b, bytes)
  <2> SUFFICES ASSUME NEW k \in 1..Len(bytes)
               PROVE  \E s \in Samples(b) : bytes[k] = ByteOf(b, s)
    BY SampleHeld DEF AllHeld
  <2>1. k \in 1..(6 * q)
    BY <1>6
  <2>2. CASE k <= 4 * q
    <3>1. k \in 1..L(1) /\ bytes[k] = Part(b, 1)[k]
      BY <1>2, <1>5, <2>1, <2>2
    <3> HIDE DEF L
    <3>2. PICK s \in Samples(b) : Part(b, 1)[k] = ByteOf(b, s)
      BY <1>3, <1>4, <3>1
    <3> QED BY <3>1, <3>2
  <2>3. CASE 4 * q < k /\ k <= 5 * q
    <3> DEFINE j == k - 4 * q
    <3>1. j \in 1..q /\ k = 4 * q + j
      BY <1>2, <2>1, <2>3
    <3> HIDE DEF j
    <3>2. j \in 1..L(2) /\ bytes[k] = Part(b, 2)[j]
      BY <1>5, <3>1
    <3> HIDE DEF L
    <3>3. PICK s \in Samples(b) : Part(b, 2)[j] = ByteOf(b, s)
      BY <1>3, <1>4, <3>2
    <3> QED BY <3>2, <3>3
  <2>4. CASE 5 * q < k
    <3> DEFINE j == k - 5 * q
    <3>1. j \in 1..q /\ k = 4 * q + q + j
      BY <1>2, <2>1, <2>4
    <3> HIDE DEF j
    <3>2. j \in 1..L(3) /\ bytes[k] = Part(b, 3)[j]
      BY <1>5, <3>1
    <3> HIDE DEF L
    <3>3. PICK s \in Samples(b) : Part(b, 3)[j] = ByteOf(b, s)
      BY <1>3, <1>4, <3>2
    <3> QED BY <3>2, <3>3
  <2> QED BY <1>2, <2>1, <2>2, <2>3, <2>4
<1> QED BY <1>5, <1>9, <1>10, CopyIsParts DEF bytes

(* What inspectCompactI420() has found out when it answers Compatible.     *)
(* frame_size is an unsigned number, so that height * 3 did not wrap.      *)
LEMMA CompactMeans ==
  ASSUME NEW b \in BufferLayout, Mappable(b), inspectCompactI420(makeView(b))
  PROVE  LET q == Quarter(b.width, b.height) IN
         /\ WholePicture(b) /\ q \in Nat /\ b.stride = b.width /\ Len(b.planes) = 3
         /\ b.planes[2].fd = b.planes[1].fd /\ b.planes[3].fd = b.planes[1].fd
         /\ b.planes[1].offset = 0 /\ b.planes[2].offset = 4 * q /\ b.planes[3].offset = 5 * q
         /\ 4 * q <= Held(b, 1) /\ q <= Held(b, 2) /\ q <= Held(b, 3)
         /\ MatBytes(makeView(b)) = 6 * q
<1> DEFINE v == makeView(b)
           q == Quarter(b.width, b.height)
<1>1. /\ v.width = b.width /\ v.height = b.height /\ v.stride = b.stride
      /\ v.frame_size = b.frame_size /\ Len(v.planes) = Len(b.planes)
  BY ViewFields
<1>2. /\ b.width \in Nat /\ b.height \in Nat /\ b.frame_size \in 0..UIntMax
  BY BufferType
<1>3. SizesFit(v) /\ Len(v.planes) = 3 /\ v.stride = v.width
  BY DEF inspectCompactI420
<1>4. /\ b.width > 0 /\ b.height > 0 /\ Even(b.width, b.height) /\ 6 * q <= SizeMax
      /\ SizesOf(v).y = 4 * q /\ SizesOf(v).chroma = q /\ SizesOf(v).total = 6 * q
      /\ Size(4 * q + q) = 4 * q + q
  BY <1>1, <1>2, <1>3, SizesMean
<1>5. q \in Nat /\ ((b.height * 3) \div 2) * b.width = 6 * q
  BY <1>2, <1>4, QuarterMeans DEF Even
<1>6. /\ v.planes[1].fd = v.planes[2].fd /\ v.planes[1].fd = v.planes[3].fd
      /\ v.planes[1].offset = 0 /\ v.planes[2].offset = 4 * q
      /\ v.planes[3].offset = Size(4 * q + q)
      /\ v.planes[1].length >= 4 * q /\ v.planes[2].length >= q /\ v.planes[3].length >= q
      /\ v.planes[1].bytes_used >= 4 * q /\ v.planes[2].bytes_used >= q
      /\ v.planes[3].bytes_used >= q
      /\ v.frame_size >= 6 * q
  BY <1>4 DEF inspectCompactI420
<1>7. 1 \in 1..Len(b.planes) /\ 2 \in 1..Len(b.planes) /\ 3 \in 1..Len(b.planes)
  BY <1>1, <1>3
<1>8. ASSUME NEW i \in 1..Len(b.planes)
      PROVE  /\ v.planes[i].fd = b.planes[i].fd /\ v.planes[i].offset = b.planes[i].offset
             /\ v.planes[i].length = b.planes[i].length
             /\ v.planes[i].bytes_used = UsedOf(b, i)
             /\ b.planes[i].length \in Nat /\ UsedOf(b, i) \in Nat
             /\ \A n \in Nat : n <= b.planes[i].length /\ n <= UsedOf(b, i) <=> n <= Held(b, i)
  <2>1. b.planes[i].length \in 0..UIntMax /\ UsedOf(b, i) \in 0..UIntMax
    BY PlaneType
  <2> QED BY <2>1, ViewFields, PlaneType, WidthAssumption
<1> HIDE DEF v, q
<1>9. /\ b.planes[2].fd = b.planes[1].fd /\ b.planes[3].fd = b.planes[1].fd
      /\ b.planes[1].offset = 0 /\ b.planes[2].offset = 4 * q /\ b.planes[3].offset = 5 * q
  <2>1. Size(4 * q + q) = 5 * q
    BY <1>4, <1>5
  <2>2. /\ v.planes[1].fd = b.planes[1].fd /\ v.planes[1].offset = b.planes[1].offset
        /\ v.planes[2].fd = b.planes[2].fd /\ v.planes[2].offset = b.planes[2].offset
        /\ v.planes[3].fd = b.planes[3].fd /\ v.planes[3].offset = b.planes[3].offset
    BY <1>7, <1>8
  <2> QED BY <1>6, <2>1, <2>2
<1>10. 4 * q <= Held(b, 1) /\ q <= Held(b, 2) /\ q <= Held(b, 3)
  <2>1. 4 * q \in Nat /\ q \in Nat
    BY <1>5
  <2>2. 4 * q <= b.planes[1].length /\ 4 * q <= UsedOf(b, 1)
    BY <1>6, <1>7, <1>8, <2>1
  <2>3. q <= b.planes[2].length /\ q <= UsedOf(b, 2)
    BY <1>6, <1>7, <1>8, <2>1
  <2>4. q <= b.planes[3].length /\ q <= UsedOf(b, 3)
    BY <1>6, <1>7, <1>8, <2>1
  <2> QED BY <1>7, <1>8, <2>1, <2>2, <2>3, <2>4
<1>11. EvenShape(b)
  BY <1>1, <1>2, <1>3, <1>4 DEF EvenShape, Even
<1>12. WholePicture(b)
  <2>1. ASSUME NEW c \in 1..3
        PROVE  /\ ComponentSpan(b, c) \in Nat
               /\ ComponentSpan(b, c) <= IF c = 1 THEN 4 * q ELSE q
    <3>1. /\ ComponentSpan(b, c) \in Nat
          /\ ComponentSpan(b, c) <= ComponentHeight(b, c) * ComponentStride(b, c)
          /\ ComponentHeight(b, c) * ComponentStride(b, c) =
               IF c = 1 THEN 4 * Quarter(b.stride, b.height) ELSE Quarter(b.stride, b.height)
      BY <1>11, ComponentType
    <3>2. Quarter(b.stride, b.height) = q
      BY <1>1, <1>3 DEF q
    <3> QED BY <3>1, <3>2
  <2>2. ASSUME NEW c \in 1..3 PROVE ComponentSpan(b, c) <= Held(b, c)
    <3>1. c \in 1..Len(b.planes)
      BY <1>1, <1>3
    <3>2. Held(b, c) \in Nat
      BY <3>1, PlaneType
    <3>3. c = 1 \/ c = 2 \/ c = 3
      OBVIOUS
    <3> QED BY <1>5, <1>10, <2>1, <3>2, <3>3
  <2> QED BY <1>1, <1>3, <1>4, <1>11, <2>2 DEF WholePicture, q
<1>13. MatBytes(v) = 6 * q
  <2>1. b.height * 3 <= 6 * q
    <3>1. b.width >= 2
      BY <1>2, <1>4 DEF Even
    <3> DEFINE a == b.width \div 2
               c == b.height \div 2
    <3>2. a \in Nat /\ a >= 1 /\ c \in Nat /\ b.height = 2 * c /\ q = a * c
      BY <1>2, <1>4, <3>1, Halves DEF Even, q, Quarter
    <3> HIDE DEF a, c
    <3>3. 1 * c <= a * c /\ a * c \in Nat
      <4>1. 1 \in Nat /\ 1 <= a
        BY <3>2
      <4> QED BY <3>2, <4>1, ProductMonotone
    <3>4. c <= q
      BY <3>2, <3>3
    <3> QED BY <1>5, <3>2, <3>4
  <2>2. b.height * 3 \in 0..UIntMax
    <3>1. 6 * q <= b.frame_size
      BY <1>1, <1>2, <1>5, <1>6
    <3> QED BY <1>2, <1>5, <2>1, <3>1, WidthAssumption
  <2>3. UInt(b.height * 3) = b.height * 3
    BY <2>2, WidthAssumption DEF UInt
  <2> QED BY <1>1, <1>5, <2>3 DEF MatBytes
<1> QED BY <1>1, <1>3, <1>5, <1>9, <1>10, <1>12, <1>13 DEF v, q

(* The mapping that is read in place is the picture. *)
LEMMA MappingIsPicture ==
  ASSUME NEW b \in BufferLayout, Mappable(b), inspectCompactI420(makeView(b))
  PROVE  LET bytes == MappedBytes(makeView(b)) IN
         IsPicture(b, bytes) /\ AllHeld(b, bytes) /\ bytes \in Seq(Fds \X Nat)
<1> DEFINE v == makeView(b)
           q == Quarter(b.width, b.height)
           fd == b.planes[1].fd
           bytes == [k \in 1..(6 * q) |-> <<fd, k - 1>>]
<1>1. /\ WholePicture(b) /\ q \in Nat /\ b.stride = b.width /\ Len(b.planes) = 3
      /\ b.planes[2].fd = fd /\ b.planes[3].fd = fd
      /\ b.planes[1].offset = 0 /\ b.planes[2].offset = 4 * q /\ b.planes[3].offset = 5 * q
      /\ 4 * q <= Held(b, 1) /\ q <= Held(b, 2) /\ q <= Held(b, 3)
      /\ MatBytes(v) = 6 * q
  BY CompactMeans
<1>2. EvenShape(b) /\ PackedSize(b) = 6 * q
  <2>1. EvenShape(b)
    BY <1>1 DEF WholePicture
  <2> QED BY <2>1, BufferType, QuarterMeans DEF EvenShape, Even, PackedSize
<1>3. MappedBytes(v) = bytes
  <2>1. v.planes[1].mapping_base = fd /\ v.planes[1].data = 0
    <3>1. 1 \in 1..Len(b.planes)
      BY <1>1
    <3> QED BY <1>1, <3>1, ViewFields
  <2>2. \A k \in 1..(6 * q) : 0 + k - 1 = k - 1
    OBVIOUS
  <2>3. MappedBytes(v) = [k \in 1..(6 * q) |-> <<fd, 0 + k - 1>>]
    BY <1>1, <2>1 DEF MappedBytes
  <2> HIDE DEF q
  <2> QED BY <2>2, <2>3
<1>4. fd \in Fds
  BY <1>1, PlaneType
<1>5. ASSUME NEW c \in 1..3
      PROVE  /\ PackedStart(b, c) = b.planes[c].offset /\ PackedStart(b, c) \in Nat
             /\ b.planes[c].fd = fd /\ PlaneOf(b, c) = c /\ BlockStart(b, c) = 0
             /\ ComponentStride(b, c) = ComponentWidth(b, c)
  <2>1. PlaneOf(b, c) = c /\ BlockStart(b, c) = 0
    BY <1>1, <1>2, BlocksMean
  <2>2. ComponentStride(b, c) = ComponentWidth(b, c)
    BY <1>1 DEF ComponentStride, ComponentWidth
  <2> HIDE DEF fd
  <2>3. PackedStart(b, c) = b.planes[c].offset /\ PackedStart(b, c) \in Nat
        /\ b.planes[c].fd = fd
    BY <1>1 DEF PackedStart, fd
  <2> QED BY <2>1, <2>2, <2>3
<1> HIDE DEF q, fd
<1>6. ASSUME NEW s \in Samples(b) PROVE bytes[PackedIndex(b, s)] = ByteOf(b, s)
  <2> DEFINE c == s[1]
             n == s[2] * ComponentWidth(b, c) + s[3]
             w == ComponentWidth(b, c)
             h == ComponentHeight(b, c)
  <2>1. c \in 1..3
    BY <1>2, SampleMeans
  <2>2. PackedIndex(b, s) = PackedStart(b, c) + (1 + n) /\ n \in Nat /\ n < w * h
    BY <1>2, PackedMeans
  <2>3. w * h = IF c = 1 THEN 4 * q ELSE q
    BY <1>2, <2>1, ComponentType DEF q
  <2>4. OffsetOf(b, s) = n
    <3>1. OffsetOf(b, s) = BlockStart(b, c) + (s[2] * ComponentStride(b, c) + s[3])
      BY <1>1, <1>2, SampleOffset
    <3>2. s[2] * ComponentStride(b, c) + s[3] = n
      BY <1>5, <2>1
    <3> HIDE DEF n, c
    <3> QED BY <1>5, <2>1, <2>2, <3>1, <3>2
  <2> HIDE DEF n, w, h
  <2>5. ByteOf(b, s) = <<fd, PackedStart(b, c) + n>>
    BY <1>5, <2>1, <2>4 DEF ByteOf
  <2>6. PackedStart(b, c) = IF c = 1 THEN 0 ELSE IF c = 2 THEN 4 * q ELSE 5 * q
    BY DEF PackedStart, q
  <2> HIDE DEF c
  <2>7. PackedIndex(b, s) \in 1..(6 * q) /\ PackedIndex(b, s) - 1 = PackedStart(b, c) + n
    BY <1>1, <2>1, <2>2, <2>3, <2>6
  <2> QED BY <2>5, <2>7
<1>7. Len(bytes) = 6 * q /\ bytes \in Seq(Fds \X Nat)
  <2>1. bytes \in [1..(6 * q) -> Fds \X Nat]
    BY <1>1, <1>4
  <2>2. 6 * q \in Nat
    BY <1>1
  <2> DEFINE m == 6 * q
             S == Fds \X Nat
             g == bytes
  <2>3. g \in [1..m -> S] /\ m \in Nat
    BY <2>1, <2>2
  <2> HIDE DEF m, S, g
  <2>4. g \in Seq(S) /\ Len(g) = m
    BY <2>3
  <2> QED BY <2>4 DEF m, S, g
<1>8. AllHeld(b, bytes)
  <2> SUFFICES ASSUME NEW k \in 1..(6 * q)
               PROVE  \E i \in 1..Len(b.planes), n \in Nat :
                        bytes[k] = <<b.planes[i].fd, b.planes[i].offset + n>> /\ Holds(b, i, n)
    BY <1>7 DEF AllHeld
  <2> DEFINE i == IF k <= 4 * q THEN 1 ELSE IF k <= 5 * q THEN 2 ELSE 3
             n == k - 1 - PackedStart(b, i)
  <2>1. i \in 1..3 /\ i \in 1..Len(b.planes)
    BY <1>1
  <2>2. PackedStart(b, i) = IF i = 1 THEN 0 ELSE IF i = 2 THEN 4 * q ELSE 5 * q
    BY DEF PackedStart, q
  <2>3. n \in Nat /\ n < (IF i = 1 THEN 4 * q ELSE q) /\ k - 1 = PackedStart(b, i) + n
    <3>1. k \in Int /\ 1 <= k /\ k <= 6 * q
      BY <1>1
    <3>2. CASE k <= 4 * q
      BY <1>1, <2>2, <3>1, <3>2
    <3>3. CASE 4 * q < k /\ k <= 5 * q
      BY <1>1, <2>2, <3>1, <3>3
    <3>4. CASE 5 * q < k
      BY <1>1, <2>2, <3>1, <3>4
    <3> QED BY <1>1, <3>1, <3>2, <3>3, <3>4
  <2> HIDE DEF i, n
  <2>4. Held(b, i) \in Nat /\ (Holds(b, i, n) <=> n < Held(b, i))
    BY <2>1, <2>3, PlaneType
  <2>5. n < Held(b, i)
    <3>1. i = 1 \/ i = 2 \/ i = 3
      BY <2>1
    <3> QED BY <1>1, <2>3, <2>4, <3>1
  <2>6. bytes[k] = <<b.planes[i].fd, b.planes[i].offset + n>>
    BY <1>5, <2>1, <2>3
  <2> QED BY <2>1, <2>3, <2>4, <2>5, <2>6
<1>9. IsPicture(b, bytes)
  BY <1>2, <1>6, <1>7 DEF IsPicture, q
<1> QED BY <1>3, <1>7, <1>8, <1>9

-----------------------------------------------------------------------------
(* unique_fds has the fd of every plane, once.                             *)

(* f is unique_fds after each of the first n planes. *)
IsUnique(f, planes, n) ==
  f = [i \in 0..n |->
         IF i = 0 THEN <<>>
         ELSE IF planes[i].fd \in ToSet(f[i-1]) THEN f[i-1]
         ELSE Append(f[i-1], planes[i].fd)]

(* One step of it. *)
AddFd(u, fd) == IF fd \in ToSet(u) THEN u ELSE Append(u, fd)

LEMMA UniqueExists ==
  ASSUME NEW planes, NEW n \in Nat
  PROVE  \E f : IsUnique(f, planes, n)
<1> DEFINE T == {m \in Nat : \E f : IsUnique(f, planes, m)}
<1>1. 0 \in T
  <2> DEFINE f == [i \in 0..0 |-> <<>>]
  <2>1. f = [i \in 0..0 |->
               IF i = 0 THEN <<>>
               ELSE IF planes[i].fd \in ToSet(f[i-1]) THEN f[i-1]
               ELSE Append(f[i-1], planes[i].fd)]
    OBVIOUS
  <2> QED BY <2>1 DEF IsUnique
<1>2. ASSUME NEW m \in Nat, m \in T PROVE m + 1 \in T
  <2>1. PICK f : IsUnique(f, planes, m)
    BY <1>2
  <2> DEFINE g == [i \in 0..m+1 |-> IF i = m + 1 THEN AddFd(f[m], planes[m+1].fd) ELSE f[i]]
  <2>2. ASSUME NEW i \in 0..m+1
        PROVE  g[i] = IF i = 0 THEN <<>> ELSE AddFd(g[i-1], planes[i].fd)
    <3>1. CASE i = m + 1
      <4>1. g[i] = AddFd(f[m], planes[i].fd) /\ g[i-1] = f[m] /\ i # 0
        BY <3>1
      <4> HIDE DEF g
      <4> QED BY <4>1
    <3>2. CASE i \in 0..m
      <4>1. g[i] = f[i] /\ (i # 0 => g[i-1] = f[i-1])
        BY <3>2
      <4>2. f[i] = IF i = 0 THEN <<>> ELSE AddFd(f[i-1], planes[i].fd)
        BY <2>1, <3>2 DEF IsUnique, AddFd
      <4> HIDE DEF g
      <4> QED BY <4>1, <4>2
    <3> QED BY <3>1, <3>2
  <2>3. g = [i \in 0..m+1 |-> g[i]]
    OBVIOUS
  <2> HIDE DEF g
  <2>4. IsUnique(g, planes, m + 1)
    BY <2>2, <2>3 DEF IsUnique, AddFd
  <2> QED BY <2>4
<1> HIDE DEF T
<1>3. Nat \subseteq T
  BY <1>1, <1>2, SetInduction
<1> QED BY <1>3 DEF T

LEMMA UniqueIs ==
  ASSUME NEW planes, Len(planes) \in Nat
  PROVE  \E f : IsUnique(f, planes, Len(planes)) /\ UniqueFds(planes) = f[Len(planes)]
<1> DEFINE f == CHOOSE g : IsUnique(g, planes, Len(planes))
<1>1. IsUnique(f, planes, Len(planes))
  <2>1. \E g : IsUnique(g, planes, Len(planes))
    BY UniqueExists
  <2> QED BY <2>1, Zenon
<1>2. UniqueFds(planes) = f[Len(planes)]
  BY DEF UniqueFds, IsUnique
<1> HIDE DEF f
<1> QED BY <1>1, <1>2

LEMMA AppendedSet ==
  ASSUME NEW S, NEW s \in Seq(S), NEW e \in S
  PROVE  ToSet(Append(s, e)) = ToSet(s) \cup {e}
<1> DEFINE t == Append(s, e)
<1>1. /\ Len(s) \in Nat /\ t \in Seq(S) /\ Len(t) = Len(s) + 1 /\ t[Len(s) + 1] = e
      /\ \A i \in 1..Len(s) : t[i] = s[i]
      /\ DOMAIN s = 1..Len(s) /\ DOMAIN t = 1..Len(t)
  OBVIOUS
<1> HIDE DEF t
<1>2. 1..Len(t) = (1..Len(s)) \cup {Len(s) + 1}
  BY <1>1
<1> QED BY <1>1, <1>2 DEF ToSet, t

LEMMA UniqueFdsOnce ==
  ASSUME NEW planes, Len(planes) \in Nat, \A i \in 1..Len(planes) : planes[i].fd \in Fds
  PROVE  /\ UniqueFds(planes) \in Seq(Fds)
         /\ \A i \in 1..Len(planes) : Count(UniqueFds(planes), planes[i].fd) = 1
<1> DEFINE n == Len(planes)
           Seen(m) == {planes[i].fd : i \in 1..m}
<1>1. PICK f : IsUnique(f, planes, n) /\ UniqueFds(planes) = f[n]
  BY UniqueIs
<1> DEFINE T == {m \in Nat : m <= n =>
                   /\ f[m] \in Seq(Fds) /\ ToSet(f[m]) = Seen(m)
                   /\ \A x : Count(f[m], x) = IF x \in Seen(m) THEN 1 ELSE 0}
<1>2. 0 \in T
  <2>1. f[0] = <<>>
    BY <1>1 DEF IsUnique
  <2>2. Seen(0) = {} /\ ToSet(<<>>) = {} /\ <<>> \in Seq(Fds)
    BY DEF ToSet
  <2> QED BY <2>1, <2>2, CountEmpty
<1>3. ASSUME NEW m \in Nat, m \in T PROVE m + 1 \in T
  <2> SUFFICES ASSUME m + 1 <= n
               PROVE  /\ f[m+1] \in Seq(Fds) /\ ToSet(f[m+1]) = Seen(m+1)
                      /\ \A x : Count(f[m+1], x) = IF x \in Seen(m+1) THEN 1 ELSE 0
    OBVIOUS
  <2> DEFINE u == f[m]
             e == planes[m+1].fd
  <2>1. /\ u \in Seq(Fds) /\ ToSet(u) = Seen(m)
        /\ \A x : Count(u, x) = IF x \in Seen(m) THEN 1 ELSE 0
    BY <1>3
  <2>2. f[m+1] = IF e \in ToSet(u) THEN u ELSE Append(u, e)
    <3>1. m + 1 \in 0..n /\ m + 1 # 0 /\ (m + 1) - 1 = m
      OBVIOUS
    <3>2. f[m+1] = IF m + 1 = 0 THEN <<>>
                   ELSE IF planes[m+1].fd \in ToSet(f[(m+1)-1]) THEN f[(m+1)-1]
                   ELSE Append(f[(m+1)-1], planes[m+1].fd)
      BY <1>1, <3>1 DEF IsUnique
    <3> QED BY <3>1, <3>2
  <2>3. e \in Fds
    OBVIOUS
  <2>4. Seen(m+1) = Seen(m) \cup {e}
    <3>1. 1..m+1 = (1..m) \cup {m + 1}
      OBVIOUS
    <3> QED BY <3>1
  <2> HIDE DEF u, e, Seen
  <2>5. CASE e \in ToSet(u)
    BY <2>1, <2>2, <2>4, <2>5
  <2>6. CASE e \notin ToSet(u)
    <3>1. Append(u, e) \in Seq(Fds) /\ ToSet(Append(u, e)) = ToSet(u) \cup {e}
      BY <2>1, <2>3, AppendedSet
    <3>2. ASSUME NEW x PROVE Count(Append(u, e), x) = Count(u, x) + IF e = x THEN 1 ELSE 0
      <4>1. IsSequence(u)
        BY <2>1, OverAnySet
      <4> QED BY <4>1, CountAppend
    <3>3. ASSUME NEW x
          PROVE  Count(Append(u, e), x) = IF x \in Seen(m+1) THEN 1 ELSE 0
      <4>1. CASE x = e
        BY <2>1, <2>4, <2>6, <3>2, <4>1
      <4>2. CASE x # e
        BY <2>1, <2>4, <3>2, <4>2
      <4> QED BY <4>1, <4>2
    <3> QED BY <2>1, <2>2, <2>4, <2>6, <3>1, <3>3
  <2> QED BY <2>5, <2>6
<1>4. n \in T
  <2> HIDE DEF T
  <2> QED BY <1>2, <1>3, SetInduction
<1>5. \A i \in 1..n : planes[i].fd \in Seen(n)
  OBVIOUS
<1>6. /\ f[n] \in Seq(Fds) /\ \A x : Count(f[n], x) = IF x \in Seen(n) THEN 1 ELSE 0
  BY <1>4
<1> HIDE DEF Seen
<1> QED BY <1>1, <1>5, <1>6

-----------------------------------------------------------------------------
(* Reading.                                                                *)

(* The constructor works through unique_fds; when the worker reads, all of *)
(* them are in synchronized_fds_, and the view is the buffer's.            *)
ReadInv ==
  /\ worker \in {"start", "read"} =>
       /\ \E b \in BufferLayout :
            Mappable(b) /\ buffer = <<b>> /\ view = <<makeView(b)>>
       /\ synchronized \in Seq(Fds) /\ fds \in Seq(Fds)
       /\ synchronized \o fds = UniqueFds(view[1].planes)
  /\ worker = "read" => fds = <<>>

LEMMA ViewPlanes ==
  ASSUME NEW b \in BufferLayout, Mappable(b)
  PROVE  LET planes == makeView(b).planes IN
         /\ Len(planes) \in Nat /\ Len(planes) = Len(b.planes)
         /\ \A i \in 1..Len(planes) : planes[i].fd = b.planes[i].fd /\ planes[i].fd \in Fds
<1>1. Len(makeView(b).planes) = Len(b.planes) /\ Len(b.planes) \in Nat
  BY ViewFields, BufferType
<1>2. ASSUME NEW i \in 1..Len(b.planes)
      PROVE  makeView(b).planes[i].fd = b.planes[i].fd /\ b.planes[i].fd \in Fds
  BY ViewFields, PlaneType
<1> QED BY <1>1, <1>2

LEMMA MoveOver ==
  ASSUME NEW S, NEW s \in Seq(S), NEW t \in Seq(S), t # <<>>
  PROVE  /\ Append(s, Head(t)) \in Seq(S) /\ Tail(t) \in Seq(S)
         /\ Append(s, Head(t)) \o Tail(t) = s \o t
OBVIOUS

LEMMA OpenReads ==
  ASSUME NEW b \in BufferLayout, Mappable(b), NEW what, Open(what, b)
  PROVE  ReadInv'
<1> DEFINE u == UniqueFds(makeView(b).planes)
<1>1. /\ worker' = "start" /\ buffer' = <<b>> /\ view' = <<makeView(b)>>
      /\ fds' = UniqueFds(view'[1].planes) /\ synchronized' = <<>>
  BY DEF Open
<1>2. view'[1] = makeView(b)
  BY <1>1
<1>3. u \in Seq(Fds)
  BY ViewPlanes, UniqueFdsOnce
<1> HIDE DEF u
<1>4. <<>> \in Seq(Fds) /\ <<>> \o u = u
  BY <1>3
<1> QED BY <1>1, <1>2, <1>3, <1>4 DEF ReadInv, u

LEMMA ReadInvPreserved ==
  ASSUME NEW Lores \in SUBSET BufferLayout, NEW Main \in SUBSET BufferLayout,
         FrameInv, ReadInv, [Next(Lores, Main)]_vars
  PROVE  ReadInv'
<1>1. CASE \E b \in Lores : Mappable(b) /\ Pop(b)
  BY <1>1, OpenReads DEF Pop
<1>2. CASE \E b \in Main : Mappable(b) /\ Trigger(b)
  BY <1>2, OpenReads DEF Trigger
<1>3. CASE submit \/ stop \/ UNCHANGED vars
  BY <1>3 DEF submit, stop, vars, syncVars, ReadInv
<1>4. CASE StartSucceeds
  <2>1. /\ worker = "start" /\ fds # <<>> /\ fds' = Tail(fds)
        /\ synchronized' = Append(synchronized, Head(fds))
        /\ UNCHANGED <<worker, buffer, view>>
    BY <1>4 DEF StartSucceeds
  <2>2. synchronized \in Seq(Fds) /\ fds \in Seq(Fds)
    BY <2>1 DEF ReadInv
  <2>3. /\ synchronized' \in Seq(Fds) /\ fds' \in Seq(Fds)
        /\ synchronized' \o fds' = synchronized \o fds
    BY <2>1, <2>2, MoveOver
  <2> QED BY <2>1, <2>3 DEF ReadInv
<1>5. CASE Ready
  BY <1>5 DEF Ready, syncVars, ReadInv
<1>6. CASE Leave \/ StartFails \/ End \/ Finished \/ NothingDetected \/ Drop \/ Convert
  <2>1. worker' \notin {"start", "read"}
    <3>1. CASE Leave \/ NothingDetected \/ Drop
      BY <3>1 DEF Leave, NothingDetected, Drop
    <3>2. CASE StartFails \/ End
      BY <3>2 DEF StartFails, CleanUp, Finish, End
    <3>3. CASE Finished
      BY <3>3 DEF Finished, FrameInv
    <3>4. CASE Convert
      BY <3>4 DEF Convert, ConvertMapping, CopyMapping, CopyRows, Finish, ConvertCopy
    <3> QED BY <1>6, <3>1, <3>2, <3>3, <3>4
  <2> QED BY <2>1 DEF ReadInv
<1> QED BY <1>1, <1>2, <1>3, <1>4, <1>5, <1>6 DEF Next, Proceed, Sync

LEMMA ReadingBuffer ==
  ASSUME ReadInv, worker = "read"
  PROVE  \E b \in BufferLayout :
           /\ Mappable(b) /\ buffer[1] = b /\ view[1] = makeView(b)
           /\ synchronized = UniqueFds(makeView(b).planes)
<1>1. PICK b \in BufferLayout : Mappable(b) /\ buffer = <<b>> /\ view = <<makeView(b)>>
  BY DEF ReadInv
<1>2. buffer[1] = b /\ view[1] = makeView(b)
  BY <1>1
<1>3. synchronized \in Seq(Fds) /\ fds = <<>> /\ synchronized \o fds = UniqueFds(view[1].planes)
  BY DEF ReadInv
<1>4. synchronized \o <<>> = synchronized
  BY <1>3
<1> QED BY <1>1, <1>2, <1>3, <1>4

(* What is read, where it is, and that it is the picture. *)
LEMMA BytesReadMean ==
  ASSUME NEW b \in BufferLayout, Mappable(b), view[1] = makeView(b)
  PROVE  /\ Accepted <=> WholePicture(b)
         /\ Accepted => IsPicture(b, BytesRead) /\ AllHeld(b, BytesRead)
                        /\ BytesRead \in Seq(Fds \X Nat)
<1>1. InPlace => inspectCompactI420(makeView(b))
  BY DEF InPlace
<1>2. InPlace => WholePicture(b)
  BY <1>1, CompactMeans
<1>3. Copyable(view[1]) <=> WholePicture(b)
  BY CopyableMeans
<1>4. Accepted <=> WholePicture(b)
  BY <1>2, <1>3 DEF Accepted
<1>5. CASE InPlace
  <2>1. BytesRead = MappedBytes(makeView(b))
    BY <1>5 DEF BytesRead
  <2> QED BY <1>1, <1>4, <1>5, <2>1, MappingIsPicture
<1>6. CASE ~InPlace
  <2>1. BytesRead = copyMappedI420(makeView(b))
    BY <1>6 DEF BytesRead
  <2> QED BY <1>4, <2>1, CopyIsPicture
<1> QED BY <1>5, <1>6

LEMMA InvReadsInSession == SessionInv /\ ReadInv => ReadsInSession
<1> SUFFICES ASSUME SessionInv, ReadInv, worker = "read", Accepted,
                    NEW byte \in ToSet(BytesRead)
             PROVE  LET b == buffer[1] IN
                    /\ sessions[byte[1]] = 1
                    /\ byte[2] < MappedLength(b, byte[1])
                    /\ \E i \in 1..Len(b.planes) :
                         b.planes[i].fd = byte[1] /\ byte[2] >= b.planes[i].offset
                           /\ Holds(b, i, byte[2] - b.planes[i].offset)
  BY DEF ReadsInSession
<1>1. PICK b \in BufferLayout :
        /\ Mappable(b) /\ buffer[1] = b /\ view[1] = makeView(b)
        /\ synchronized = UniqueFds(makeView(b).planes)
  BY ReadingBuffer
<1>2. AllHeld(b, BytesRead) /\ BytesRead \in Seq(Fds \X Nat)
  BY <1>1, BytesReadMean
<1>3. PICK k \in 1..Len(BytesRead) : byte = BytesRead[k]
  BY <1>2 DEF ToSet
<1>4. PICK i \in 1..Len(b.planes), n \in Nat :
        byte = <<b.planes[i].fd, b.planes[i].offset + n>> /\ Holds(b, i, n)
  BY <1>2, <1>3 DEF AllHeld
<1> DEFINE p == b.planes[i]
<1>5. byte[1] = p.fd /\ byte[2] = p.offset + n
  BY <1>4
<1>6. /\ p.fd \in Fds /\ p.offset \in 0..UIntMax /\ p.length \in 0..UIntMax /\ n < p.length
  BY <1>4, PlaneType DEF Holds
<1>7. sessions[p.fd] = 1
  <2>1. sessions[p.fd] = Count(synchronized, p.fd)
    BY <1>6 DEF SessionInv
  <2>2. /\ Len(makeView(b).planes) \in Nat /\ Len(makeView(b).planes) = Len(b.planes)
        /\ \A j \in 1..Len(makeView(b).planes) :
             makeView(b).planes[j].fd = b.planes[j].fd /\ makeView(b).planes[j].fd \in Fds
    BY <1>1, ViewPlanes
  <2>3. \A j \in 1..Len(makeView(b).planes) :
          Count(UniqueFds(makeView(b).planes), makeView(b).planes[j].fd) = 1
    BY <2>2, UniqueFdsOnce
  <2> QED BY <1>1, <2>1, <2>2, <2>3
<1>8. MappedLength(b, p.fd) \in 0..SizeMax /\ p.offset + p.length <= MappedLength(b, p.fd)
  BY <1>1, MappingCovers
<1> HIDE DEF p
<1>9. p.offset + n < MappedLength(b, p.fd) /\ p.offset + n >= p.offset
  BY <1>6, <1>8, WidthAssumption
<1>10. (p.offset + n) - p.offset = n
  BY <1>6, WidthAssumption
<1> QED BY <1>1, <1>4, <1>5, <1>7, <1>9, <1>10 DEF p

LEMMA InvReadsWholePictures == ReadInv => ReadsWholePictures
<1> SUFFICES ASSUME ReadInv, worker = "read"
             PROVE  /\ Accepted <=> HoldsPicture(buffer[1])
                    /\ Accepted => IsPicture(buffer[1], BytesRead)
  BY DEF ReadsWholePictures
<1>1. PICK b \in BufferLayout : Mappable(b) /\ buffer[1] = b /\ view[1] = makeView(b)
  BY ReadingBuffer
<1>2. HoldsPicture(b) <=> WholePicture(b)
  BY HoldsPictureMeans
<1> QED BY <1>1, <1>2, BytesReadMean

LEMMA ReadInvAlways ==
  ASSUME NEW CONSTANT Lores \in SUBSET BufferLayout,
         NEW CONSTANT Main \in SUBSET BufferLayout
  PROVE  Spec(Lores, Main) => [](SessionInv /\ ReadInv)
<1>1. Init => SessionInv /\ FrameInv /\ ReadInv
  <2>1. Init => FrameInv /\ ReadInv
    BY DEF Init, FrameInv, ReadInv
  <2> QED BY <2>1, SessionInvInit
<1>2. SessionInv /\ FrameInv /\ ReadInv /\ [Next(Lores, Main)]_vars
        => SessionInv' /\ FrameInv' /\ ReadInv'
  BY SessionInvPreserved, FrameInvPreserved, ReadInvPreserved
<1> QED BY <1>1, <1>2, PTL DEF Spec

(* Whatever layouts initialize() mapped, with numbers of any width: the    *)
(* worker and a snapshot read only bytes that are data of some plane, that *)
(* are mapped, and whose DMA-BUF is in a read session.                     *)
THEOREM ReadsAlwaysInSession ==
  ASSUME NEW CONSTANT Lores \in SUBSET BufferLayout,
         NEW CONSTANT Main \in SUBSET BufferLayout
  PROVE  Spec(Lores, Main) => []ReadsInSession
BY ReadInvAlways, InvReadsInSession, PTL

(* The checks of inspectCompactI420() and copyMappedI420() accept a layout *)
(* exactly when the buffer holds a whole picture that can be stored, and   *)
(* what is then read is that picture, sample by sample: for pictures of    *)
(* any size and numbers of any width, though sums and products wrap.       *)
THEOREM ReadsAlwaysWholePictures ==
  ASSUME NEW CONSTANT Lores \in SUBSET BufferLayout,
         NEW CONSTANT Main \in SUBSET BufferLayout
  PROVE  Spec(Lores, Main) => []ReadsWholePictures
BY ReadInvAlways, InvReadsWholePictures, PTL

-----------------------------------------------------------------------------
(* makeRawBuffer().                                                        *)

LEMMA SharedFdMeans ==
  ASSUME NEW b \in BufferLayout, Mappable(b), Len(b.planes) > 0
  PROVE  /\ SharedFd(makeView(b)) <=> \A i \in 1..Len(b.planes) : b.planes[i].fd = b.planes[1].fd
         /\ SharedFd(b) <=> \A i \in 1..Len(b.planes) : b.planes[i].fd = b.planes[1].fd
<1> DEFINE v == makeView(b)
<1>1. Len(b.planes) \in Nat /\ DOMAIN b.planes = 1..Len(b.planes) /\ 1 \in 1..Len(b.planes)
  BY DEF BufferLayout
<1>2. DOMAIN v.planes = 1..Len(b.planes)
  BY DEF makeView
<1>3. \A i \in 1..Len(b.planes) : v.planes[i].fd = b.planes[i].fd
  BY ViewFields
<1> HIDE DEF v
<1> QED BY <1>1, <1>2, <1>3 DEF SharedFd, ToSet, v

(* The offsets that makeRawBuffer() computes do not wrap, and are where    *)
(* the components would begin in one plane.                                *)
LEMMA OffsetsComputed ==
  ASSUME NEW b \in BufferLayout, Mappable(b), EvenShape(b),
         5 * Quarter(b.stride, b.height) <= SizeMax
  PROVE  LET v == makeView(b)
             z == Quarter(b.stride, b.height)
             u == Size(v.stride * v.height)
         IN u = 4 * z /\ Size(u + (v.stride \div 2) * (v.height \div 2)) = 5 * z
<1> DEFINE v == makeView(b)
           z == Quarter(b.stride, b.height)
<1>1. v.stride = b.stride /\ v.height = b.height
  BY ViewFields
<1>2. z \in Nat /\ b.stride * b.height = 4 * z
  BY BufferType, QuarterMeans DEF EvenShape, Even
<1>3. (v.stride \div 2) * (v.height \div 2) = z
  BY <1>1 DEF Quarter
<1> HIDE DEF v, z
<1>4. 4 * z \in 0..SizeMax /\ 4 * z + z \in 0..SizeMax /\ 4 * z + z = 5 * z
  BY <1>2, WidthAssumption DEF z
<1>5. Size(4 * z) = 4 * z /\ Size(4 * z + z) = 5 * z
  BY <1>4, SizeSmall
<1> QED BY <1>1, <1>2, <1>3, <1>5 DEF v, z

(* The run of bytes over a shared DMA-BUF reaches the end of every plane.  *)
LEMMA SharedRun ==
  ASSUME NEW b \in BufferLayout, Mappable(b), Len(b.planes) > 0, SharedFd(makeView(b))
  PROVE  LET bytes == Wrapped(makeView(b)) IN
         /\ Len(bytes) \in Nat
         /\ \A k \in 1..Len(bytes) : bytes[k] = <<b.planes[1].fd, k - 1>>
         /\ \A i \in 1..Len(b.planes) : b.planes[i].offset + b.planes[i].length <= Len(bytes)
<1> DEFINE v == makeView(b)
           T == {Size(p.offset + p.length) : p \in ToSet(v.planes)} \cup {v.frame_size}
           m == Max(T)
<1>1. DOMAIN v.planes = 1..Len(b.planes) /\ 1 \in 1..Len(b.planes)
  BY BufferType DEF makeView
<1>2. v.frame_size \in 0..SizeMax
  <2>1. v.frame_size = b.frame_size /\ b.frame_size \in 0..UIntMax
    BY ViewFields, BufferType
  <2> QED BY <2>1, WidthAssumption
<1>3. ASSUME NEW i \in 1..Len(b.planes)
      PROVE  LET p == v.planes[i]
                 d == b.planes[i]
             IN Size(p.offset + p.length) = d.offset + d.length
                /\ d.offset + d.length \in 0..SizeMax
  <2>1. /\ v.planes[i].offset = b.planes[i].offset /\ v.planes[i].length = b.planes[i].length
    BY ViewFields
  <2>2. /\ Size(b.planes[i].offset + b.planes[i].length) = b.planes[i].offset + b.planes[i].length
        /\ b.planes[i].length <= SizeMax - b.planes[i].offset
    BY MappingCovers
  <2>3. b.planes[i].offset \in 0..SizeMax /\ b.planes[i].length \in 0..SizeMax
    BY PlaneType
  <2>4. b.planes[i].offset + b.planes[i].length \in 0..SizeMax
    BY <2>2, <2>3, WidthAssumption
  <2> QED BY <2>1, <2>2, <2>4
<1>4. T \in SUBSET (0..SizeMax) /\ T # {}
  <2>1. ASSUME NEW p \in ToSet(v.planes) PROVE Size(p.offset + p.length) \in 0..SizeMax
    BY <1>1, <1>3 DEF ToSet
  <2> QED BY <1>2, <2>1
<1>5. \A i \in 1..Len(b.planes) : b.planes[i].offset + b.planes[i].length \in T
  <2> TAKE i \in 1..Len(b.planes)
  <2>1. v.planes[i] \in ToSet(v.planes)
    BY <1>1 DEF ToSet
  <2>2. Size(v.planes[i].offset + v.planes[i].length) \in T
    BY <2>1
  <2> HIDE DEF T
  <2> QED BY <1>3, <2>2
<1>6. v.planes[1].fd = b.planes[1].fd
  BY <1>1, ViewFields
<1>7. Wrapped(v) = [k \in 1..m |-> <<b.planes[1].fd, 0 + k - 1>>]
  BY <1>6 DEF Wrapped
<1> HIDE DEF T
<1>8. m \in 0..SizeMax /\ \A k \in T : k <= m
  BY <1>4, GreatestIsMax, WidthAssumption
<1> HIDE DEF m, v
<1>9. m \in Nat
  BY <1>8, WidthAssumption
<1> DEFINE g == [k \in 1..m |-> <<b.planes[1].fd, 0 + k - 1>>]
<1>10. Len(g) = m
  BY <1>9
<1>11. ASSUME NEW k \in 1..m PROVE g[k] = <<b.planes[1].fd, k - 1>>
  <2>1. 0 + k - 1 = k - 1
    OBVIOUS
  <2> QED BY <2>1
<1> HIDE DEF g
<1> QED BY <1>5, <1>7, <1>8, <1>9, <1>10, <1>11 DEF v, g

(* A sample of a whole picture, in its plane. *)
LEMMA SampleInPlane ==
  ASSUME NEW b \in BufferLayout, WholePicture(b), NEW s \in Samples(b)
  PROVE  LET c == s[1]
             i == PlaneOf(b, c)
             n == s[2] * ComponentStride(b, c) + s[3]
             p == b.planes[i]
         IN /\ c \in 1..3 /\ i \in 1..Len(b.planes) /\ n \in Nat /\ BlockStart(b, c) \in Nat
            /\ p.offset \in Nat /\ p.length \in Nat
            /\ ByteOf(b, s) = <<p.fd, p.offset + (BlockStart(b, c) + n)>>
            /\ BlockStart(b, c) + n < p.length
            /\ \A m \in Nat : 1 + m + s[2] * ComponentStride(b, c) + s[3] = 1 + m + n
<1> DEFINE c == s[1]
           i == PlaneOf(b, c)
           t == s[2] * ComponentStride(b, c)
           n == t + s[3]
           p == b.planes[i]
<1>1. EvenShape(b) /\ Len(b.planes) \in {1, 3}
  BY DEF WholePicture
<1>2. /\ c \in 1..3 /\ BlockStart(b, c) \in Nat /\ n \in Nat
      /\ OffsetOf(b, s) = BlockStart(b, c) + n /\ OffsetOf(b, s) \in Nat
  BY <1>1, SampleOffset
<1>3. i \in 1..Len(b.planes)
  BY <1>1, <1>2, BlocksMean
<1>4. OffsetOf(b, s) < p.length
  BY HoldsPictureMeans DEF HoldsPicture, Holds
<1>5. p.offset \in Nat /\ p.length \in Nat
  <2>1. p.offset \in 0..UIntMax /\ p.length \in 0..UIntMax
    BY <1>3, PlaneType
  <2> QED BY <2>1, WidthAssumption
<1>6. ByteOf(b, s) = <<p.fd, p.offset + OffsetOf(b, s)>>
  BY DEF ByteOf
<1>7. t \in Nat /\ s[3] \in Nat
  <2>1. s[2] \in 0..ComponentHeight(b, c)-1 /\ s[3] \in 0..ComponentWidth(b, c)-1
    BY <1>1, SampleMeans
  <2>2. /\ ComponentHeight(b, c) \in Nat /\ ComponentWidth(b, c) \in Nat
        /\ ComponentStride(b, c) \in Nat
    BY <1>1, <1>2, ComponentType
  <2>3. s[2] \in Nat /\ s[3] \in Nat
    BY <2>1, <2>2
  <2>4. \A x, y \in Nat : x * y \in Nat
    OBVIOUS
  <2> QED BY <2>2, <2>3, <2>4
<1> HIDE DEF t
<1>8. \A m \in Nat : 1 + m + t + s[3] = 1 + m + n
  BY <1>7
<1> QED BY <1>2, <1>3, <1>4, <1>5, <1>6, <1>8 DEF t

LEMMA SharedShowsPicture ==
  ASSUME NEW b \in BufferLayout, Mappable(b), WholePicture(b), Adjoin(b),
         SharedFd(makeView(b))
  PROVE  ShowsPicture(b)
<1> DEFINE v == makeView(b)
           bytes == Wrapped(v)
           z == Quarter(b.stride, b.height)
<1>0. EvenShape(b) /\ Len(b.planes) \in {1, 3} /\ Len(b.planes) > 0
  <2>1. EvenShape(b) /\ (Len(b.planes) = 1 \/ Len(b.planes) = 3)
    BY DEF WholePicture
  <2> QED BY <2>1, SMTT(30)
<1>1. /\ Len(bytes) \in Nat
      /\ \A k \in 1..Len(bytes) : bytes[k] = <<b.planes[1].fd, k - 1>>
      /\ \A i \in 1..Len(b.planes) : b.planes[i].offset + b.planes[i].length <= Len(bytes)
  BY <1>0, SharedRun
<1>2. \A i \in 1..Len(b.planes) : b.planes[i].fd = b.planes[1].fd
  BY <1>0, SharedFdMeans
<1>3. ASSUME NEW c \in 1..3
      PROVE  /\ MetaOffsets(v)[c] = b.planes[PlaneOf(b, c)].offset + BlockStart(b, c)
  <2>1. /\ BlockStart(b, c) = IF Len(b.planes) = 3 \/ c = 1 THEN 0
                              ELSE IF c = 2 THEN 4 * z ELSE 5 * z
        /\ PlaneOf(b, c) = IF Len(b.planes) = 3 THEN c ELSE 1
        /\ PlaneOf(b, c) \in 1..Len(b.planes) /\ z \in Nat
    BY <1>0, BlocksMean
  <2>2. Len(v.planes) = Len(b.planes)
    BY ViewFields
  <2>3. CASE Len(b.planes) = 3
    <3>1. MetaOffsets(v) = [i \in 1..3 |-> v.planes[i].offset]
      BY <2>2, <2>3 DEF MetaOffsets
    <3>2. c \in 1..Len(b.planes)
      BY <2>3
    <3>3. v.planes[c].offset = b.planes[c].offset
      BY <3>2, ViewFields
    <3>4. b.planes[c].offset \in Nat
      <4>1. b.planes[c].offset \in 0..UIntMax
        BY <3>2, PlaneType
      <4> QED BY <4>1, WidthAssumption
    <3>5. BlockStart(b, c) = 0 /\ PlaneOf(b, c) = c
      BY <2>1, <2>3
    <3>6. MetaOffsets(v)[c] = v.planes[c].offset
      BY <3>1
    <3> QED BY <3>3, <3>4, <3>5, <3>6
  <2>4. CASE Len(b.planes) = 1
    <3>1. 5 * z <= SizeMax
      <4>1. 1 \in 1..Len(b.planes)
        BY <2>4
      <4>2. 6 * z <= Held(b, 1)
        BY <2>4 DEF WholePicture
      <4>3. Held(b, 1) \in Nat /\ Held(b, 1) <= SizeMax
        BY <4>1, PlaneType
      <4> HIDE DEF z
      <4> QED BY <2>1, <4>2, <4>3, WidthAssumption
    <3>2. MetaOffsets(v) = <<0, 4 * z, 5 * z>>
      <4>1. LET u == Size(v.stride * v.height)
            IN u = 4 * z /\ Size(u + (v.stride \div 2) * (v.height \div 2)) = 5 * z
        BY <1>0, <3>1, OffsetsComputed
      <4> QED BY <2>2, <2>4, <4>1 DEF MetaOffsets
    <3>3. b.planes[1].offset = 0 /\ PlaneOf(b, c) = 1
      BY <2>1, <2>4 DEF Adjoin
    <3> HIDE DEF z
    <3>4. c = 1 \/ c = 2 \/ c = 3
      OBVIOUS
    <3> QED BY <2>1, <2>4, <3>2, <3>3, <3>4
  <2> QED BY <1>0, <2>3, <2>4
<1> HIDE DEF v, bytes
<1>4. ASSUME NEW s \in Samples(b)
      PROVE  LET k == 1 + MetaOffsets(v)[s[1]] + s[2] * ComponentStride(b, s[1]) + s[3]
             IN k <= Len(bytes) /\ bytes[k] = ByteOf(b, s)
  <2> DEFINE c == s[1]
             i == PlaneOf(b, c)
             n == s[2] * ComponentStride(b, c) + s[3]
             p == b.planes[i]
             g == BlockStart(b, c)
             k == 1 + MetaOffsets(v)[c] + s[2] * ComponentStride(b, c) + s[3]
  <2>1. /\ c \in 1..3 /\ i \in 1..Len(b.planes) /\ n \in Nat /\ g \in Nat
        /\ p.offset \in Nat /\ p.length \in Nat
        /\ ByteOf(b, s) = <<p.fd, p.offset + (g + n)>> /\ g + n < p.length
        /\ \A m \in Nat : 1 + m + s[2] * ComponentStride(b, c) + s[3] = 1 + m + n
    BY SampleInPlane
  <2>2. MetaOffsets(v)[c] = p.offset + g /\ p.offset + g \in Nat
    <3>1. MetaOffsets(v)[c] = b.planes[PlaneOf(b, c)].offset + BlockStart(b, c)
      BY <1>3, <2>1
    <3> QED BY <2>1, <3>1
  <2>3. k = 1 + (p.offset + g) + n
    BY <2>1, <2>2
  <2>4. p.offset + p.length <= Len(bytes) /\ p.fd = b.planes[1].fd
    BY <1>1, <1>2, <2>1
  <2> HIDE DEF c, i, n, p, g, k
  <2>5. k \in 1..Len(bytes) /\ k - 1 = p.offset + (g + n)
    <3>1. /\ Len(bytes) \in Nat /\ n \in Nat /\ g \in Nat /\ p.offset \in Nat
          /\ p.length \in Nat /\ g + n < p.length /\ p.offset + p.length <= Len(bytes)
      BY <1>1, <2>1, <2>4
    <3> QED BY <2>3, <3>1, SMTT(30)
  <2>6. bytes[k] = ByteOf(b, s) /\ k <= Len(bytes)
    BY <1>1, <2>1, <2>4, <2>5
  <2> QED BY <2>6 DEF k, c
<1> QED BY <1>4 DEF ShowsPicture, v, bytes

LEMMA ApartShowsPicture ==
  ASSUME NEW b \in BufferLayout, Mappable(b), WholePicture(b), Adjoin(b),
         ~SharedFd(makeView(b)), Len(b.planes) = 3
  PROVE  ShowsPicture(b)
<1> DEFINE v == makeView(b)
           bytes == Wrapped(v)
           z == Quarter(b.stride, b.height)
           F(fd, offset, length) == [k \in 1..length |-> <<fd, offset + k - 1>>]
           Mem(i) == F(v.planes[i].fd, v.planes[i].offset, v.planes[i].length)
<1>0. EvenShape(b) /\ Len(b.planes) > 0 /\ Len(v.planes) = 3
  BY ViewFields DEF WholePicture
<1>1. z \in Nat /\ b.stride * b.height = 4 * z /\ (b.stride * b.height) \div 4 = z
  BY <1>0, BufferType, QuarterMeans DEF EvenShape, Even
<1>2. b.planes[1].length = 4 * z /\ b.planes[2].length = z /\ 5 * z <= SizeMax
  <2>1. ~SharedFd(b)
    BY <1>0, SharedFdMeans
  <2>2. LET y == b.stride * b.height IN
        b.planes[1].length = y /\ b.planes[2].length = y \div 4 /\ y + y \div 4 <= SizeMax
    BY <2>1 DEF Adjoin
  <2> HIDE DEF z
  <2>3. 4 * z + z = 5 * z
    BY <1>1
  <2> QED BY <1>1, <2>2, <2>3
<1>3. ASSUME NEW i \in 1..3
      PROVE  LET p == b.planes[i] IN
             /\ Mem(i) \in Seq(Fds \X Nat) /\ Len(Mem(i)) = p.length
             /\ \A n \in Nat : n < p.length => Mem(i)[1 + n] = <<p.fd, p.offset + n>>
                                               /\ 1 + n \in 1..Len(Mem(i))
  <2> DEFINE p == b.planes[i]
             g == Mem(i)
             S == Fds \X Nat
             m == p.length
  <2>1. i \in 1..Len(b.planes)
    OBVIOUS
  <2>2. /\ v.planes[i].fd = p.fd /\ v.planes[i].offset = p.offset
        /\ v.planes[i].length = p.length
    BY <2>1, ViewFields
  <2>3. p.fd \in Fds /\ p.offset \in Nat /\ p.length \in Nat
    <3>1. p.fd \in Fds /\ p.offset \in 0..UIntMax /\ p.length \in 0..UIntMax
      BY <2>1, PlaneType
    <3> QED BY <3>1, WidthAssumption
  <2>4. g = [k \in 1..m |-> <<p.fd, p.offset + k - 1>>]
    BY <2>2
  <2> HIDE DEF g
  <2>5. g \in [1..m -> Fds \X Nat]
    BY <2>3, <2>4
  <2>6. \A n \in Nat : n < m => g[1 + n] = <<p.fd, p.offset + n>> /\ 1 + n \in 1..m
    <3> TAKE n \in Nat
    <3> HAVE n < m
    <3>1. 1 + n \in 1..m /\ p.offset + (1 + n) - 1 = p.offset + n
      BY <2>3
    <3> QED BY <2>4, <3>1
  <2> HIDE DEF S, m
  <2>7. g \in Seq(S) /\ Len(g) = m
    <3>1. g \in [1..m -> S] /\ m \in Nat
      BY <2>3, <2>5 DEF S, m
    <3> QED BY <3>1
  <2> QED BY <2>6, <2>7 DEF g, S, m
<1>4. bytes = Mem(1) \o Mem(2) \o Mem(3)
  BY DEF Wrapped
<1>5. MetaOffsets(v) = <<0, 4 * z, 5 * z>>
  <2>1. LET u == Size(v.stride * v.height)
        IN u = 4 * z /\ Size(u + (v.stride \div 2) * (v.height \div 2)) = 5 * z
    BY <1>0, <1>2, OffsetsComputed
  <2> QED BY <2>1 DEF MetaOffsets
<1>6. 1 \in 1..3 /\ 2 \in 1..3 /\ 3 \in 1..3
  OBVIOUS
<1> HIDE DEF v, bytes, z, Mem
<1>7. /\ Len(bytes) = 4 * z + z + b.planes[3].length
      /\ \A k \in 1..Len(Mem(1)) : bytes[k] = Mem(1)[k]
      /\ \A k \in 1..Len(Mem(2)) : bytes[4 * z + k] = Mem(2)[k]
      /\ \A k \in 1..Len(Mem(3)) : bytes[4 * z + z + k] = Mem(3)[k]
  <2> DEFINE S == Fds \X Nat
             A == Mem(1)
             B == Mem(2)
             C == Mem(3)
  <2>1. /\ A \in Seq(S) /\ B \in Seq(S) /\ C \in Seq(S) /\ bytes = A \o B \o C
    BY <1>3, <1>4, <1>6
  <2>3. Len(A) = 4 * z /\ Len(B) = z /\ Len(C) = b.planes[3].length
    BY <1>2, <1>3, <1>6
  <2> HIDE DEF S, A, B, C
  <2>2. /\ Len(bytes) = Len(A) + Len(B) + Len(C)
        /\ \A k \in 1..Len(A) : bytes[k] = A[k]
        /\ \A k \in 1..Len(B) : bytes[Len(A) + k] = B[k]
        /\ \A k \in 1..Len(C) : bytes[Len(A) + Len(B) + k] = C[k]
    BY <2>1, Joined
  <2> QED BY <2>2, <2>3 DEF A, B, C
<1>8. ASSUME NEW s \in Samples(b)
      PROVE  LET k == 1 + MetaOffsets(v)[s[1]] + s[2] * ComponentStride(b, s[1]) + s[3]
             IN k <= Len(bytes) /\ bytes[k] = ByteOf(b, s)
  <2> DEFINE c == s[1]
             n == s[2] * ComponentStride(b, c) + s[3]
             p == b.planes[c]
             k == 1 + MetaOffsets(v)[c] + s[2] * ComponentStride(b, c) + s[3]
  <2>1. /\ c \in 1..3 /\ n \in Nat /\ PlaneOf(b, c) = c /\ BlockStart(b, c) = 0
        /\ p.offset \in Nat /\ p.length \in Nat
        /\ ByteOf(b, s) = <<p.fd, p.offset + (0 + n)>> /\ 0 + n < p.length
        /\ \A m \in Nat : 1 + m + s[2] * ComponentStride(b, c) + s[3] = 1 + m + n
    <3>1. c \in 1..3
      BY <1>0, SampleMeans
    <3>2. PlaneOf(b, c) = c /\ BlockStart(b, c) = 0
      BY <1>0, <3>1, BlocksMean
    <3> QED BY <3>1, <3>2, SampleInPlane
  <2>2. ByteOf(b, s) = <<p.fd, p.offset + n>> /\ n < p.length
    BY <2>1
  <2>3. Mem(c)[1 + n] = <<p.fd, p.offset + n>> /\ 1 + n \in 1..Len(Mem(c))
        /\ Len(Mem(c)) = p.length
    BY <1>3, <2>1, <2>2
  <2>4. MetaOffsets(v)[c] \in Nat /\ MetaOffsets(v)[c] =
          IF c = 1 THEN 0 ELSE IF c = 2 THEN 4 * z ELSE 5 * z
    BY <1>1, <1>5, <2>1
  <2>5. k = 1 + MetaOffsets(v)[c] + n
    BY <2>1, <2>4
  <2>6. b.planes[3].length \in Nat
    <3>1. 3 \in 1..Len(b.planes)
      OBVIOUS
    <3>2. b.planes[3].length \in 0..UIntMax
      BY <3>1, PlaneType
    <3> QED BY <3>2, WidthAssumption
  <2> HIDE DEF n, k, p
  <2>7. k <= Len(bytes) /\ bytes[k] = Mem(c)[1 + n]
    <3>1. CASE c = 1
      <4>1. k = 1 + n /\ n < 4 * z
        <5>1. MetaOffsets(v)[c] = 0 /\ p.length = 4 * z
          BY <1>2, <2>4, <3>1 DEF p
        <5> QED BY <2>1, <2>2, <2>5, <5>1
      <4>2. k <= Len(bytes)
        BY <1>1, <1>7, <2>1, <2>6, <4>1, SMTT(20)
      <4> QED BY <1>7, <2>3, <3>1, <4>1, <4>2
    <3>2. CASE c = 2
      <4>1. k = 4 * z + (1 + n) /\ n < z
        BY <1>1, <1>2, <2>1, <2>2, <2>4, <2>5, <3>2 DEF p
      <4>2. k <= Len(bytes)
        BY <1>1, <1>7, <2>1, <2>6, <4>1
      <4> QED BY <1>7, <2>3, <3>2, <4>1, <4>2
    <3>3. CASE c = 3
      <4>1. k = 4 * z + z + (1 + n) /\ n < b.planes[3].length
        BY <1>1, <2>1, <2>2, <2>4, <2>5, <3>3 DEF p
      <4>2. k <= Len(bytes)
        BY <1>1, <1>7, <2>1, <2>6, <4>1
      <4> QED BY <1>7, <2>3, <3>3, <4>1, <4>2
    <3> QED BY <2>1, <3>1, <3>2, <3>3
  <2>8. k <= Len(bytes) /\ bytes[k] = ByteOf(b, s)
    BY <2>2, <2>3, <2>7
  <2> QED BY <2>8 DEF k
<1> QED BY <1>8 DEF ShowsPicture, v, bytes

LEMMA RawBufferShows ==
  ASSUME NEW b \in BufferLayout, Mappable(b), HoldsPicture(b)
  PROVE  Wraps(makeView(b)) /\ (Adjoin(b) => ShowsPicture(b))
<1>1. WholePicture(b) /\ Len(b.planes) \in {1, 3} /\ Len(b.planes) > 0
  <2>1. WholePicture(b)
    BY HoldsPictureMeans
  <2>2. Len(b.planes) = 1 \/ Len(b.planes) = 3
    BY <2>1 DEF WholePicture
  <2>3. Len(b.planes) \in {1, 3} /\ Len(b.planes) > 0
    BY <2>2
  <2> QED BY <2>1, <2>3
<1>2. Len(makeView(b).planes) = Len(b.planes) /\ makeView(b).planes # <<>>
  BY <1>1, ViewFields
<1>3. Len(b.planes) = 1 => SharedFd(makeView(b))
  <2>1. Len(b.planes) = 1 => \A i \in 1..Len(b.planes) : i = 1
    OBVIOUS
  <2> QED BY <1>1, <2>1, SharedFdMeans
<1>4. Wraps(makeView(b))
  BY <1>1, <1>2, <1>3 DEF Wraps
<1>5. Adjoin(b) => ShowsPicture(b)
  BY <1>1, <1>3, SharedShowsPicture, ApartShowsPicture
<1> QED BY <1>4, <1>5

-----------------------------------------------------------------------------
(* The buffers of the instance are such layouts.                           *)

LEMMA FitType == ASSUME NEW n \in Nat PROVE Fit(n) \in 0..UIntMax
<1> DEFINE T == {n, UIntMax}
<1>1. \E x \in T : \A y \in T : x =< y
  BY WidthAssumption
<1>2. Min(T) \in T /\ \A y \in T : Min(T) =< y
  BY <1>1, Zenon DEF Min
<1> QED BY <1>2, WidthAssumption DEF Fit

LEMMA PlaneInLayout ==
  ASSUME NEW fd \in 1..3, NEW offset \in Nat, NEW length \in Nat
  PROVE  Plane(fd, offset, length) \in PlaneLayout
<1>1. Fit(offset) \in 0..UIntMax /\ Fit(length) \in 0..UIntMax
  BY FitType
<1>2. fd \in Fds
  BY InferenceBoundAssumption
<1> QED BY <1>1, <1>2 DEF Plane, PlaneLayout

LEMMA ArrangementType ==
  ASSUME NEW y \in Nat, NEW chroma \in Nat, NEW planes \in Arrangements(y, chroma)
  PROVE  planes \in Seq(PlaneLayout) /\ Len(planes) \in Nat \ {0}
<1>1. 1 \in 1..3 /\ 2 \in 1..3 /\ 3 \in 1..3
  OBVIOUS
<1>2. y + chroma \in Nat /\ y + 2 * chroma \in Nat /\ 2 * chroma \in Nat /\ 0 \in Nat
  OBVIOUS
<1>3. /\ Plane(1, 0, y) \in PlaneLayout /\ Plane(1, y, chroma) \in PlaneLayout
      /\ Plane(1, y + chroma, chroma) \in PlaneLayout
      /\ Plane(2, 0, chroma) \in PlaneLayout /\ Plane(3, 0, chroma) \in PlaneLayout
      /\ Plane(2, chroma, chroma) \in PlaneLayout
      /\ Plane(1, 0, y + 2 * chroma) \in PlaneLayout /\ Plane(2, 0, 2 * chroma) \in PlaneLayout
  BY <1>1, <1>2, PlaneInLayout
<1>4. /\ \A p, q, r \in PlaneLayout :
           <<p, q, r>> \in Seq(PlaneLayout) /\ Len(<<p, q, r>>) = 3
      /\ \A p, q \in PlaneLayout : <<p, q>> \in Seq(PlaneLayout) /\ Len(<<p, q>>) = 2
      /\ \A p \in PlaneLayout : <<p>> \in Seq(PlaneLayout) /\ Len(<<p>>) = 1
  OBVIOUS
<1>5. \/ planes = <<Plane(1, 0, y), Plane(1, y, chroma), Plane(1, y + chroma, chroma)>>
      \/ planes = <<Plane(1, 0, y), Plane(2, 0, chroma), Plane(3, 0, chroma)>>
      \/ planes = <<Plane(1, 0, y), Plane(2, 0, chroma), Plane(2, chroma, chroma)>>
      \/ planes = <<Plane(1, 0, y + 2 * chroma)>>
      \/ planes = <<Plane(1, 0, y), Plane(2, 0, 2 * chroma)>>
  BY DEF Arrangements
<1>6. CASE planes = <<Plane(1, 0, y), Plane(1, y, chroma), Plane(1, y + chroma, chroma)>>
  <2>1. planes \in Seq(PlaneLayout) /\ Len(planes) = 3
    BY <1>3, <1>4, <1>6, Zenon
  <2> QED BY <2>1
<1>7. CASE planes = <<Plane(1, 0, y), Plane(2, 0, chroma), Plane(3, 0, chroma)>>
  <2>1. planes \in Seq(PlaneLayout) /\ Len(planes) = 3
    BY <1>3, <1>4, <1>7, Zenon
  <2> QED BY <2>1
<1>8. CASE planes = <<Plane(1, 0, y), Plane(2, 0, chroma), Plane(2, chroma, chroma)>>
  <2>1. planes \in Seq(PlaneLayout) /\ Len(planes) = 3
    BY <1>3, <1>4, <1>8, Zenon
  <2> QED BY <2>1
<1>9. CASE planes = <<Plane(1, 0, y + 2 * chroma)>>
  <2>1. planes \in Seq(PlaneLayout) /\ Len(planes) = 1
    BY <1>3, <1>4, <1>9, Zenon
  <2> QED BY <2>1
<1>10. CASE planes = <<Plane(1, 0, y), Plane(2, 0, 2 * chroma)>>
  <2>1. planes \in Seq(PlaneLayout) /\ Len(planes) = 2
    BY <1>3, <1>4, <1>10, Zenon
  <2> QED BY <2>1
<1> QED BY <1>5, <1>6, <1>7, <1>8, <1>9, <1>10, Zenon

(* A layout with bytes used of every plane. *)
FullLayout(b) == b \in BufferLayout /\ Len(b.bytesused) = Len(b.planes) /\ Len(b.planes) > 0

LEMMA LayoutType ==
  ASSUME NEW shape \in Shapes, NEW padding \in Nat, NEW b \in LayoutsOf(shape, padding)
  PROVE  FullLayout(b)
<1> DEFINE w == shape[1]
           h == shape[2]
           stride == w + padding
           y == stride * h
<1>1. w \in Nat /\ h \in Nat /\ padding \in Nat
  BY DEF Shapes
<1>2. stride \in Nat
  BY <1>1
<1> HIDE DEF w, h
<1>3. y \in Nat /\ y \div 4 \in Nat /\ y \div 2 \in Nat /\ y + y \div 2 \in Nat
  <2>1. y \in Nat
    BY <1>1, <1>2
  <2> HIDE DEF y
  <2> QED BY <2>1
<1>4. PICK planes \in Arrangements(y, y \div 4) : b = Layout(shape, padding, planes)
  BY DEF LayoutsOf, w, h
<1>5. planes \in Seq(PlaneLayout) /\ Len(planes) \in Nat \ {0}
  <2> HIDE DEF y
  <2> QED BY <1>3, ArrangementType
<1> DEFINE used == [i \in 1..Len(planes) |-> planes[i].length]
           S == 0..UIntMax
<1>6. used \in Seq(S) /\ Len(used) = Len(planes)
  <2>1. ASSUME NEW i \in 1..Len(planes) PROVE planes[i].length \in S
    <3>1. planes[i] \in PlaneLayout
      BY <1>5, ElementOfSeq
    <3> QED BY <3>1 DEF PlaneLayout
  <2> HIDE DEF S
  <2> QED BY <1>5, <2>1
<1>7. Fit(y + y \div 2) \in 0..UIntMax
  <2> HIDE DEF y
  <2> QED BY <1>3, FitType
<1>8. b = [width |-> w, height |-> h, stride |-> stride, frame_size |-> Fit(y + y \div 2),
           planes |-> planes, bytesused |-> used]
  BY <1>4 DEF Layout, w, h
<1> HIDE DEF stride, y, used
<1>9. b \in BufferLayout
  BY <1>1, <1>2, <1>5, <1>6, <1>7, <1>8 DEF BufferLayout
<1> QED BY <1>5, <1>6, <1>8, <1>9 DEF FullLayout

LEMMA VariantType ==
  ASSUME NEW l, FullLayout(l), NEW b \in Variants(l)
  PROVE  b \in BufferLayout
<1> DEFINE I == 1..Len(l.planes)
           S == 0..UIntMax
<1>1. /\ l \in BufferLayout /\ l.planes \in Seq(PlaneLayout) /\ l.bytesused \in Seq(S)
      /\ Len(l.bytesused) = Len(l.planes) /\ Len(l.planes) \in Nat /\ Len(l.planes) > 0
  BY BufferType DEF FullLayout, BufferLayout
<1>2. ASSUME NEW n PROVE Around(n) \subseteq S
  BY DEF Around
<1>3. \/ b = l \/ b = [l EXCEPT !.bytesused = SubSeq(@, 1, 1)]
      \/ \E n \in S : b = [l EXCEPT !.frame_size = n]
      \/ \E i \in I, n \in S : b = [l EXCEPT !.planes[i].offset = n]
      \/ \E i \in I, n \in S : b = [l EXCEPT !.planes[i].length = n]
      \/ \E i \in I, n \in S : b = [l EXCEPT !.bytesused[i] = n]
  <2> DEFINE own == {l, [l EXCEPT !.bytesused = SubSeq(@, 1, 1)]}
             framed == {[l EXCEPT !.frame_size = n] : n \in Around(l.frame_size)}
             moved(i) == {[l EXCEPT !.planes[i].offset = n] : n \in Around(l.planes[i].offset)}
             cut(i) == {[l EXCEPT !.planes[i].length = n] : n \in Around(l.planes[i].length)}
             filled(i) == {[l EXCEPT !.bytesused[i] = n] : n \in Around(l.bytesused[i])}
  <2>1. b \in own \cup framed \cup (UNION {moved(i) : i \in I}) \cup (UNION {cut(i) : i \in I})
               \cup (UNION {filled(i) : i \in I})
    BY DEF Variants
  <2> HIDE DEF own, framed, moved, cut, filled, I, S
  <2>2. \/ b \in own
        \/ b \in framed
        \/ \E i \in I : b \in moved(i)
        \/ \E i \in I : b \in cut(i)
        \/ \E i \in I : b \in filled(i)
    <3>1. b \in UNION {moved(i) : i \in I} => \E i \in I : b \in moved(i)
      BY Zenon
    <3>2. b \in UNION {cut(i) : i \in I} => \E i \in I : b \in cut(i)
      BY Zenon
    <3>3. b \in UNION {filled(i) : i \in I} => \E i \in I : b \in filled(i)
      BY Zenon
    <3> QED BY <2>1, <3>1, <3>2, <3>3, Zenon
  <2>3. \A n, m : m \in Around(n) => m \in S
    BY <1>2
  <2>4. b \in own => b = l \/ b = [l EXCEPT !.bytesused = SubSeq(@, 1, 1)]
    BY DEF own
  <2>5. b \in framed => \E n \in S : b = [l EXCEPT !.frame_size = n]
    BY <2>3 DEF framed
  <2>6. \A i \in I : b \in moved(i) => \E n \in S : b = [l EXCEPT !.planes[i].offset = n]
    BY <2>3 DEF moved
  <2>7. \A i \in I : b \in cut(i) => \E n \in S : b = [l EXCEPT !.planes[i].length = n]
    BY <2>3 DEF cut
  <2>8. \A i \in I : b \in filled(i) => \E n \in S : b = [l EXCEPT !.bytesused[i] = n]
    BY <2>3 DEF filled
  <2> QED BY <2>2, <2>4, <2>5, <2>6, <2>7, <2>8, Zenon
<1> HIDE DEF S
<1>4. ASSUME NEW u \in Seq(S), b = [l EXCEPT !.bytesused = u] PROVE b \in BufferLayout
  BY <1>1, <1>4 DEF BufferLayout, S
<1>5. ASSUME NEW p \in Seq(PlaneLayout), b = [l EXCEPT !.planes = p] PROVE b \in BufferLayout
  BY <1>1, <1>5 DEF BufferLayout
<1>6. CASE b = [l EXCEPT !.bytesused = SubSeq(@, 1, 1)]
  <2>1. SubSeq(l.bytesused, 1, 1) \in Seq(S)
    BY <1>1, SubSeqProperties
  <2>2. b = [l EXCEPT !.bytesused = SubSeq(l.bytesused, 1, 1)]
    BY <1>6
  <2> QED BY <1>4, <2>1, <2>2
<1>7. CASE \E n \in S : b = [l EXCEPT !.frame_size = n]
  BY <1>1, <1>7 DEF BufferLayout, S
<1>8. ASSUME NEW i \in I, NEW d \in PlaneLayout
      PROVE  [l.planes EXCEPT ![i] = d] \in Seq(PlaneLayout)
  BY <1>1
<1>9. ASSUME NEW i \in I, NEW n \in S
      PROVE  /\ [l.planes[i] EXCEPT !.offset = n] \in PlaneLayout
             /\ [l.planes[i] EXCEPT !.length = n] \in PlaneLayout
             /\ [l.bytesused EXCEPT ![i] = n] \in Seq(S)
  <2>1. l.planes[i] \in PlaneLayout
    BY <1>1
  <2>2. [l.bytesused EXCEPT ![i] = n] \in Seq(S)
    BY <1>1
  <2> QED BY <2>1, <2>2 DEF PlaneLayout, S
<1>10. ASSUME NEW i \in I, NEW n \in S, b = [l EXCEPT !.planes[i].offset = n]
       PROVE  b \in BufferLayout
  <2> DEFINE p == [l.planes EXCEPT ![i] = [l.planes[i] EXCEPT !.offset = n]]
  <2>1. p \in Seq(PlaneLayout)
    BY <1>8, <1>9
  <2>2. b = [l EXCEPT !.planes = p]
    BY <1>10
  <2> HIDE DEF p
  <2> QED BY <1>5, <2>1, <2>2
<1>11. ASSUME NEW i \in I, NEW n \in S, b = [l EXCEPT !.planes[i].length = n]
       PROVE  b \in BufferLayout
  <2> DEFINE p == [l.planes EXCEPT ![i] = [l.planes[i] EXCEPT !.length = n]]
  <2>1. p \in Seq(PlaneLayout)
    BY <1>8, <1>9
  <2>2. b = [l EXCEPT !.planes = p]
    BY <1>11
  <2> HIDE DEF p
  <2> QED BY <1>5, <2>1, <2>2
<1>12. ASSUME NEW i \in I, NEW n \in S, b = [l EXCEPT !.bytesused[i] = n]
       PROVE  b \in BufferLayout
  <2> DEFINE u == [l.bytesused EXCEPT ![i] = n]
  <2>1. u \in Seq(S)
    BY <1>9
  <2>2. b = [l EXCEPT !.bytesused = u]
    BY <1>12
  <2> HIDE DEF u
  <2> QED BY <1>4, <2>1, <2>2
<1> QED BY <1>1, <1>3, <1>6, <1>7, <1>10, <1>11, <1>12

LEMMA InstanceLayouts ==
  /\ LoresBuffers \in SUBSET BufferLayout /\ MainBuffers \in SUBSET BufferLayout
  /\ \A b \in LoresBuffers \cup MainBuffers : Mappable(b)
<1>1. ASSUME NEW b \in LoresBuffers PROVE b \in BufferLayout
  <2>1. PICK shape \in Shapes, padding \in Padding :
          \E l \in LayoutsOf(shape, padding) : b \in Variants(l)
    BY DEF LoresBuffers
  <2>2. PICK l \in LayoutsOf(shape, padding) : b \in Variants(l)
    BY <2>1
  <2>3. FullLayout(l)
    BY <2>2, InferenceBoundAssumption, LayoutType
  <2> QED BY <2>2, <2>3, VariantType
<1>2. \A b \in LoresBuffers \cup MainBuffers : Mappable(b)
  BY DEF LoresBuffers, MainBuffers
<1>3. ASSUME NEW b \in MainBuffers PROVE b \in BufferLayout
  <2>1. b \in LayoutsOf(<<2, 2>>, 0) /\ <<2, 2>> \in Shapes /\ 0 \in Nat
    BY DEF MainBuffers, Shapes
  <2> QED BY <2>1, LayoutType DEF FullLayout
<1> QED BY <1>1, <1>2, <1>3

(* makeRawBuffer() wraps every picture that lies whole in a buffer of the  *)
(* camera, and where the components adjoin as it assumes, the encoder      *)
(* finds in the wrapped bytes, at the offsets and strides of the video     *)
(* meta, the very sample the picture has there: for every layout of        *)
(* unsigned numbers, and so for the layouts the instance checks.           *)
THEOREM RawBufferAlwaysShowsPicture ==
  /\ \A b \in BufferLayout : Mappable(b) /\ HoldsPicture(b) =>
       Wraps(makeView(b)) /\ (Adjoin(b) => ShowsPicture(b))
  /\ MCSpec => []RawBufferShowsPicture
<1>1. \A b \in BufferLayout : Mappable(b) /\ HoldsPicture(b) =>
        Wraps(makeView(b)) /\ (Adjoin(b) => ShowsPicture(b))
  BY RawBufferShows
<1>2. RawBufferShowsPicture
  BY <1>1, InstanceLayouts DEF RawBufferShowsPicture
<1>3. MCSpec => []RawBufferShowsPicture
  BY <1>2, PTL
<1> QED BY <1>1, <1>3

(* The buffers of the instance are layouts the two theorems on reading     *)
(* speak of, so its runs are among the behaviours they cover: whatever the *)
(* bounds, the instance reads whole pictures and only in a session.        *)
COROLLARY InstanceReads ==
  MCSpec => [](ReadsInSession /\ ReadsWholePictures)
<1>1. MCSpec => Spec(LoresBuffers, MainBuffers)
  <2>1. \A b \in LoresBuffers \cup MainBuffers : Mappable(b)
    BY InstanceLayouts
  <2>2. MCNext => Next(LoresBuffers, MainBuffers) \/ UNCHANGED vars
    BY <2>1, Zenon DEF MCNext, Next
  <2>3. [MCNext]_vars => [Next(LoresBuffers, MainBuffers)]_vars
    BY <2>2
  <2> QED BY <2>3, PTL DEF MCSpec, Spec
<1>2. Spec(LoresBuffers, MainBuffers) => []ReadsInSession
  BY InstanceLayouts, ReadsAlwaysInSession
<1>3. Spec(LoresBuffers, MainBuffers) => []ReadsWholePictures
  BY InstanceLayouts, ReadsAlwaysWholePictures
<1> QED BY <1>1, <1>2, <1>3, PTL
=============================================================================
