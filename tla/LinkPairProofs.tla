--------------------------- MODULE LinkPairProofs ---------------------------
(***************************************************************************)
(* What a caller and the station that takes its call know of each other:   *)
(* sequence counters and the floor.  The invariant speaks of the frames    *)
(* one of them will still read in this session (Live) and, until it has    *)
(* read the frame that takes it in, of the state it will start from        *)
(* (View).  The second half adds what the frames carry: which chunks are   *)
(* on their way, what the receiver holds of the message, and what an       *)
(* acknowledgement says of it.                                             *)
(***************************************************************************)
EXTENDS LinkProofs

----------------------------------------------------------------------------
(* Queues.  J is the set of indices of q that count. *)

None(q, J, F) == \A i \in J : q[i] \notin F

\* No frame of G behind one of F.
Never(q, J, F, G) == \A i, j \in J : i < j /\ q[i] \in F => q[j] \notin G

\* K of r is what is left of J of q, in its order, and then frames of F.
Evolved(q, J, r, K, F) ==
  \E d \in Nat : \E n \in Nat :
    \A j \in K : /\ j \in Nat
                 /\ IF j <= n THEN j + d \in J /\ r[j] = q[j + d] ELSE r[j] \in F

\* The first frame of q has been taken.
Shifted(q, J, r, K) ==
  /\ 1 \in J /\ J \subseteq Nat
  /\ \A j \in K : j \in Nat \ {0} /\ j + 1 \in J /\ r[j] = q[j + 1]

LEMMA EvolvedNone ==
  ASSUME NEW q, NEW J, NEW r, NEW K, NEW F, NEW G, Evolved(q, J, r, K, F),
         None(q, J, G), F \cap G = {}
  PROVE  None(r, K, G)
BY DEF Evolved, None

LEMMA EvolvedNever ==
  ASSUME NEW q, NEW J, NEW r, NEW K, NEW F, NEW G, NEW H, Evolved(q, J, r, K, F),
         Never(q, J, G, H),
         F \cap H = {} \/ (None(q, J, G) /\ F \cap G = {})
  PROVE  Never(r, K, G, H)
<1>1. PICK d \in Nat, n \in Nat :
        \A j \in K : /\ j \in Nat
                     /\ IF j <= n THEN j + d \in J /\ r[j] = q[j + d] ELSE r[j] \in F
  BY DEF Evolved
<1> SUFFICES ASSUME NEW i \in K, NEW j \in K, i < j, r[i] \in G, r[j] \in H PROVE FALSE
  BY DEF Never
<1>2. i \in Nat /\ j \in Nat /\ (j <= n => i <= n) BY <1>1
<1>3. CASE F \cap H = {}
  <2>1. j <= n BY <1>1, <1>2, <1>3
  <2>2. i + d \in J /\ j + d \in J /\ r[i] = q[i + d] /\ r[j] = q[j + d] /\ i + d < j + d
    BY <1>1, <1>2, <2>1
  <2> QED BY <2>2 DEF Never
<1>4. CASE None(q, J, G) /\ F \cap G = {}
  <2>1. i <= n BY <1>1, <1>2, <1>4
  <2> QED BY <1>1, <1>4, <2>1 DEF None
<1> QED BY <1>3, <1>4

LEMMA NoneNever ==
  ASSUME NEW q, NEW J, NEW F, NEW G, None(q, J, F)
  PROVE  Never(q, J, F, G)
BY DEF None, Never

LEMMA NoneFewer ==
  ASSUME NEW q, NEW J, NEW F, NEW G, None(q, J, F), G \subseteq F
  PROVE  None(q, J, G)
BY DEF None

LEMMA ShiftedEvolved ==
  ASSUME NEW q, NEW J, NEW r, NEW K, Shifted(q, J, r, K), NEW m \in Nat, \A j \in K : j <= m
  PROVE  Evolved(q, J, r, K, {})
<1>1. 1 \in Nat OBVIOUS
<1> QED BY <1>1 DEF Shifted, Evolved

\* What may not follow a frame taken is not left.
LEMMA ShiftedNone ==
  ASSUME NEW q, NEW J, NEW r, NEW K, Shifted(q, J, r, K), NEW F, NEW G,
         Never(q, J, F, G), q[1] \in F
  PROVE  None(r, K, G)
<1>1. \A j \in K : 1 < j + 1 BY DEF Shifted
<1> QED BY <1>1 DEF Shifted, Never, None

----------------------------------------------------------------------------
(* Kinds of frames *)

Req == {f \in Frame : f.type = "FLOOR_REQ"}
Grant == {f \in Frame : f.type = "FLOOR_GRANT"}
AnyData == {f \in Frame : f.type = "DATA"}
DataOf(n) == {f \in AnyData : f.seq = n}
AnyAck == {f \in Frame : f.type = "DATA_ACK"}
AckOf(n) == {f \in AnyAck : f.answered = n}

\* Neither the chunk in hand nor the one before it.
LostData(t) == {f \in AnyData : f.seq # t /\ NextSeq(f.seq) # t}

\* Not what a receiver answers to one of these two.
LostAck(t) == {f \in AnyAck : \/ f.expects # NextSeq(f.answered)
                              \/ f.answered # t /\ f.expects # t}

Idle == {f \in Frame : f.type \notin {"FLOOR_REQ", "FLOOR_GRANT", "DATA", "DATA_ACK"}}

LEMMA KindsApart ==
  /\ Req \cap Grant = {} /\ Req \cap AnyData = {} /\ Req \cap AnyAck = {}
  /\ Grant \cap AnyData = {} /\ Grant \cap AnyAck = {} /\ AnyData \cap AnyAck = {}
  /\ Idle \cap Req = {} /\ Idle \cap Grant = {} /\ Idle \cap AnyData = {}
  /\ Idle \cap AnyAck = {}
  /\ \A n : DataOf(n) \subseteq AnyData /\ AckOf(n) \subseteq AnyAck
            /\ LostData(n) \subseteq AnyData /\ LostAck(n) \subseteq AnyAck
            /\ DataOf(n) \cap (AnyData \ DataOf(n)) = {}
            /\ AckOf(n) \cap (AnyAck \ AckOf(n)) = {}
            /\ DataOf(n) \cap LostData(n) = {}
BY DEF Req, Grant, AnyData, AnyAck, DataOf, AckOf, LostData, LostAck, Idle

----------------------------------------------------------------------------
(* Counters: a station that sends is in R, reads q and is read in x by P *)

Counters(R, P, q, J, x, K) ==
  /\ \/ P.expect = R.txSeq
     \/ P.expect = NextSeq(R.txSeq) /\ R.call \in {"send", "disc"}
  /\ None(x, K, LostData(R.txSeq))
  /\ R.call \notin {"send", "disc"} => None(x, K, DataOf(R.txSeq))
  /\ P.expect # R.txSeq => None(x, K, AnyData \ DataOf(R.txSeq))
  /\ Never(x, K, DataOf(R.txSeq), AnyData \ DataOf(R.txSeq))
  /\ None(q, J, LostAck(R.txSeq))
  /\ P.expect = R.txSeq => None(q, J, AckOf(R.txSeq))
  /\ Never(q, J, AckOf(R.txSeq), AnyAck \ AckOf(R.txSeq))

\* No DATA is keyed towards P and no DATA_ACK towards R.
LEMMA CountersCalm ==
  ASSUME NEW R, NEW P, NEW q, NEW J, NEW x, NEW K, NEW R2, NEW P2,
         NEW q2, NEW J2, NEW x2, NEW K2, NEW F, NEW G,
         Counters(R, P, q, J, x, K),
         Evolved(q, J, q2, J2, F), F \cap AnyAck = {},
         Evolved(x, K, x2, K2, G), G \cap AnyData = {},
         R2.txSeq = R.txSeq, P2.expect = P.expect,
         R.call \in {"send", "disc"} => R2.call \in {"send", "disc"}
  PROVE  Counters(R2, P2, q2, J2, x2, K2)
<1> DEFINE t == R.txSeq
<1>1. /\ DataOf(t) \subseteq AnyData /\ LostData(t) \subseteq AnyData
      /\ AckOf(t) \subseteq AnyAck /\ LostAck(t) \subseteq AnyAck
  BY KindsApart
<1>2. \A H \in SUBSET AnyData : None(x, K, H) => None(x2, K2, H)
  <2> TAKE H \in SUBSET AnyData
  <2>1. G \cap H = {} OBVIOUS
  <2> QED BY <2>1, EvolvedNone
<1>3. \A H \in SUBSET AnyAck : None(q, J, H) => None(q2, J2, H)
  <2> TAKE H \in SUBSET AnyAck
  <2>1. F \cap H = {} OBVIOUS
  <2> QED BY <2>1, EvolvedNone
<1>4. Never(x2, K2, DataOf(t), AnyData \ DataOf(t))
  <2>1. G \cap (AnyData \ DataOf(t)) = {} OBVIOUS
  <2>2. Never(x, K, DataOf(t), AnyData \ DataOf(t)) BY DEF Counters
  <2> QED BY <2>1, <2>2, EvolvedNever
<1>5. Never(q2, J2, AckOf(t), AnyAck \ AckOf(t))
  <2>1. F \cap (AnyAck \ AckOf(t)) = {} OBVIOUS
  <2>2. Never(q, J, AckOf(t), AnyAck \ AckOf(t)) BY DEF Counters
  <2> QED BY <2>1, <2>2, EvolvedNever
<1> QED BY <1>1, <1>2, <1>3, <1>4, <1>5 DEF Counters

\* R keys the chunk in hand, for the first time or again.
LEMMA CountersSends ==
  ASSUME NEW R, NEW P, NEW q, NEW J, NEW x, NEW K, NEW R2,
         NEW q2, NEW J2, NEW x2, NEW K2, NEW G,
         Counters(R, P, q, J, x, K),
         Evolved(q, J, q2, J2, {}),
         Evolved(x, K, x2, K2, G), G \subseteq DataOf(R.txSeq),
         R2.txSeq = R.txSeq, R2.call = "send"
  PROVE  Counters(R2, P, q2, J2, x2, K2)
<1> DEFINE t == R.txSeq
<1>1. \A H : None(q, J, H) => None(q2, J2, H) BY EvolvedNone
<1>2. \A H : G \cap H = {} /\ None(x, K, H) => None(x2, K2, H) BY EvolvedNone
<1>3. G \cap LostData(t) = {} /\ G \cap (AnyData \ DataOf(t)) = {} BY KindsApart
<1>4. Never(x2, K2, DataOf(t), AnyData \ DataOf(t)) BY <1>3, EvolvedNever DEF Counters
<1>5. Never(q2, J2, AckOf(t), AnyAck \ AckOf(t)) BY EvolvedNever DEF Counters
<1> QED BY <1>1, <1>2, <1>3, <1>4, <1>5 DEF Counters

\* The chunk in hand is acknowledged: R keys the next one, or returns.
LEMMA CountersAdvances ==
  ASSUME NEW R, NEW P, NEW q, NEW J, NEW x, NEW K, NEW R2,
         NEW q2, NEW J2, NEW x2, NEW K2, NEW G,
         Counters(R, P, q, J, x, K), R.txSeq \in SeqNo,
         Shifted(q, J, q2, J2), q[1] \in AckOf(R.txSeq),
         Evolved(x, K, x2, K2, G), G \subseteq DataOf(NextSeq(R.txSeq)),
         R2.txSeq = NextSeq(R.txSeq), R2.call = "send" \/ G = {}
  PROVE  Counters(R2, P, q2, J2, x2, K2) /\ P.expect = R2.txSeq
<1> DEFINE t == R.txSeq
           u == NextSeq(t)
<1>1. t \in SeqNo /\ u \in SeqNo /\ u # t BY NextSeqFacts
<1>2. ~None(q, J, AckOf(t)) BY DEF Shifted, None
<1>3. P.expect = u BY <1>1, <1>2 DEF Counters
<1>4. None(x, K, AnyData \ DataOf(t)) BY <1>1, <1>3 DEF Counters
<1>5. None(x, K, DataOf(u)) /\ None(x, K, LostData(u))
  <2>1. DataOf(u) \subseteq AnyData \ DataOf(t) BY <1>1 DEF DataOf
  <2>2. LostData(u) \subseteq AnyData \ DataOf(t) BY DEF DataOf, LostData
  <2> QED BY <1>4, <2>1, <2>2, NoneFewer
<1>6. None(x2, K2, LostData(u))
  <2>1. G \cap LostData(u) = {} BY KindsApart
  <2> QED BY <1>5, <2>1, EvolvedNone
<1>7. R2.call \notin {"send", "disc"} => None(x2, K2, DataOf(u))
  <2>1. G = {} => G \cap DataOf(u) = {} OBVIOUS
  <2> QED BY <1>5, <2>1, EvolvedNone
<1>8. Never(x2, K2, DataOf(u), AnyData \ DataOf(u))
  <2>1. G \cap (AnyData \ DataOf(u)) = {} OBVIOUS
  <2>2. Never(x, K, DataOf(u), AnyData \ DataOf(u)) BY <1>5, NoneNever
  <2> QED BY <2>1, <2>2, EvolvedNever
<1>9. None(q2, J2, AnyAck \ AckOf(t)) BY ShiftedNone DEF Counters
<1>10. None(q2, J2, LostAck(t))
  <2>1. None(q, J, LostAck(t)) BY DEF Counters
  <2> QED BY <2>1 DEF None, Shifted
<1>11. None(q2, J2, LostAck(u)) /\ None(q2, J2, AckOf(u))
  <2>1. \A f \in AckOf(u) : f \in AnyAck \ AckOf(t) BY <1>1 DEF AckOf
  <2>2. \A f \in LostAck(u) : f \in AnyAck \ AckOf(t) \/ f \in LostAck(t)
    BY DEF AckOf, LostAck
  <2> QED BY <1>9, <1>10, <2>1, <2>2 DEF None
<1>12. Never(q2, J2, AckOf(u), AnyAck \ AckOf(u)) BY <1>11, NoneNever
<1> HIDE DEF u
<1> QED BY <1>3, <1>6, <1>7, <1>8, <1>11, <1>12 DEF Counters, u

\* P takes a chunk of R's and acknowledges it.
LEMMA CountersTaken ==
  ASSUME NEW R, NEW P, NEW q, NEW J, NEW x, NEW K, NEW P2,
         NEW q2, NEW J2, NEW x2, NEW K2, NEW F, NEW m \in Nat,
         Counters(R, P, q, J, x, K), R.txSeq \in SeqNo, P.expect \in SeqNo,
         Shifted(x, K, x2, K2), x[1] \in AnyData, \A j \in K2 : j <= m,
         Evolved(q, J, q2, J2, F),
         \A f \in F \cap AnyAck : f.answered = x[1].seq /\ f.expects = P2.expect,
         P2.expect = IF x[1].seq = P.expect THEN NextSeq(x[1].seq) ELSE P.expect
  PROVE  /\ Counters(R, P2, q2, J2, x2, K2)
         /\ P2.expect # R.txSeq => R.call \in {"send", "disc"}
         /\ P2.expect # R.txSeq => x[1] \in DataOf(R.txSeq)
<1> DEFINE t == R.txSeq
           f == x[1]
           u == NextSeq(t)
<1>1. t \in SeqNo /\ u \in SeqNo /\ u # t BY NextSeqFacts
<1>2. f.seq \in SeqNo BY DataFields DEF AnyData
<1>3. f.seq = t \/ NextSeq(f.seq) = t
  <2>1. f \notin LostData(t) BY DEF Counters, None, Shifted
  <2> QED BY <2>1 DEF LostData
<1>4. P.expect = t \/ P.expect = u BY DEF Counters
<1>5. P.expect = u => f.seq = t
  <2>1. P.expect = u => f \notin AnyData \ DataOf(t) BY <1>1 DEF Counters, None, Shifted
  <2> QED BY <2>1 DEF DataOf
<1>6. CASE P.expect = t /\ f.seq # t
  <2>1. P2.expect = t /\ NextSeq(f.seq) = t BY <1>3, <1>6
  <2>2. Evolved(x, K, x2, K2, {}) BY ShiftedEvolved
  <2>3. F \cap LostAck(t) = {} BY <1>6, <2>1 DEF LostAck
  <2>4. F \cap AckOf(t) = {} BY <1>6 DEF AckOf
  <2>5. None(q2, J2, LostAck(t)) BY <2>3, EvolvedNone DEF Counters
  <2>6. None(q2, J2, AckOf(t)) BY <1>6, <2>4, EvolvedNone DEF Counters
  <2>7. Never(q2, J2, AckOf(t), AnyAck \ AckOf(t)) BY <2>6, NoneNever
  <2>8. \A H : None(x, K, H) => None(x2, K2, H) BY <2>2, EvolvedNone
  <2>9. Never(x2, K2, DataOf(t), AnyData \ DataOf(t)) BY <2>2, EvolvedNever DEF Counters
  <2> QED BY <2>1, <2>5, <2>6, <2>7, <2>8, <2>9 DEF Counters
<1>7. CASE f.seq = t
  <2>1. P2.expect = u BY <1>1, <1>4, <1>7
  <2>2. f \in DataOf(t) BY <1>7 DEF DataOf
  <2>3. R.call \in {"send", "disc"}
    <3>1. ~None(x, K, DataOf(t)) BY <2>2 DEF None, Shifted
    <3> QED BY <3>1 DEF Counters
  <2>4. Evolved(x, K, x2, K2, {}) BY ShiftedEvolved
  <2>5. \A H : None(x, K, H) => None(x2, K2, H) BY <2>4, EvolvedNone
  <2>6. Never(x2, K2, DataOf(t), AnyData \ DataOf(t)) BY <2>4, EvolvedNever DEF Counters
  <2>7. None(x2, K2, AnyData \ DataOf(t)) BY <2>2, ShiftedNone DEF Counters
  <2>8. F \cap LostAck(t) = {} BY <1>7, <2>1 DEF LostAck
  <2>9. F \cap (AnyAck \ AckOf(t)) = {} BY <1>7 DEF AckOf
  <2>10. None(q2, J2, LostAck(t)) BY <2>8, EvolvedNone DEF Counters
  <2>11. Never(q2, J2, AckOf(t), AnyAck \ AckOf(t)) BY <2>9, EvolvedNever DEF Counters
  <2> QED BY <1>1, <2>1, <2>2, <2>3, <2>5, <2>6, <2>7, <2>10, <2>11 DEF Counters
<1> QED BY <1>3, <1>4, <1>5, <1>6, <1>7

----------------------------------------------------------------------------
(* The floor *)

Owns(R, q, J) == R.role = "ISS" \/ ~None(q, J, Grant)

Speaking(R, P, q, J, x, K) ==
  /\ Owns(R, q, J) => ~Owns(P, x, K)
  /\ R.call = "poll" => Never(q, J, Req, Grant)
  /\ R.call = "send" => /\ Never(q, J, AckOf(R.txSeq), Grant)
                        /\ P.expect # R.txSeq => None(x, K, Req)
                        /\ Never(x, K, DataOf(R.txSeq), Req)

\* Both sides; first says that R placed the call.
Talk(R, P, q, J, x, K, first) ==
  /\ R.txSeq \in SeqNo /\ R.expect \in SeqNo /\ P.txSeq \in SeqNo /\ P.expect \in SeqNo
  /\ Counters(R, P, q, J, x, K) /\ Counters(P, R, x, K, q, J)
  /\ Speaking(R, P, q, J, x, K) /\ Speaking(P, R, x, K, q, J)
  /\ first /\ R.call = "poll" => None(x, K, Req)
  /\ ~first /\ P.call = "poll" => None(q, J, Req)

LEMMA TalkSwaps ==
  ASSUME NEW R, NEW P, NEW q, NEW J, NEW x, NEW K, NEW first \in BOOLEAN,
         Talk(R, P, q, J, x, K, first)
  PROVE  Talk(P, R, x, K, q, J, ~first)
BY DEF Talk

\* R keys neither DATA, nor DATA_ACK, nor a grant, and asks for the floor only
\* when it waits for it.
LEMMA TalkCalm ==
  ASSUME NEW R, NEW P, NEW q, NEW J, NEW x, NEW K, NEW first \in BOOLEAN, NEW R2,
         NEW q2, NEW J2, NEW x2, NEW K2, NEW G,
         Talk(R, P, q, J, x, K, first),
         Evolved(q, J, q2, J2, {}), Evolved(x, K, x2, K2, G),
         G \cap AnyData = {}, G \cap AnyAck = {}, G \cap Grant = {},
         R2.role = R.role, R2.txSeq = R.txSeq, R2.expect = R.expect,
         \/ R2.call \in {R.call, "disc"} /\ G \cap Req = {}
         \/ R2.call = "floor" /\ R.call \in {"poll", "floor"}
  PROVE  Talk(R2, P, q2, J2, x2, K2, first)
<1>1. Counters(R2, P, q2, J2, x2, K2)
  <2>1. R.call \in {"send", "disc"} => R2.call \in {"send", "disc"} OBVIOUS
  <2>2. {} \cap AnyAck = {} OBVIOUS
  <2> QED BY <2>1, <2>2, CountersCalm DEF Talk
<1>2. Counters(P, R2, x2, K2, q2, J2)
  <2>1. {} \cap AnyData = {} OBVIOUS
  <2> QED BY <2>1, CountersCalm DEF Talk
<1>3. \A H : None(q, J, H) => None(q2, J2, H) BY EvolvedNone
<1>4. \A H : G \cap H = {} /\ None(x, K, H) => None(x2, K2, H) BY EvolvedNone
<1>5. \A H, I : Never(q, J, H, I) => Never(q2, J2, H, I) BY EvolvedNever
<1>6. \A H, I : G \cap I = {} /\ Never(x, K, H, I) => Never(x2, K2, H, I) BY EvolvedNever
<1>7. Owns(R2, q2, J2) => Owns(R, q, J) BY <1>3 DEF Owns
<1>8. Owns(P, x2, K2) => Owns(P, x, K) BY <1>4 DEF Owns
<1>9. Speaking(R2, P, q2, J2, x2, K2)
  BY <1>3, <1>4, <1>5, <1>6, <1>7, <1>8 DEF Talk, Speaking
<1>10. Speaking(P, R2, x2, K2, q2, J2)
  BY <1>3, <1>4, <1>5, <1>6, <1>7, <1>8 DEF Talk, Speaking
<1> QED BY <1>1, <1>2, <1>3, <1>4, <1>9, <1>10 DEF Talk

\* R keys the chunk in hand, for the first time or again.
LEMMA TalkSends ==
  ASSUME NEW R, NEW P, NEW q, NEW J, NEW x, NEW K, NEW first \in BOOLEAN, NEW R2,
         NEW q2, NEW J2, NEW x2, NEW K2, NEW G,
         Talk(R, P, q, J, x, K, first),
         Evolved(q, J, q2, J2, {}), Evolved(x, K, x2, K2, G), G \subseteq DataOf(R.txSeq),
         Owns(R, q, J), R.call \in {"poll", "floor", "send"},
         R2.txSeq = R.txSeq, R2.expect = R.expect, R2.call = "send"
  PROVE  Talk(R2, P, q2, J2, x2, K2, first)
<1> DEFINE t == R.txSeq
<1>0. G \cap AnyAck = {} /\ G \cap Grant = {} /\ G \cap Req = {} BY KindsApart
<1>1. Counters(R2, P, q2, J2, x2, K2) BY CountersSends DEF Talk
<1>2. Counters(P, R2, x2, K2, q2, J2)
  <2>1. {} \cap AnyData = {} OBVIOUS
  <2> QED BY <1>0, <2>1, CountersCalm DEF Talk
<1>3. \A H : None(q, J, H) => None(q2, J2, H) BY EvolvedNone
<1>4. \A H : G \cap H = {} /\ None(x, K, H) => None(x2, K2, H) BY EvolvedNone
<1>5. \A H, I : Never(q, J, H, I) => Never(q2, J2, H, I) BY EvolvedNever
<1>6. \A H, I : G \cap I = {} /\ Never(x, K, H, I) => Never(x2, K2, H, I) BY EvolvedNever
<1>7. ~Owns(P, x, K) /\ ~Owns(P, x2, K2) BY <1>0, <1>4 DEF Owns, Talk, Speaking
<1>8. /\ Never(q, J, AckOf(t), Grant)
      /\ P.expect # t => None(x, K, Req)
      /\ Never(x, K, DataOf(t), Req)
  <2>1. CASE R.call = "send" BY <2>1 DEF Talk, Speaking
  <2>2. CASE R.call # "send"
    <3>1. P.expect = t /\ None(q, J, AckOf(t)) /\ None(x, K, DataOf(t))
      BY <2>2 DEF Talk, Counters
    <3> QED BY <3>1, NoneNever
  <2> QED BY <2>1, <2>2
<1>9. Speaking(R2, P, q2, J2, x2, K2)
  <2>1. Never(q2, J2, AckOf(t), Grant) BY <1>5, <1>8
  <2>2. P.expect # t => None(x2, K2, Req) BY <1>0, <1>4, <1>8
  <2>3. Never(x2, K2, DataOf(t), Req) BY <1>0, <1>6, <1>8
  <2>4. R2.call # "poll" OBVIOUS
  <2> QED BY <1>7, <2>1, <2>2, <2>3, <2>4 DEF Speaking
<1>10. Speaking(P, R2, x2, K2, q2, J2)
  BY <1>0, <1>3, <1>4, <1>5, <1>6, <1>7 DEF Talk, Speaking
<1> QED BY <1>0, <1>1, <1>2, <1>3, <1>4, <1>9, <1>10 DEF Talk

\* The chunk in hand is acknowledged: R keys the next one, or returns.
LEMMA TalkAdvances ==
  ASSUME NEW R, NEW P, NEW q, NEW J, NEW x, NEW K, NEW first \in BOOLEAN, NEW R2,
         NEW q2, NEW J2, NEW x2, NEW K2, NEW G, NEW m \in Nat,
         Talk(R, P, q, J, x, K, first), R.call = "send",
         Shifted(q, J, q2, J2), q[1] \in AckOf(R.txSeq), \A j \in J2 : j <= m,
         Evolved(x, K, x2, K2, G), G \subseteq DataOf(NextSeq(R.txSeq)),
         R2.txSeq = NextSeq(R.txSeq), R2.expect = R.expect, R2.role = R.role,
         R2.call = "send" \/ (R2.call = "poll" /\ G = {})
  PROVE  Talk(R2, P, q2, J2, x2, K2, first)
<1> DEFINE t == R.txSeq
           u == NextSeq(t)
<1>0. G \cap AnyAck = {} /\ G \cap Grant = {} /\ G \cap Req = {} BY KindsApart
<1>1. Counters(R2, P, q2, J2, x2, K2) /\ P.expect = R2.txSeq
  BY CountersAdvances DEF Talk
<1>2. t \in SeqNo /\ u \in SeqNo /\ u # t BY NextSeqFacts DEF Talk
<1>3. Evolved(q, J, q2, J2, {}) BY ShiftedEvolved
<1>4. Counters(P, R2, x2, K2, q2, J2)
  <2>1. {} \cap AnyData = {} OBVIOUS
  <2> QED BY <1>0, <1>3, <2>1, CountersCalm DEF Talk
<1>5. \A H : None(q, J, H) => None(q2, J2, H) BY <1>3, EvolvedNone
<1>6. \A H : G \cap H = {} /\ None(x, K, H) => None(x2, K2, H) BY EvolvedNone
<1>7. \A H, I : Never(q, J, H, I) => Never(q2, J2, H, I) BY <1>3, EvolvedNever
<1>8. \A H, I : G \cap I = {} /\ Never(x, K, H, I) => Never(x2, K2, H, I) BY EvolvedNever
<1>9. Owns(R2, q2, J2) => Owns(R, q, J) BY <1>5 DEF Owns
<1>10. Owns(P, x2, K2) => Owns(P, x, K) BY <1>0, <1>6 DEF Owns
<1>11. None(q2, J2, Grant) BY ShiftedNone DEF Talk, Speaking
<1>12. None(x2, K2, Req) BY <1>0, <1>1, <1>2, <1>6 DEF Talk, Speaking
<1>13. /\ Never(q2, J2, Req, Grant) /\ Never(q2, J2, AckOf(u), Grant)
       /\ Never(x2, K2, DataOf(u), Req)
  BY <1>11, <1>12 DEF None, Never
<1>14. Speaking(R2, P, q2, J2, x2, K2)
  BY <1>1, <1>9, <1>10, <1>13 DEF Talk, Speaking
<1>15. Speaking(P, R2, x2, K2, q2, J2)
  BY <1>0, <1>5, <1>7, <1>8, <1>9, <1>10 DEF Talk, Speaking
<1> QED BY <1>1, <1>2, <1>4, <1>5, <1>12, <1>14, <1>15 DEF Talk

\* R, in recv_message, hands the floor over.
LEMMA TalkGrants ==
  ASSUME NEW R, NEW P, NEW q, NEW J, NEW x, NEW K, NEW first \in BOOLEAN, NEW R2,
         NEW q2, NEW J2, NEW x2, NEW K2, NEW G, NEW m \in Nat,
         Talk(R, P, q, J, x, K, first), R.call = "poll",
         Shifted(q, J, q2, J2), q[1] \in Req, \A j \in J2 : j <= m,
         Evolved(x, K, x2, K2, G), G \subseteq Grant,
         R2.txSeq = R.txSeq, R2.expect = R.expect, R2.role = "IRS", R2.call = "poll"
  PROVE  Talk(R2, P, q2, J2, x2, K2, first)
<1>0. G \cap AnyAck = {} /\ G \cap AnyData = {} /\ G \cap Req = {} BY KindsApart
<1>1. Evolved(q, J, q2, J2, {}) BY ShiftedEvolved
<1>2. Counters(R2, P, q2, J2, x2, K2)
  <2>1. {} \cap AnyAck = {} OBVIOUS
  <2> QED BY <1>0, <1>1, <2>1, CountersCalm DEF Talk
<1>3. Counters(P, R2, x2, K2, q2, J2)
  <2>1. {} \cap AnyData = {} OBVIOUS
  <2> QED BY <1>0, <1>1, <2>1, CountersCalm DEF Talk
<1>4. \A H : None(q, J, H) => None(q2, J2, H) BY <1>1, EvolvedNone
<1>5. \A H : G \cap H = {} /\ None(x, K, H) => None(x2, K2, H) BY EvolvedNone
<1>6. \A H, I : Never(q, J, H, I) => Never(q2, J2, H, I) BY <1>1, EvolvedNever
<1>7. ~None(q, J, Req) BY DEF None, Shifted
<1>8. None(q2, J2, Grant) BY ShiftedNone DEF Talk, Speaking
<1>9. ~Owns(R2, q2, J2) BY <1>8 DEF Owns
<1>10. P.call = "poll" => Never(x2, K2, Req, Grant)
  <2>1. P.call = "poll" => None(x, K, Req)
    <3>1. first => None(x, K, Req) BY DEF Talk
    <3>2. ~first => P.call # "poll" BY <1>7 DEF Talk
    <3> QED BY <3>1, <3>2
  <2>2. P.call = "poll" => None(x2, K2, Req) BY <1>0, <1>5, <2>1
  <2> QED BY <2>2, NoneNever
<1>11. P.call = "send" => Never(x2, K2, AckOf(P.txSeq), Grant)
  <2>1. ASSUME P.call = "send" PROVE Never(x2, K2, AckOf(P.txSeq), Grant)
    <3>1. R.expect = P.txSeq BY <1>7, <2>1 DEF Talk, Speaking
    <3>2. None(x, K, AckOf(P.txSeq)) BY <3>1 DEF Talk, Counters
    <3>3. G \cap AckOf(P.txSeq) = {} BY KindsApart
    <3>4. None(x2, K2, AckOf(P.txSeq)) BY <3>2, <3>3, EvolvedNone
    <3> QED BY <3>4, NoneNever
  <2> QED BY <2>1
<1>12. Speaking(R2, P, q2, J2, x2, K2) BY <1>6, <1>9 DEF Talk, Speaking
<1>13. Speaking(P, R2, x2, K2, q2, J2)
  BY <1>4, <1>6, <1>9, <1>10, <1>11 DEF Talk, Speaking
<1> QED BY <1>0, <1>2, <1>3, <1>4, <1>5, <1>12, <1>13 DEF Talk

\* R takes a chunk of P's, acknowledges it, and asks for the floor if it waits
\* for it.
LEMMA TalkTakes ==
  ASSUME NEW R, NEW P, NEW q, NEW J, NEW x, NEW K, NEW first \in BOOLEAN, NEW R2,
         NEW q2, NEW J2, NEW x2, NEW K2, NEW G, NEW m \in Nat,
         Talk(R, P, q, J, x, K, first), R.call \in {"poll", "floor"},
         Shifted(q, J, q2, J2), q[1] \in AnyData, \A j \in J2 : j <= m,
         Evolved(x, K, x2, K2, G), G \subseteq AnyAck \cup Req,
         \A f \in G \cap AnyAck : f.answered = q[1].seq /\ f.expects = R2.expect,
         R2.expect = IF q[1].seq = R.expect THEN NextSeq(q[1].seq) ELSE R.expect,
         R2.txSeq = R.txSeq, R2.role = R.role, R2.call = R.call,
         R.call = "poll" => G \cap Req = {}
  PROVE  Talk(R2, P, q2, J2, x2, K2, first)
<1>0. G \cap Grant = {} /\ G \cap AnyData = {} BY KindsApart
<1>1. Evolved(q, J, q2, J2, {}) BY ShiftedEvolved
<1>2. Counters(R2, P, q2, J2, x2, K2)
  <2>1. {} \cap AnyAck = {} OBVIOUS
  <2> QED BY <1>0, <1>1, <2>1, CountersCalm DEF Talk
<1>3. /\ Counters(P, R2, x2, K2, q2, J2)
      /\ R2.expect # P.txSeq => q[1] \in DataOf(P.txSeq)
  <2>1. Counters(P, R, x, K, q, J) /\ P.txSeq \in SeqNo /\ R.expect \in SeqNo BY DEF Talk
  <2> QED BY <2>1, CountersTaken
<1>4. \A H : None(q, J, H) => None(q2, J2, H) BY <1>1, EvolvedNone
<1>5. \A H : G \cap H = {} /\ None(x, K, H) => None(x2, K2, H) BY EvolvedNone
<1>6. \A H, I : Never(q, J, H, I) => Never(q2, J2, H, I) BY <1>1, EvolvedNever
<1>7. \A H, I : G \cap I = {} /\ Never(x, K, H, I) => Never(x2, K2, H, I) BY EvolvedNever
<1>8. Owns(R2, q2, J2) => Owns(R, q, J) BY <1>4 DEF Owns
<1>9. Owns(P, x2, K2) => Owns(P, x, K) BY <1>0, <1>5 DEF Owns
<1>10. Speaking(R2, P, q2, J2, x2, K2) BY <1>6, <1>8, <1>9 DEF Talk, Speaking
<1>11. P.call = "send" /\ R2.expect # P.txSeq => None(q2, J2, Req)
  BY <1>3, ShiftedNone DEF Talk, Speaking
<1>12. Speaking(P, R2, x2, K2, q2, J2)
  BY <1>0, <1>6, <1>7, <1>8, <1>9, <1>11 DEF Talk, Speaking
<1>13. R2.expect \in SeqNo
  <2>1. q[1].seq \in SeqNo BY DataFields DEF AnyData
  <2> QED BY <2>1, NextSeqFacts DEF Talk
<1> QED BY <1>2, <1>3, <1>4, <1>5, <1>10, <1>12, <1>13 DEF Talk

----------------------------------------------------------------------------
(* The pair of a call *)

\* The caller still calls, or its peer has taken the call, or is about to.
Paired(c) ==
  /\ Caller(c)
  /\ \/ stn[c].call = "call"
     \/ stn[Peer(c)].session = stn[c].session
     \/ stn[Peer(c)].call = "listen" /\ stn[c].session \in CallIds(Peer(c))

\* Station s of the pair of c is in the session.
Joined(c, s) == IF s = c THEN stn[c].call # "call" ELSE stn[s].session = stn[c].session

\* The frame that takes s in, and the state it starts from.
Opening(c, s) == IF s = c THEN ConnectAck(stn[c].session) ELSE Connect(stn[c].session)

Entering(role) ==
  [role |-> role, call |-> "poll", txSeq |-> 0, expect |-> 0, partial |-> << >>, part |-> 0]

View(c, s) == IF Joined(c, s) THEN stn[s]
              ELSE IF s = c THEN Entering("ISS") ELSE Entering("IRS")

\* The frames in the queue of s that it will read in the session.
Live(c, s) ==
  {i \in DOMAIN inbox[s] :
     Joined(c, s) \/ \E k \in DOMAIN inbox[s] : k < i /\ inbox[s][k] = Opening(c, s)}

\* Before the caller knows its call was taken, neither sends anything but
\* calls, answers, requests and DISC.
Early(c) == stn[c].call = "call" =>
  /\ None(inbox[c], Live(c, c), AnyData \cup AnyAck \cup Grant)
  /\ None(inbox[Peer(c)], Live(c, Peer(c)), AnyData \cup AnyAck \cup Grant \cup Req)

PairTalk(c) ==
  Talk(View(c, c), View(c, Peer(c)),
       inbox[c], Live(c, c), inbox[Peer(c)], Live(c, Peer(c)), TRUE)

PairInv == \A c \in Stations : Paired(c) => Early(c) /\ PairTalk(c)

LEMMA EarlyTalk ==
  ASSUME NEW q, NEW J, NEW x, NEW K,
         None(q, J, AnyData \cup AnyAck \cup Grant),
         None(x, K, AnyData \cup AnyAck \cup Grant \cup Req)
  PROVE  Talk(Entering("ISS"), Entering("IRS"), q, J, x, K, TRUE)
<1>1. \A H : H \subseteq AnyData \cup AnyAck \cup Grant => None(q, J, H)
  BY NoneFewer
<1>2. \A H : H \subseteq AnyData \cup AnyAck \cup Grant \cup Req => None(x, K, H)
  BY NoneFewer
<1>3. \A n : /\ DataOf(n) \subseteq AnyData /\ AckOf(n) \subseteq AnyAck
             /\ LostData(n) \subseteq AnyData /\ LostAck(n) \subseteq AnyAck
  BY KindsApart
<1>4. Counters(Entering("ISS"), Entering("IRS"), q, J, x, K)
  BY <1>1, <1>2, <1>3, NoneNever DEF Counters, Entering
<1>5. Counters(Entering("IRS"), Entering("ISS"), x, K, q, J)
  BY <1>1, <1>2, <1>3, NoneNever DEF Counters, Entering
<1>6. None(q, J, Grant) /\ None(x, K, Grant) /\ None(x, K, Req) BY <1>1, <1>2
<1>7. Speaking(Entering("ISS"), Entering("IRS"), q, J, x, K)
  BY <1>6 DEF Speaking, Owns, Entering, Never, None
<1>8. Speaking(Entering("IRS"), Entering("ISS"), x, K, q, J)
  BY <1>6 DEF Speaking, Owns, Entering, Never, None
<1>9. 0 \in SeqNo BY ConstantFacts
<1> QED BY <1>4, <1>5, <1>6, <1>7, <1>8, <1>9 DEF Talk, Entering

\* Frames that are not read yet leave the ones that will be where they are.
LEMMA LiveGrows ==
  ASSUME BaseInv, NEW s \in Stations, NEW F, Moves(s, F), NEW c \in Stations,
         NEW p \in Stations, p = Peer(s),
         stn'[c].session = stn[c].session, Joined(c, p)' => Joined(c, p)
  PROVE  Evolved(inbox[p], Live(c, p), inbox'[p], Live(c, p)', F)
<1> DEFINE q == inbox[p]
           r == inbox'[p]
           o == Opening(c, p)
<1>1. q \in Seq(Frame) /\ r \in Seq(Frame) /\ Grown(q, r, F)
  BY StationFacts DEF Moves
<1>2. /\ DOMAIN q = 1..Len(q) /\ DOMAIN r = 1..Len(r) /\ Len(q) \in Nat /\ Len(r) \in Nat
      /\ \A j \in 1..Len(r) : IF j <= Len(q) THEN r[j] = q[j] ELSE r[j] \in F
  BY <1>1 DEF Grown
<1>3. Opening(c, p)' = o BY DEF Opening
<1>4. Live(c, p)' = {i \in DOMAIN r : Joined(c, p)' \/ \E k \in DOMAIN r : k < i /\ r[k] = o}
  BY <1>3 DEF Live
<1>5. Live(c, p) = {i \in DOMAIN q : Joined(c, p) \/ \E k \in DOMAIN q : k < i /\ q[k] = o}
  BY DEF Live
<1> HIDE DEF q, r, o
<1>6. \A j \in Live(c, p)' : /\ j \in Nat
                             /\ IF j <= Len(q) THEN j + 0 \in Live(c, p) /\ r[j] = q[j + 0]
                                ELSE r[j] \in F
  <2> TAKE j \in Live(c, p)'
  <2>1. j \in 1..Len(r) /\ (Joined(c, p)' \/ \E k \in 1..Len(r) : k < j /\ r[k] = o)
    BY <1>2, <1>4
  <2>2. CASE j <= Len(q)
    <3>1. r[j] = q[j] /\ j \in DOMAIN q BY <1>2, <2>1, <2>2
    <3>2. \A k \in 1..Len(r) : k < j => k \in DOMAIN q /\ r[k] = q[k] BY <1>2, <2>1, <2>2
    <3>3. j \in Live(c, p) BY <1>2, <1>5, <2>1, <3>1, <3>2
    <3> QED BY <1>2, <2>1, <3>1, <3>3
  <2>3. CASE ~(j <= Len(q)) BY <1>2, <2>1, <2>3
  <2> QED BY <2>2, <2>3
<1>7. 0 \in Nat /\ Len(q) \in Nat BY <1>2
<1> QED BY <1>6, <1>7 DEF Evolved, q, r

\* What a station has read, or dropped, leaves the rest in its order; the frame
\* that takes it in is the first of them.
LEMMA LiveRests ==
  ASSUME BaseInv, NEW s \in Stations, NEW F, Moves(s, F), NEW c \in Stations,
         stn'[c].session = stn[c].session,
         Joined(c, s)' => \/ Joined(c, s)
                          \/ /\ inbox[s] # << >> /\ Head(inbox[s]) = Opening(c, s)
                             /\ inbox'[s] = Tail(inbox[s])
  PROVE  Evolved(inbox[s], Live(c, s), inbox'[s], Live(c, s)', {})
<1> DEFINE q == inbox[s]
           r == inbox'[s]
           o == Opening(c, s)
<1>1. q \in Seq(Frame) /\ r \in Rests(q) /\ r \in Seq(Frame)
  BY StationFacts DEF Moves
<1>3. Opening(c, s)' = o BY DEF Opening
<1>4. Live(c, s)' = {i \in DOMAIN r : Joined(c, s)' \/ \E k \in DOMAIN r : k < i /\ r[k] = o}
  BY <1>3 DEF Live
<1>5. Live(c, s) = {i \in DOMAIN q : Joined(c, s) \/ \E k \in DOMAIN q : k < i /\ q[k] = o}
  BY DEF Live
<1>6. /\ DOMAIN q = 1..Len(q) /\ DOMAIN r = 1..Len(r) /\ Len(q) \in Nat /\ Len(r) \in Nat
  BY <1>1
<1>7. CASE Joined(c, s)' => Joined(c, s)
  <2>1. PICK d \in Nat : /\ Len(r) + d = Len(q)
                         /\ \A i \in 1..Len(r) : i + d \in 1..Len(q) /\ r[i] = q[i + d]
    BY <1>1, RestsShift
  <2> HIDE DEF q, r, o
  <2>2. \A j \in Live(c, s)' : /\ j \in Nat
                               /\ IF j <= Len(r) THEN j + d \in Live(c, s) /\ r[j] = q[j + d]
                                  ELSE r[j] \in {}
    <3> TAKE j \in Live(c, s)'
    <3>1. j \in 1..Len(r) /\ (Joined(c, s)' \/ \E k \in 1..Len(r) : k < j /\ r[k] = o)
      BY <1>4, <1>6
    <3>2. j + d \in DOMAIN q /\ r[j] = q[j + d] BY <1>6, <2>1, <3>1
    <3>3. CASE Joined(c, s)' BY <1>5, <1>6, <1>7, <3>1, <3>2, <3>3
    <3>4. CASE \E k \in 1..Len(r) : k < j /\ r[k] = o
      <4>1. PICK k \in 1..Len(r) : k < j /\ r[k] = o BY <3>4
      <4>2. k + d \in DOMAIN q /\ k + d < j + d /\ q[k + d] = o BY <1>6, <2>1, <3>1, <4>1
      <4> QED BY <1>5, <1>6, <3>1, <3>2, <4>2
    <3> QED BY <3>1, <3>3, <3>4
  <2>3. Len(r) \in Nat BY <1>6
  <2> QED BY <2>2, <2>3 DEF Evolved, q, r
<1>8. CASE q # << >> /\ Head(q) = o /\ r = Tail(q)
  <2> DEFINE G == Frame
  <2>0. q \in Seq(G) BY <1>1
  <2>1. /\ 1 \in DOMAIN q /\ q[1] = o
        /\ \A i \in 1..Len(r) : i + 1 \in DOMAIN q /\ 1 < i + 1 /\ r[i] = q[i + 1]
    <3> HIDE DEF G, q, r, o
    <3>1. /\ Len(Tail(q)) + 1 = Len(q) /\ Head(q) = q[1] /\ Len(q) \in Nat \ {0}
          /\ \A i \in 1..Len(Tail(q)) : Tail(q)[i] = q[i + 1]
      BY <1>8, <2>0, HeadTailProperties
    <3> QED BY <1>6, <1>8, <3>1
  <2> HIDE DEF q, r, o
  <2>2. \A j \in Live(c, s)' : /\ j \in Nat
                               /\ IF j <= Len(r) THEN j + 1 \in Live(c, s) /\ r[j] = q[j + 1]
                                  ELSE r[j] \in {}
    BY <1>4, <1>5, <1>6, <2>1
  <2>3. Len(r) \in Nat /\ 1 \in Nat BY <1>6
  <2> QED BY <2>2, <2>3 DEF Evolved, q, r
<1> QED BY <1>7, <1>8

LEMMA TailShifts ==
  ASSUME NEW S, NEW q \in Seq(S), q # << >>
  PROVE  /\ Shifted(q, DOMAIN q, Tail(q), DOMAIN Tail(q))
         /\ q[1] = Head(q) /\ \A j \in DOMAIN Tail(q) : j <= Len(Tail(q))
         /\ Len(Tail(q)) \in Nat
<1>1. /\ Tail(q) \in Seq(S) /\ Len(Tail(q)) \in Nat /\ Len(Tail(q)) + 1 = Len(q)
      /\ Head(q) = q[1] /\ DOMAIN Tail(q) = 1..Len(Tail(q)) /\ DOMAIN q = 1..Len(q)
      /\ \A i \in 1..Len(Tail(q)) : Tail(q)[i] = q[i + 1]
  BY HeadTailProperties
<1>2. 1 \in DOMAIN q /\ DOMAIN q \subseteq Nat BY <1>1
<1>3. \A j \in 1..Len(Tail(q)) : j \in Nat \ {0} /\ j + 1 \in 1..Len(q) BY <1>1
<1> QED BY <1>1, <1>2, <1>3 DEF Shifted

----------------------------------------------------------------------------
(* A step in the session *)

LEMMA FrameKinds ==
  /\ Control("FLOOR_REQ") \in Req /\ Control("FLOOR_GRANT") \in Grant
  /\ Control("DISC") \in Idle /\ Control("DISC_ACK") \in Idle
  /\ \A id : Connect(id) \in Frame => Connect(id) \in Idle
  /\ \A id : ConnectAck(id) \in Frame => ConnectAck(id) \in Idle
  /\ \A s, r : DataFrame(s, r) \in Frame => DataFrame(s, r) \in DataOf(r.txSeq)
<1>1. Control("FLOOR_REQ") \in Req /\ Control("FLOOR_GRANT") \in Grant
  BY ControlTyped DEF Control, Req, Grant
<1>2. Control("DISC") \in Idle /\ Control("DISC_ACK") \in Idle
  BY ControlTyped DEF Control, Idle
<1>3. \A id : Connect(id) \in Frame => Connect(id) \in Idle BY DEF Connect, Idle
<1>4. \A id : ConnectAck(id) \in Frame => ConnectAck(id) \in Idle BY DEF ConnectAck, Idle
<1>5. \A s, r : DataFrame(s, r) \in Frame => DataFrame(s, r) \in DataOf(r.txSeq)
  BY DEF DataFrame, DataOf, AnyData
<1> QED BY <1>1, <1>2, <1>3, <1>4, <1>5

LEMMA OwnRests ==
  ASSUME BaseInv, NEW s \in Stations, NEW F, Moves(s, F)
  PROVE  Evolved(inbox[s], DOMAIN inbox[s], inbox'[s], DOMAIN inbox'[s], {})
<1> DEFINE q == inbox[s]
           r == inbox'[s]
<1>1. q \in Seq(Frame) /\ r \in Rests(q) /\ r \in Seq(Frame)
  BY StationFacts DEF Moves
<1>2. PICK d \in Nat : /\ Len(r) + d = Len(q)
                       /\ \A i \in 1..Len(r) : i + d \in 1..Len(q) /\ r[i] = q[i + d]
  BY <1>1, RestsShift
<1>3. DOMAIN q = 1..Len(q) /\ DOMAIN r = 1..Len(r) /\ Len(r) \in Nat BY <1>1
<1> HIDE DEF q, r
<1>4. \A j \in DOMAIN r : /\ j \in Nat
                          /\ IF j <= Len(r) THEN j + d \in DOMAIN q /\ r[j] = q[j + d]
                             ELSE r[j] \in {}
  BY <1>2, <1>3
<1> QED BY <1>3, <1>4 DEF Evolved, q, r

LEMMA OwnShifts ==
  ASSUME BaseInv, NEW s \in Stations, inbox[s] # << >>, inbox'[s] = Tail(inbox[s])
  PROVE  /\ Shifted(inbox[s], DOMAIN inbox[s], inbox'[s], DOMAIN inbox'[s])
         /\ inbox[s][1] = Head(inbox[s]) /\ inbox[s][1] \in Frame
         /\ \E m \in Nat : \A j \in DOMAIN inbox'[s] : j <= m
<1> DEFINE Q == Seq(Frame)
<1>1. inbox[s] \in Q BY StationFacts
<1>2. Head(inbox[s]) \in Frame BY HeadFacts
<1> QED BY <1>1, <1>2, TailShifts

LEMMA RealTalk ==
  ASSUME BaseInv, HandshakeInv, NEW s \in Stations, NEW p \in Stations, p = Peer(s),
         Outcome(s), InSession(s), stn'[s].session = stn[s].session,
         NEW P, NEW K, NEW K2, NEW first \in BOOLEAN,
         Talk(stn[s], P, inbox[s], DOMAIN inbox[s], inbox[p], K, first),
         \A F : Moves(s, F) => Evolved(inbox[p], K, inbox'[p], K2, F)
  PROVE  Talk(stn'[s], P, inbox'[s], DOMAIN inbox'[s], inbox'[p], K2, first)
<1> DEFINE R == stn[s]
           R2 == stn'[s]
           q == inbox[s]
           J == DOMAIN q
           q2 == inbox'[s]
           J2 == DOMAIN q2
           x == inbox[p]
           x2 == inbox'[p]
<1>0. /\ R \in StationState /\ WellFormed(R, Len(returned[s])) /\ R.state = "CONNECTED"
      /\ R.session # NoSession /\ R.session <= sessions
      /\ R.session \in Nat /\ sessions \in Nat
  <2>1. R.state = "CONNECTED" BY DEF InSession
  <2> QED BY <2>1, StationFacts, ConstantFacts DEF WellFormed
<1>1. R.call \in {"poll", "floor", "send", "disc"} BY <1>0, StationFacts, CallsAre DEF WellFormed
<1>2. ASSUME NEW G, Moves(s, G), G \cap AnyData = {}, G \cap AnyAck = {}, G \cap Grant = {},
             R2.role = R.role, R2.txSeq = R.txSeq, R2.expect = R.expect,
             \/ R2.call \in {R.call, "disc"} /\ G \cap Req = {}
             \/ R2.call = "floor" /\ R.call \in {"poll", "floor"}
      PROVE  Talk(R2, P, q2, J2, x2, K2, first)
  <2>1. Evolved(q, J, q2, J2, {}) /\ Evolved(x, K, x2, K2, G) BY <1>2, OwnRests
  <2> HIDE DEF R, R2, q, J, q2, J2, x, x2
  <2>2. Talk(R, P, q, J, x, K, first) BY DEF R, q, J, x
  <2> QED BY <1>2, <2>1, <2>2, TalkCalm
<1>3. ASSUME NEW G, Moves(s, G), G \subseteq DataOf(R.txSeq), Owns(R, q, J),
             R.call \in {"poll", "floor", "send"},
             R2.txSeq = R.txSeq, R2.expect = R.expect, R2.call = "send"
      PROVE  Talk(R2, P, q2, J2, x2, K2, first)
  <2>1. Evolved(q, J, q2, J2, {}) /\ Evolved(x, K, x2, K2, G) BY <1>3, OwnRests
  <2> HIDE DEF R, R2, q, J, q2, J2, x, x2
  <2>2. Talk(R, P, q, J, x, K, first) BY DEF R, q, J, x
  <2> QED BY <1>3, <2>1, <2>2, TalkSends
<1>4. CASE TakesChunk(s)
  <2> DEFINE f == Head(q)
             G == {g \in {DataAck(R, f), Control("FLOOR_REQ")} :
                     R.call = "poll" => g \notin Req}
  <2>1. /\ q # << >> /\ f.type = "DATA" /\ q2 = Tail(q) /\ R.call \in {"poll", "floor"}
        /\ f \in Frame
    BY <1>4, HeadFacts DEF TakesChunk, Heads
  <2>2. DataAck(R, f) \in Frame /\ Received(R, f) \in StationState
    BY <1>0, <2>1, ReceivedTyped
  <2>3. /\ DataAck(R, f) \in AnyAck /\ DataAck(R, f).answered = f.seq
        /\ DataAck(R, f).expects = Received(R, f).expect
    BY <2>2 DEF DataAck, AnyAck
  <2>4. /\ Received(R, f).role = R.role /\ Received(R, f).call = R.call
        /\ Received(R, f).txSeq = R.txSeq
        /\ Received(R, f).expect = IF f.seq = R.expect THEN NextSeq(f.seq) ELSE R.expect
    BY <1>0 DEF Received, StationState
  <2>5. /\ R2.role = R.role /\ R2.call = R.call /\ R2.txSeq = R.txSeq
        /\ R2.expect = IF f.seq = R.expect THEN NextSeq(f.seq) ELSE R.expect
    <3>1. CASE R2 = Received(R, f) BY <2>4, <3>1
    <3>2. CASE R.call = "floor" /\ R2 = Requesting(Received(R, f), 0)
      <4>1. /\ R2.role = Received(R, f).role /\ R2.call = "floor"
            /\ R2.txSeq = Received(R, f).txSeq /\ R2.expect = Received(R, f).expect
        BY <2>2, <3>2 DEF Requesting, StationState
      <4> QED BY <2>4, <3>2, <4>1
    <3> QED BY <1>4, <3>1, <3>2 DEF TakesChunk
  <2>6. Moves(s, G) /\ G \subseteq AnyAck \cup Req
    <3>1. DataAck(R, f) \notin Req BY <2>3, KindsApart
    <3>2. G \subseteq AnyAck \cup Req BY <2>3, FrameKinds
    <3>3. R.call = "poll" => {DataAck(R, f)} \subseteq G BY <3>1
    <3>4. R.call = "floor" => G = {DataAck(R, f), Control("FLOOR_REQ")} OBVIOUS
    <3>5. AnyAck \cup Req \subseteq Frame BY DEF AnyAck, Req
    <3> HIDE DEF G
    <3>6. CASE R.call = "poll"
      <4>1. Moves(s, {DataAck(R, f)}) BY <1>4, <3>6 DEF TakesChunk
      <4>2. G \in SUBSET Frame /\ {DataAck(R, f)} \subseteq G BY <3>2, <3>3, <3>5, <3>6
      <4> QED BY <3>2, <4>1, <4>2, MovesMore
    <3>7. CASE R.call = "floor" BY <1>4, <3>2, <3>4, <3>7 DEF TakesChunk
    <3> QED BY <2>1, <3>6, <3>7
  <2>7. \A g \in G \cap AnyAck : g.answered = f.seq /\ g.expects = R2.expect
    <3>1. Control("FLOOR_REQ") \notin AnyAck BY FrameKinds, KindsApart
    <3>2. G \cap AnyAck \subseteq {DataAck(R, f)} BY <3>1
    <3> QED BY <2>3, <2>4, <2>5, <3>2
  <2>8. R.call = "poll" => G \cap Req = {} OBVIOUS
  <2>9. PICK m \in Nat : \A j \in J2 : j <= m BY <2>1, OwnShifts
  <2>10. Shifted(q, J, q2, J2) /\ q[1] = f /\ f \in AnyData
    BY <2>1, OwnShifts DEF AnyData
  <2>11. Evolved(x, K, x2, K2, G) BY <2>6
  <2> HIDE DEF R, R2, q, J, q2, J2, x, x2, G, f
  <2>12. Talk(R, P, q, J, x, K, first) BY DEF R, q, J, x
  <2>13. Talk(R2, P, q2, J2, x2, K2, first)
    BY <2>1, <2>5, <2>6, <2>7, <2>8, <2>9, <2>10, <2>11, <2>12, TalkTakes
  <2> QED BY <2>13 DEF R2, q2, J2, x2
<1>5. CASE Grants(s)
  <2> DEFINE G == {Control("FLOOR_GRANT")}
  <2>1. /\ q # << >> /\ Head(q).type = "FLOOR_REQ" /\ q2 = Tail(q) /\ R.call = "poll"
        /\ Moves(s, G) /\ Head(q) \in Frame
    BY <1>5, HeadFacts DEF Grants, Heads
  <2>2. /\ R2.role = "IRS" /\ R2.call = "poll" /\ R2.txSeq = R.txSeq
        /\ R2.expect = R.expect
    BY <1>0, <1>5 DEF Grants, StationState
  <2>3. PICK m \in Nat : \A j \in J2 : j <= m BY <2>1, OwnShifts
  <2>4. Shifted(q, J, q2, J2) /\ q[1] \in Req BY <2>1, OwnShifts DEF Req
  <2>5. Evolved(x, K, x2, K2, G) /\ G \subseteq Grant BY <2>1, FrameKinds
  <2> HIDE DEF R, R2, q, J, q2, J2, x, x2, G
  <2>6. Talk(R, P, q, J, x, K, first) BY DEF R, q, J, x
  <2>7. Talk(R2, P, q2, J2, x2, K2, first)
    BY <2>1, <2>2, <2>3, <2>4, <2>5, <2>6, TalkGrants
  <2> QED BY <2>7 DEF R2, q2, J2, x2
<1>6. CASE StartsSending(s)
  <2>1. /\ Moves(s, {DataFrame(s, R2)}) /\ R2.txSeq = R.txSeq /\ R2.expect = R.expect
        /\ R2.call = "send" /\ R.call = "poll" /\ R.role = "ISS"
    BY <1>0, <1>6 DEF StartsSending, Sending, StationState
  <2>2. DataFrame(s, R2) \in DataOf(R.txSeq) BY <2>1, FrameKinds DEF Moves
  <2> QED BY <1>3, <2>1, <2>2 DEF Owns
<1>7. CASE TakesGrant(s)
  <2>1. /\ Moves(s, {DataFrame(s, R2)}) /\ R2.txSeq = R.txSeq /\ R2.expect = R.expect
        /\ R2.call = "send" /\ R.call = "floor"
    BY <1>0, <1>7 DEF TakesGrant, Sending, StationState
  <2>2. DataFrame(s, R2) \in DataOf(R.txSeq) BY <2>1, FrameKinds DEF Moves
  <2>3. Owns(R, q, J)
    <3>1. q # << >> /\ q2 = Tail(q) /\ Head(q).type = "FLOOR_GRANT"
      BY <1>7 DEF TakesGrant, Heads
    <3>2. 1 \in J /\ q[1] \in Grant BY <3>1, OwnShifts DEF Grant, Shifted
    <3> QED BY <3>2 DEF Owns, None
  <2> QED BY <1>3, <2>1, <2>2, <2>3
<1>8. CASE SendsAgain(s)
  <2>1. /\ Moves(s, {DataFrame(s, R)}) /\ R2.txSeq = R.txSeq /\ R2.expect = R.expect
        /\ R2.call = "send" /\ R.call = "send" /\ R.role = "ISS"
    BY <1>0, <1>8 DEF SendsAgain, StationState, WellFormed
  <2>2. DataFrame(s, R) \in DataOf(R.txSeq) BY <2>1, FrameKinds DEF Moves
  <2> QED BY <1>3, <2>1, <2>2 DEF Owns
<1>9. CASE SendsNext(s) \/ Returns(s)
  <2>1. /\ q # << >> /\ Head(q).type = "DATA_ACK" /\ q2 = Tail(q) /\ R.call = "send"
        /\ Head(q).answered = R.txSeq /\ Head(q) \in Frame
    BY <1>9, HeadFacts DEF SendsNext, Returns, Heads, Accepts
  <2>2. /\ R2.txSeq = NextSeq(R.txSeq) /\ R2.expect = R.expect /\ R2.role = R.role
        /\ \E G : /\ Moves(s, G) /\ G \subseteq DataOf(NextSeq(R.txSeq))
                  /\ R2.call = "send" \/ (R2.call = "poll" /\ G = {})
    <3>1. CASE SendsNext(s)
      <4>1. /\ R2.txSeq = NextSeq(R.txSeq) /\ R2.expect = R.expect /\ R2.role = R.role
            /\ R2.call = "send" /\ Moves(s, {DataFrame(s, R2)})
        BY <1>0, <3>1 DEF SendsNext, Sending, Advanced, StationState
      <4>2. DataFrame(s, R2) \in DataOf(R2.txSeq) BY <4>1, FrameKinds DEF Moves
      <4> QED BY <4>1, <4>2
    <3>2. CASE Returns(s)
      <4>1. /\ R2.txSeq = NextSeq(R.txSeq) /\ R2.expect = R.expect /\ R2.role = R.role
            /\ R2.call = "poll" /\ Moves(s, {})
        BY <1>0, <3>2 DEF Returns, Advanced, StationState
      <4> QED BY <4>1
    <3> QED BY <1>9, <3>1, <3>2
  <2>3. PICK G : /\ Moves(s, G) /\ G \subseteq DataOf(NextSeq(R.txSeq))
                 /\ R2.call = "send" \/ (R2.call = "poll" /\ G = {})
    BY <2>2
  <2>4. PICK m \in Nat : \A j \in J2 : j <= m BY <2>1, OwnShifts
  <2>5. Shifted(q, J, q2, J2) /\ q[1] \in AckOf(R.txSeq)
    BY <2>1, OwnShifts DEF AnyAck, AckOf
  <2>6. Evolved(x, K, x2, K2, G) BY <2>3
  <2> HIDE DEF R, R2, q, J, q2, J2, x, x2
  <2>7. Talk(R, P, q, J, x, K, first) BY DEF R, q, J, x
  <2>8. Talk(R2, P, q2, J2, x2, K2, first)
    BY <2>1, <2>2, <2>3, <2>4, <2>5, <2>6, <2>7, TalkAdvances
  <2> QED BY <2>8 DEF R2, q2, J2, x2
<1>10. CASE AsksFloor(s) \/ AsksAgain(s)
  <2>1. \E k : R2 = Requesting(R, k) BY <1>10 DEF AsksFloor, AsksAgain
  <2>2. /\ R2.role = R.role /\ R2.txSeq = R.txSeq /\ R2.expect = R.expect
        /\ R2.call = "floor" /\ R.call \in {"poll", "floor"}
        /\ Moves(s, {Control("FLOOR_REQ")})
    BY <1>0, <1>10, <2>1 DEF AsksFloor, AsksAgain, Requesting, StationState
  <2> QED BY <1>2, <2>2, FrameKinds, KindsApart
<1>11. CASE Drops(s) \/ AnswersAgain(s)
  <2>1. R2 = R /\ \E G \in SUBSET Idle : Moves(s, G)
    <3>1. CASE Drops(s) BY <3>1 DEF Drops
    <3>2. CASE AnswersAgain(s)
      <4>1. R2 = R /\ Moves(s, {ConnectAck(R.ackBody)}) BY <3>2 DEF AnswersAgain
      <4>2. ConnectAck(R.ackBody) \in Idle BY <4>1, FrameKinds DEF Moves
      <4> QED BY <4>1, <4>2
    <3> QED BY <1>11, <3>1, <3>2
  <2>2. PICK G \in SUBSET Idle : Moves(s, G) BY <2>1
  <2> QED BY <1>2, <2>1, <2>2, KindsApart
<1>12. CASE Closes(s) \/ ClosesAgain(s)
  <2>1. /\ R2.role = R.role /\ R2.txSeq = R.txSeq /\ R2.expect = R.expect
        /\ R2.call = "disc" /\ Moves(s, {Control("DISC")})
    <3>1. CASE Closes(s) BY <1>0, <3>1 DEF Closes, Closing, StationState
    <3>2. CASE ClosesAgain(s) BY <1>0, <3>2 DEF ClosesAgain, StationState
    <3> QED BY <1>12, <3>1, <3>2
  <2> QED BY <1>2, <2>1, FrameKinds, KindsApart
<1>13. ~Opens(s)
  <2>1. Opens(s) => R2.session = sessions + 1 BY <1>0 DEF Opens, StationState
  <2> QED BY <1>0, <2>1
<1>14. ~(IsClosed(s) \/ Restarts(s))
  <2>1. IsClosed(s) => R2.session = NoSession BY <1>0 DEF IsClosed, Closed, StationState
  <2>2. Restarts(s) => R2.session = NoSession BY DEF Restarts, Fresh
  <2> QED BY <1>0, <2>1, <2>2
<1>15. ~(CallsAgain(s) \/ GivesUp(s) \/ Joins(s) \/ Listens(s) \/ StopsListening(s)
         \/ Answers(s) \/ GoesIdle(s))
  BY <1>0, <1>1
     DEF CallsAgain, GivesUp, Joins, Listens, StopsListening, Answers, GoesIdle
<1> QED BY <1>4, <1>5, <1>6, <1>7, <1>8, <1>9, <1>10, <1>11, <1>12, <1>13, <1>14, <1>15
        DEF Outcome, Quietly

----------------------------------------------------------------------------
(* A step of one of the pair *)

Telling == AnyData \cup AnyAck \cup Grant

\* What may reach the peer: frames of no session, or frames of this one.
Keys(s, F) ==
  /\ Moves(s, F)
  /\ \/ /\ F \subseteq Idle
        /\ (\E f \in F : f.type = "CONNECT") => Opens(s) \/ CallsAgain(s)
     \/ /\ F \cap Idle = {} /\ InSession(s) /\ stn'[s].session = stn[s].session
        /\ \/ F \cap Telling = {}
           \/ stn[s].role = "ISS"
           \/ inbox[s] # << >> /\ Head(inbox[s]) \in Telling \cup Req

LEMMA OutcomeKeys ==
  ASSUME BaseInv, NEW s \in Stations, Outcome(s)
  PROVE  \E F : Keys(s, F)
<1> DEFINE r == stn[s]
           n == Len(returned[s])
<1>0. r \in StationState /\ WellFormed(r, n) BY StationFacts
<1>1. ASSUME NEW f \in Idle, Moves(s, {f}), f.type # "CONNECT" PROVE Keys(s, {f})
  BY <1>1 DEF Keys
<1>2. ASSUME Moves(s, {}) PROVE Keys(s, {}) BY <1>2 DEF Keys
<1>3. ASSUME NEW F, Moves(s, F), F \cap Idle = {}, InSession(s), stn'[s].session = r.session,
             \/ F \cap Telling = {} \/ r.role = "ISS"
             \/ inbox[s] # << >> /\ Head(inbox[s]) \in Telling \cup Req
      PROVE  Keys(s, F)
  BY <1>3 DEF Keys
<1>4. /\ \A f \in Telling \cup Req : f \notin Idle
      /\ \A f \in Req : f \notin Telling
  BY KindsApart DEF Telling
<1>5. r.state = "CONNECTED" => InSession(s) BY DEF InSession
<1>6. \A k : DataFrame(s, k) \in Frame => DataFrame(s, k) \in Telling
  BY FrameKinds DEF DataOf, Telling
<1>7. CASE Opens(s) \/ CallsAgain(s)
  <2>1. PICK id : Moves(s, {Connect(id)}) BY <1>7 DEF Opens, CallsAgain
  <2>2. Connect(id) \in Idle BY <2>1, FrameKinds DEF Moves
  <2>3. Keys(s, {Connect(id)}) BY <1>7, <2>1, <2>2 DEF Keys
  <2> QED BY <2>3
<1>8. CASE Answers(s) \/ AnswersAgain(s)
  <2>1. PICK id : Moves(s, {ConnectAck(id)}) BY <1>8 DEF Answers, AnswersAgain
  <2>2. ConnectAck(id) \in Idle /\ ConnectAck(id).type # "CONNECT"
    BY <2>1, FrameKinds DEF Moves, ConnectAck
  <2> QED BY <1>1, <2>1, <2>2
<1>9. CASE GivesUp(s) \/ Closes(s) \/ ClosesAgain(s)
  <2>1. Moves(s, {Control("DISC")}) BY <1>9 DEF GivesUp, Closes, ClosesAgain
  <2>2. Control("DISC").type # "CONNECT" BY DEF Control
  <2> QED BY <1>1, <2>1, <2>2, FrameKinds
<1>10. CASE IsClosed(s)
  <2>1. Moves(s, {Control("DISC_ACK")}) BY <1>10 DEF IsClosed
  <2>2. Control("DISC_ACK").type # "CONNECT" BY DEF Control
  <2> QED BY <1>1, <2>1, <2>2, FrameKinds
<1>11. CASE \/ Joins(s) \/ Listens(s) \/ StopsListening(s) \/ Drops(s) \/ GoesIdle(s)
            \/ Restarts(s) \/ Returns(s)
  BY <1>2, <1>11 DEF Joins, Listens, StopsListening, Drops, GoesIdle, Restarts, Returns
<1>12. CASE TakesChunk(s)
  <2> DEFINE f == Head(inbox[s])
             R == Received(r, f)
             F == {DataAck(r, f), Control("FLOOR_REQ")}
  <2>0. f \in Frame /\ f.type = "DATA" /\ inbox[s] # << >> /\ r.state = "CONNECTED"
    BY <1>12, HeadFacts DEF TakesChunk, Heads
  <2>1. R \in StationState /\ DataAck(r, f) \in Frame BY <1>0, <2>0, ReceivedTyped
  <2>2. DataAck(r, f) \in Telling BY <2>1 DEF DataAck, AnyAck, Telling
  <2>3. F \subseteq Telling \cup Req /\ F \in SUBSET Frame
    BY <2>1, <2>2, FrameKinds, ControlTyped
  <2>4. Moves(s, F) BY <1>12, <2>3, MovesMore DEF TakesChunk
  <2>5. F \cap Idle = {} BY <1>4, <2>3
  <2>6. f \in Telling \cup Req BY <2>0 DEF Telling, AnyData
  <2>7. R.session = r.session BY <1>0 DEF Received, StationState
  <2> HIDE DEF R, F
  <2>8. stn'[s].session = r.session
    <3>1. CASE stn'[s] = R BY <2>7, <3>1
    <3>2. CASE stn'[s] = Requesting(R, 0)
      BY <2>1, <2>7, <3>2 DEF Requesting, StationState
    <3> QED BY <1>12, <3>1, <3>2 DEF TakesChunk, R
  <2> QED BY <1>3, <1>5, <2>0, <2>4, <2>5, <2>6, <2>8
<1>13. CASE Grants(s)
  <2> DEFINE F == {Control("FLOOR_GRANT")}
  <2>1. /\ Moves(s, F) /\ inbox[s] # << >> /\ Head(inbox[s]) \in Req
        /\ InSession(s) /\ stn'[s].session = r.session
    BY <1>0, <1>5, <1>13, HeadFacts DEF Grants, Heads, Req, StationState
  <2>2. F \cap Idle = {} BY <1>4, FrameKinds DEF Telling
  <2> HIDE DEF F
  <2> QED BY <1>3, <2>1, <2>2
<1>14. CASE StartsSending(s) \/ SendsAgain(s)
  <2>1. PICK k : Moves(s, {DataFrame(s, k)}) BY <1>14 DEF StartsSending, SendsAgain
  <2>2. r.state = "CONNECTED" /\ r.role = "ISS" /\ stn'[s].session = r.session
    BY <1>0, <1>14
       DEF StartsSending, SendsAgain, Sending, WellFormed, StationState
  <2>3. {DataFrame(s, k)} \cap Idle = {} BY <1>4, <1>6, <2>1 DEF Moves
  <2> QED BY <1>3, <1>5, <2>1, <2>2, <2>3
<1>15. CASE TakesGrant(s) \/ SendsNext(s)
  <2>1. PICK k : Moves(s, {DataFrame(s, k)}) BY <1>15 DEF TakesGrant, SendsNext
  <2>2. r.state = "CONNECTED" /\ stn'[s].session = r.session
    BY <1>0, <1>15
       DEF TakesGrant, SendsNext, Sending, Advanced, WellFormed, StationState
  <2>3. inbox[s] # << >> /\ Head(inbox[s]) \in Telling
    BY <1>15, HeadFacts DEF TakesGrant, SendsNext, Heads, Telling, AnyAck, Grant
  <2>4. {DataFrame(s, k)} \cap Idle = {} BY <1>4, <1>6, <2>1 DEF Moves
  <2> QED BY <1>3, <1>5, <2>1, <2>2, <2>3, <2>4
<1>16. CASE AsksFloor(s) \/ AsksAgain(s)
  <2> DEFINE F == {Control("FLOOR_REQ")}
  <2>1. \E k : stn'[s] = Requesting(r, k) BY <1>16 DEF AsksFloor, AsksAgain
  <2>2. Moves(s, F) /\ r.state = "CONNECTED"
    BY <1>0, <1>16 DEF AsksFloor, AsksAgain, WellFormed
  <2>3. stn'[s].session = r.session BY <1>0, <2>1 DEF Requesting, StationState
  <2>4. F \subseteq Req BY FrameKinds
  <2> HIDE DEF F
  <2>5. F \cap Idle = {} /\ F \cap Telling = {} BY <1>4, <2>4
  <2> QED BY <1>3, <1>5, <2>2, <2>3, <2>5
<1> QED BY <1>7, <1>8, <1>9, <1>10, <1>11, <1>12, <1>13, <1>14, <1>15, <1>16
        DEF Outcome, Quietly

\* Where a step leaves its station in the handshake.
LEMMA OutcomeSession ==
  ASSUME BaseInv, NEW s \in Stations, Outcome(s)
  PROVE  \/ Opens(s)
         \/ Answers(s)
         \/ /\ stn'[s].session = NoSession
            /\ stn'[s].call = "listen" => inbox'[s] = << >>
         \/ /\ stn'[s].session = stn[s].session /\ stn'[s].ackBody = stn[s].ackBody
            /\ stn'[s].call = "call" => stn[s].call = "call"
            /\ stn'[s].call = "listen" => stn[s].call = "listen"
<1> DEFINE r == stn[s]
           n == Len(returned[s])
<1>0. r \in StationState /\ WellFormed(r, n) BY StationFacts
<1>1. CASE GivesUp(s) \/ IsClosed(s) \/ Restarts(s)
  <2>1. CASE GivesUp(s) BY <1>0, <2>1 DEF GivesUp, StationState
  <2>2. CASE IsClosed(s) BY <1>0, <2>2 DEF IsClosed, Closed, StationState
  <2>3. CASE Restarts(s) BY <2>3 DEF Restarts, Fresh
  <2> QED BY <1>1, <2>1, <2>2, <2>3
<1>2. CASE Listens(s) BY <1>0, <1>2 DEF Listens, WellFormed, StationState
<1>3. CASE StopsListening(s) \/ GoesIdle(s)
  BY <1>0, <1>3 DEF StopsListening, GoesIdle, StationState
<1>4. CASE CallsAgain(s) \/ Joins(s) \/ AnswersAgain(s) \/ Drops(s) \/ Grants(s)
  <2>1. CASE CallsAgain(s) BY <1>0, <2>1 DEF CallsAgain, StationState
  <2>2. CASE Joins(s) BY <1>0, <2>2 DEF Joins, ResetSequence, StationState
  <2>3. CASE AnswersAgain(s) \/ Drops(s) BY <2>3 DEF AnswersAgain, Drops
  <2>4. CASE Grants(s) BY <1>0, <2>4 DEF Grants, StationState
  <2> QED BY <1>4, <2>1, <2>2, <2>3, <2>4
<1>5. CASE StartsSending(s) \/ SendsAgain(s) \/ TakesGrant(s) \/ SendsNext(s) \/ Returns(s)
  <2>1. CASE StartsSending(s) BY <1>0, <2>1 DEF StartsSending, Sending, StationState
  <2>2. CASE SendsAgain(s) BY <1>0, <2>2 DEF SendsAgain, StationState
  <2>3. CASE TakesGrant(s) BY <1>0, <2>3 DEF TakesGrant, Sending, StationState
  <2>4. CASE SendsNext(s) BY <1>0, <2>4 DEF SendsNext, Sending, Advanced, StationState
  <2>5. CASE Returns(s) BY <1>0, <2>5 DEF Returns, Advanced, StationState
  <2> QED BY <1>5, <2>1, <2>2, <2>3, <2>4, <2>5
<1>6. CASE AsksFloor(s) \/ AsksAgain(s)
  <2>1. \E k : stn'[s] = Requesting(r, k) BY <1>6 DEF AsksFloor, AsksAgain
  <2> QED BY <1>0, <2>1 DEF Requesting, StationState
<1>7. CASE Closes(s) \/ ClosesAgain(s)
  <2>1. CASE Closes(s) BY <1>0, <2>1 DEF Closes, Closing, StationState
  <2>2. CASE ClosesAgain(s) BY <1>0, <2>2 DEF ClosesAgain, StationState
  <2> QED BY <1>7, <2>1, <2>2
<1>8. CASE TakesChunk(s)
  <2> DEFINE f == Head(inbox[s])
             R == Received(r, f)
  <2>0. f \in Frame /\ f.type = "DATA" BY <1>8, HeadFacts DEF TakesChunk, Heads
  <2>1. R \in StationState BY <1>0, <2>0, ReceivedTyped
  <2>2. R.session = r.session /\ R.ackBody = r.ackBody /\ R.call = r.call
    BY <1>0 DEF Received, StationState
  <2> HIDE DEF R
  <2>3. CASE stn'[s] = R BY <2>2, <2>3
  <2>4. CASE stn'[s] = Requesting(R, 0) BY <2>1, <2>2, <2>4 DEF Requesting, StationState
  <2> QED BY <1>8, <2>3, <2>4 DEF TakesChunk, R
<1> QED BY <1>1, <1>2, <1>3, <1>4, <1>5, <1>6, <1>7, <1>8 DEF Outcome, Quietly

\* What the other station shows of itself does not depend on the caller's step.
LEMMA ViewSame ==
  ASSUME NEW c \in Stations, NEW s \in Stations, stn'[s] = stn[s],
         stn'[c].session = stn[c].session,
         (stn'[c].call = "call") <=> (stn[c].call = "call")
  PROVE  (Joined(c, s)' <=> Joined(c, s)) /\ View(c, s)' = View(c, s)
<1>1. Joined(c, s)' <=> Joined(c, s) BY DEF Joined
<1> QED BY <1>1 DEF View

\* A new call: the frames that follow it are calls as well.
LEMMA OpensPair ==
  ASSUME BaseInv, NEW c \in Stations, Opens(c)
  PROVE  Early(c)' /\ PairTalk(c)'
<1>0. PICK l \in Stations : Peer(c) = l /\ l # c BY PeerFacts
<1> DEFINE x == sessions + 1
           F == {Connect(x)}
<1>1. /\ stn[c] \in StationState /\ sessions \in Nat
      /\ stn[l].session \in Nat /\ stn[l].session <= sessions
  BY <1>0, StationFacts, ConstantFacts
<1>2. /\ stn'[c].session = x /\ stn'[c].call = "call" /\ stn'[l] = stn[l]
      /\ inbox'[c] = << >> /\ Moves(c, F)
  BY <1>0, <1>1 DEF Opens, Moves, StationState
<1>3. ~Joined(c, c)' BY <1>2 DEF Joined
<1>4. ~Joined(c, l)' BY <1>0, <1>1, <1>2 DEF Joined
<1>5. View(c, c)' = Entering("ISS") /\ View(c, l)' = Entering("IRS")
  BY <1>0, <1>3, <1>4 DEF View
<1>6. Opening(c, l)' = Connect(x) BY <1>0, <1>2 DEF Opening
<1>7. Live(c, c)' = {} BY <1>2 DEF Live
<1>8. \A j \in Live(c, l)' : inbox'[l][j] \in F
  <2> DEFINE q == inbox[l]
             r == inbox'[l]
  <2>1. q \in Seq(Frame) /\ r \in Seq(Frame) /\ Grown(q, r, F)
    BY <1>0, <1>2, StationFacts DEF Moves
  <2>2. /\ DOMAIN q = 1..Len(q) /\ DOMAIN r = 1..Len(r) /\ Len(q) \in Nat /\ Len(r) \in Nat
        /\ \A j \in 1..Len(r) : IF j <= Len(q) THEN r[j] = q[j] ELSE r[j] \in F
    BY <2>1 DEF Grown
  <2>3. \A k \in DOMAIN q : q[k] # Connect(x)
    <3>1. \A k \in DOMAIN q : q[k].type \in Handshaking => q[k].session <= sessions
      BY <1>0 DEF BaseInv, Drawn
    <3>2. Connect(x).type \in Handshaking /\ Connect(x).session = x
      BY DEF Connect, Handshaking
    <3>3. ~(x <= sessions) BY <1>1
    <3> QED BY <3>1, <3>2, <3>3
  <2>4. \A j \in Live(c, l)' : j \in 1..Len(r) /\ \E k \in 1..Len(r) : k < j /\ r[k] = Connect(x)
    BY <1>4, <1>6, <2>2 DEF Live
  <2> HIDE DEF q, r, F, x
  <2>5. \A j \in Live(c, l)' : r[j] \in F
    <3> TAKE j \in Live(c, l)'
    <3>1. PICK k \in 1..Len(r) : k < j /\ r[k] = Connect(x) BY <2>4
    <3>2. ~(k <= Len(q)) BY <2>2, <2>3, <3>1
    <3>3. ~(j <= Len(q)) /\ j \in 1..Len(r) BY <2>2, <2>4, <3>1, <3>2
    <3> QED BY <2>2, <3>3
  <2> QED BY <2>5 DEF r
<1>9. F \subseteq Idle BY <1>2, FrameKinds DEF Moves
<1> HIDE DEF F
<1>10. None(inbox'[l], Live(c, l)', AnyData \cup AnyAck \cup Grant \cup Req)
  BY <1>8, <1>9, KindsApart DEF None
<1>11. None(inbox'[c], Live(c, c)', AnyData \cup AnyAck \cup Grant) BY <1>7 DEF None
<1>12. Early(c)' BY <1>0, <1>10, <1>11 DEF Early
<1>13. PairTalk(c)' BY <1>0, <1>5, <1>10, <1>11, EarlyTalk DEF PairTalk
<1> QED BY <1>12, <1>13

\* A caller that has not placed a new call is in the call it was in.
LEMMA CallerStays ==
  ASSUME BaseInv, NEW c \in Stations, Outcome(c), ~Opens(c), Caller(c)'
  PROVE  /\ Caller(c) /\ stn'[c].session = stn[c].session
         /\ stn'[c].call = "call" => stn[c].call = "call"
         /\ stn[c].call = "call" /\ stn'[c].call # "call" => Joins(c)
<1> DEFINE R == stn[c]
<1>1. R \in StationState /\ WellFormed(R, Len(returned[c])) BY StationFacts
<1>2. ~Answers(c)
  <2>1. Answers(c) => stn'[c].session = stn'[c].ackBody
    BY <1>1 DEF Answers, ResetSequence, StationState
  <2> QED BY <2>1 DEF Caller
<1>3. stn'[c].session # NoSession BY DEF Caller
<1>4. /\ stn'[c].session = R.session /\ stn'[c].ackBody = R.ackBody
      /\ stn'[c].call = "call" => R.call = "call"
  BY <1>2, <1>3, OutcomeSession
<1>5. Caller(c) BY <1>4 DEF Caller
<1>6. ASSUME R.call = "call", stn'[c].call # "call" PROVE Joins(c)
  <2>0. R.state = "CONNECTING" BY <1>1, <1>6 DEF WellFormed
  <2>1. ~CallsAgain(c) BY <1>1, <1>6 DEF CallsAgain, StationState
  <2>2. ~GivesUp(c) /\ ~Restarts(c)
    <3>1. GivesUp(c) => stn'[c].session = NoSession BY <1>1 DEF GivesUp, StationState
    <3>2. Restarts(c) => stn'[c].session = NoSession BY DEF Restarts, Fresh
    <3> QED BY <1>3, <3>1, <3>2
  <2>3. ~Drops(c) /\ ~AnswersAgain(c) BY <1>6 DEF Drops, AnswersAgain
  <2>4. ~(\/ Listens(c) \/ StopsListening(c) \/ Answers(c) \/ Grants(c)
          \/ StartsSending(c) \/ AsksFloor(c) \/ AsksAgain(c) \/ TakesGrant(c)
          \/ SendsNext(c) \/ SendsAgain(c) \/ Closes(c) \/ ClosesAgain(c)
          \/ IsClosed(c) \/ GoesIdle(c) \/ Returns(c) \/ TakesChunk(c))
    BY <1>6, <2>0
       DEF Listens, StopsListening, Answers, Grants, StartsSending, AsksFloor, AsksAgain,
           TakesGrant, SendsNext, SendsAgain, Closes, ClosesAgain, IsClosed, GoesIdle,
           Returns, TakesChunk
  <2> QED BY <2>1, <2>2, <2>3, <2>4 DEF Outcome, Quietly
<1> QED BY <1>4, <1>5, <1>6

\* Nor has it become one of a pair.
LEMMA CallerPaired ==
  ASSUME BaseInv, NEW c \in Stations, Outcome(c), ~Opens(c), Paired(c)'
  PROVE  Paired(c)
<1>0. PICK l \in Stations : Peer(c) = l /\ l # c /\ Peer(l) = c BY PeerFacts
<1> DEFINE R == stn[c]
<1>1. Caller(c)' BY DEF Paired
<1>2. Caller(c) /\ stn'[c].session = R.session /\ (stn'[c].call = "call" => R.call = "call")
  BY <1>1, CallerStays
<1>3. PICK F : Keys(c, F) BY OutcomeKeys
<1>4. Moves(c, F) /\ stn'[l] = stn[l] BY <1>0, <1>3 DEF Keys, Moves
<1>5. CASE R.call = "call" BY <1>2, <1>5 DEF Paired
<1>6. CASE R.call # "call"
  <2>1. ~CallsAgain(c) BY <1>6 DEF CallsAgain
  <2>2. \A f \in F : f.type # "CONNECT"
    <3>1. CASE F \subseteq Idle
      <4>1. (\E f \in F : f.type = "CONNECT") => F = {} \/ Opens(c) \/ CallsAgain(c)
        BY <1>3, <3>1 DEF Keys
      <4> QED BY <2>1, <4>1
    <3>2. CASE F \cap Idle = {}
      <4>1. F \subseteq Frame BY <1>4 DEF Moves
      <4> QED BY <3>2, <4>1 DEF Idle
    <3> QED BY <1>3, <3>1, <3>2 DEF Keys
  <2>3. CallIds(l)' \subseteq CallIds(l) BY <1>0, <1>4, <2>2, MoveIds
  <2>4. \/ stn[l].session = R.session
        \/ stn[l].call = "listen" /\ R.session \in CallIds(l)'
    BY <1>0, <1>2, <1>4, <1>6 DEF Paired
  <2> QED BY <1>0, <1>2, <2>3, <2>4 DEF Paired
<1> QED BY <1>5, <1>6

\* A later step of the caller.
LEMMA CallerKeepsPair ==
  ASSUME BaseInv, HandshakeInv, PairInv, NEW c \in Stations, Outcome(c), ~Opens(c), Paired(c)'
  PROVE  Early(c)' /\ PairTalk(c)'
<1>0. PICK l \in Stations : Peer(c) = l /\ l # c /\ Peer(l) = c BY PeerFacts
<1> DEFINE R == stn[c]
<1>1. R \in StationState /\ WellFormed(R, Len(returned[c])) BY StationFacts
<1>2. Caller(c)' BY DEF Paired
<1>3. /\ stn'[c].session = R.session
      /\ stn'[c].call = "call" => R.call = "call"
  BY <1>2, CallerStays
<1>4. Caller(c) /\ R.session # NoSession BY <1>2, CallerStays DEF Caller
<1>5. PICK F : Keys(c, F) BY OutcomeKeys
<1>6. Moves(c, F) /\ stn'[l] = stn[l] BY <1>0, <1>5 DEF Keys, Moves
<1>7. Paired(c) BY CallerPaired
<1>8. Early(c) /\ PairTalk(c) BY <1>7 DEF PairInv
<1>9. /\ Joined(c, c) <=> (R.call # "call")
      /\ Joined(c, c)' <=> (stn'[c].call # "call")
  BY DEF Joined
<1>10. (Joined(c, l)' <=> Joined(c, l)) /\ View(c, l)' = View(c, l)
  <2>1. (Joined(c, l)' <=> Joined(c, l)) BY <1>0, <1>3, <1>6 DEF Joined
  <2> QED BY <1>0, <1>6, <2>1 DEF View
<1>11. \A G : Moves(c, G) =>
         Evolved(inbox[l], Live(c, l), inbox'[l], Live(c, l)', G)
  BY <1>0, <1>3, <1>10, LiveGrows
<1>12. CASE R.call = "call"
  <2>1. R.state = "CONNECTING" /\ ~InSession(c) BY <1>1, <1>12 DEF WellFormed, InSession
  <2>2. F \subseteq Idle BY <1>5, <2>1 DEF Keys
  <2>3. View(c, c) = Entering("ISS") BY <1>9, <1>12 DEF View
  <2>4. CASE stn'[c].call = "call"
    <3>1. View(c, c)' = Entering("ISS") BY <1>9, <2>4 DEF View
    <3>2. Evolved(inbox[c], Live(c, c), inbox'[c], Live(c, c)', {})
      BY <1>3, <1>6, <1>9, <1>12, <2>4, LiveRests
    <3>3. Evolved(inbox[l], Live(c, l), inbox'[l], Live(c, l)', F) BY <1>6, <1>11
    <3>4. /\ None(inbox[c], Live(c, c), AnyData \cup AnyAck \cup Grant)
          /\ None(inbox[l], Live(c, l), AnyData \cup AnyAck \cup Grant \cup Req)
      BY <1>0, <1>8, <1>12 DEF Early
    <3>5. None(inbox'[c], Live(c, c)', AnyData \cup AnyAck \cup Grant)
      BY <3>2, <3>4, EvolvedNone
    <3>6. None(inbox'[l], Live(c, l)', AnyData \cup AnyAck \cup Grant \cup Req)
      <4>1. F \cap (AnyData \cup AnyAck \cup Grant \cup Req) = {} BY <2>2, KindsApart
      <4> QED BY <3>3, <3>4, <4>1, EvolvedNone
    <3>7. Early(c)' BY <1>0, <3>5, <3>6 DEF Early
    <3>8. PairTalk(c)'
      <4>1. /\ F \cap AnyData = {} /\ F \cap AnyAck = {} /\ F \cap Grant = {}
            /\ F \cap Req = {}
        BY <2>2, KindsApart
      <4>2. Talk(Entering("ISS"), View(c, l), inbox[c], Live(c, c), inbox[l], Live(c, l), TRUE)
        BY <1>0, <1>8, <2>3 DEF PairTalk
      <4>3. Talk(Entering("ISS"), View(c, l), inbox'[c], Live(c, c)', inbox'[l],
                 Live(c, l)', TRUE)
        BY <3>2, <3>3, <4>1, <4>2, TalkCalm
      <4> QED BY <1>0, <1>10, <3>1, <4>3 DEF PairTalk
    <3> QED BY <3>7, <3>8
  <2>5. CASE stn'[c].call # "call"
    <3>1. Joins(c) BY <1>2, <1>12, <2>5, CallerStays
    <3>2. /\ Moves(c, {}) /\ inbox[c] # << >> /\ inbox'[c] = Tail(inbox[c])
          /\ Head(inbox[c]).type = "CONNECT_ACK" /\ Head(inbox[c]).session = R.session
      BY <3>1 DEF Joins, Heads
    <3>3. Head(inbox[c]) = Opening(c, c)
      <4>1. Head(inbox[c]) \in Frame BY <3>2, HeadFacts
      <4> QED BY <3>2, <4>1 DEF Frame, Opening, ConnectAck
    <3>4. /\ stn'[c].role = "ISS" /\ stn'[c].call = "poll"
          /\ stn'[c].txSeq = 0 /\ stn'[c].expect = 0
      BY <1>1, <3>1 DEF Joins, ResetSequence, StationState
    <3>5. View(c, c)' = stn'[c] BY <1>9, <2>5 DEF View
    <3>6. Evolved(inbox[c], Live(c, c), inbox'[c], Live(c, c)', {})
      BY <1>3, <3>2, <3>3, LiveRests
    <3>7. Evolved(inbox[l], Live(c, l), inbox'[l], Live(c, l)', {}) BY <1>11, <3>2
    <3>8. Talk(Entering("ISS"), View(c, l), inbox[c], Live(c, c), inbox[l], Live(c, l), TRUE)
      BY <1>0, <1>8, <2>3 DEF PairTalk
    <3>9. Talk(stn'[c], View(c, l), inbox'[c], Live(c, c)', inbox'[l], Live(c, l)', TRUE)
      <4>1. /\ stn'[c].role = Entering("ISS").role
            /\ stn'[c].txSeq = Entering("ISS").txSeq
            /\ stn'[c].expect = Entering("ISS").expect
            /\ stn'[c].call \in {Entering("ISS").call, "disc"}
        BY <3>4 DEF Entering
      <4>2. /\ {} \cap AnyData = {} /\ {} \cap AnyAck = {} /\ {} \cap Grant = {}
            /\ {} \cap Req = {}
        OBVIOUS
      <4> QED BY <3>6, <3>7, <3>8, <4>1, <4>2, TalkCalm
    <3>10. PairTalk(c)' BY <1>0, <1>10, <3>5, <3>9 DEF PairTalk
    <3>11. Early(c)' BY <2>5 DEF Early
    <3> QED BY <3>10, <3>11
  <2> QED BY <2>4, <2>5
<1>13. CASE R.call # "call"
  <2>1. stn'[c].call # "call" BY <1>3, <1>13
  <2>2. InSession(c) BY <1>1, <1>4, <1>13 DEF WellFormed, InSession
  <2>3. View(c, c) = R /\ View(c, c)' = stn'[c] BY <1>9, <1>13, <2>1 DEF View
  <2>4. Live(c, c) = DOMAIN inbox[c] /\ Live(c, c)' = DOMAIN inbox'[c]
    BY <1>9, <1>13, <2>1 DEF Live
  <2>5. Talk(R, View(c, l), inbox[c], DOMAIN inbox[c], inbox[l], Live(c, l), TRUE)
    BY <1>0, <1>8, <2>3, <2>4 DEF PairTalk
  <2>6. Talk(stn'[c], View(c, l), inbox'[c], DOMAIN inbox'[c], inbox'[l], Live(c, l)', TRUE)
    BY <1>0, <1>3, <1>11, <2>2, <2>5, RealTalk
  <2>7. PairTalk(c)' BY <1>0, <1>10, <2>3, <2>4, <2>6 DEF PairTalk
  <2>8. Early(c)' BY <2>1 DEF Early
  <2> QED BY <2>7, <2>8
<1> QED BY <1>12, <1>13

\* A station in a session of its own stands beside a call nobody has answered.
LEMMA UnansweredBeside ==
  ASSUME BaseInv, HandshakeInv, NEW c \in Stations, NEW l \in Stations, Peer(c) = l,
         Peer(l) = c, Caller(c), InSession(l), stn[l].session # stn[c].session
  PROVE  stn[c].session \notin AckIds(c)
<1> SUFFICES ASSUME stn[c].session \in AckIds(c) PROVE FALSE OBVIOUS
<1>1. Answered(c) /\ Answered(l) BY DEF Answered
<1>2. stn[c].session \in Nat /\ stn[l].session \in Nat BY NumbersFacts DEF Numbers
<1>3. stn[l].session # NoSession BY StationFacts DEF InSession, WellFormed
<1>4. Latest(c) /\ Settled(c) /\ Ahead(c) /\ Ahead(l) BY DEF HandshakeInv
<1>5. CASE Caller(l) BY <1>1, <1>2, <1>4, <1>5 DEF Ahead
<1>6. CASE Answerer(l) BY <1>1, <1>2, <1>4, <1>6 DEF Latest, Settled
<1> QED BY <1>3, <1>5, <1>6 DEF Caller, Answerer

\* The station called: what a step of it changes of the call.
LEMMA CalledSession ==
  ASSUME BaseInv, HandshakeInv, NEW c \in Stations, NEW l \in Stations, Peer(c) = l,
         l # c, Outcome(l), Caller(c)
  PROVE  /\ Opens(l) => stn'[l].session # stn[c].session /\ stn'[l].call = "call"
         /\ Answers(l) => /\ stn[l].session = NoSession /\ stn[l].call = "listen"
                          /\ stn'[l].session = Head(inbox[l]).session
                          /\ stn'[l].session \in CallIds(l) /\ stn'[l].call = "poll"
         /\ stn[l].session = stn[c].session => InSession(l)
         /\ Paired(c)' => Paired(c)
<1> DEFINE R == stn[l]
           x == stn[c].session
<1>1. R \in StationState /\ WellFormed(R, Len(returned[l])) BY StationFacts
<1>2. PICK F : Keys(l, F) BY OutcomeKeys
<1>3. Peer(l) = c BY PeerFacts
<1>4. Moves(l, F) /\ stn'[c] = stn[c] /\ x # NoSession
  BY <1>2, <1>3 DEF Keys, Moves, Caller
<1>5. Opens(l) => stn'[l].session # x /\ stn'[l].call = "call"
  <2>1. x <= sessions /\ x \in Nat /\ sessions \in Nat BY StationFacts, ConstantFacts
  <2>2. Opens(l) => stn'[l].session = sessions + 1 /\ stn'[l].call = "call"
    BY <1>1 DEF Opens, StationState
  <2> HIDE DEF x
  <2> QED BY <2>1, <2>2
<1>6. Answers(l) => /\ R.session = NoSession /\ R.call = "listen"
                    /\ stn'[l].session = Head(inbox[l]).session
                    /\ stn'[l].session \in CallIds(l)
                    /\ stn'[l].call = "poll"
  <2>1. ASSUME Answers(l)
        PROVE  Head(inbox[l]).session \in CallIds(l)
    <3>1. Moves(l, {ConnectAck(Head(inbox[l]).session)}) /\ Heads(l, "CONNECT")
      BY <2>1 DEF Answers
    <3> QED BY <3>1, AnswerGrows DEF Heads
  <2>2. ASSUME Answers(l)
        PROVE  stn'[l].session = Head(inbox[l]).session /\ stn'[l].call = "poll"
    BY <1>1, <2>2 DEF Answers, ResetSequence, StationState
  <2>3. Answers(l) => R.session = NoSession /\ R.call = "listen"
    BY <1>1 DEF Answers, WellFormed
  <2> QED BY <2>1, <2>2, <2>3
<1>7. R.session = x => InSession(l)
  <2>1. ASSUME R.session = x PROVE InSession(l)
    <3>1. ~Caller(l) BY <1>3, <2>1 DEF HandshakeInv, Own
    <3>2. R.ackBody = R.session BY <1>4, <2>1, <3>1 DEF Caller
    <3> QED BY <1>1, <1>4, <2>1, <3>2 DEF WellFormed, InSession
  <2> QED BY <2>1
<1>8. ASSUME Paired(c)' PROVE Paired(c)
  <2>1. CASE stn[c].call = "call" BY <2>1 DEF Paired
  <2>2. CASE stn'[l].session = x
    <3>1. \/ R.session = x
          \/ R.call = "listen" /\ x \in CallIds(l)
      BY <1>4, <1>5, <1>6, <2>2, OutcomeSession
    <3> QED BY <3>1 DEF Paired
  <2>3. CASE stn'[l].call = "listen" /\ x \in CallIds(l)'
    <3>1. inbox'[l] # << >> BY <2>3 DEF CallIds, Ids
    <3>2. R.call = "listen" BY <1>5, <1>6, <2>3, <3>1, OutcomeSession
    <3>3. CallIds(l)' \subseteq CallIds(l) BY <1>4, MoveIds
    <3> QED BY <2>3, <3>2, <3>3 DEF Paired
  <2> QED BY <1>4, <1>8, <2>1, <2>2, <2>3 DEF Paired
<1> QED BY <1>5, <1>6, <1>7, <1>8

\* A step of the station called.
LEMMA CalledKeepsPair ==
  ASSUME BaseInv, HandshakeInv, PairInv, NEW c \in Stations, NEW l \in Stations, l # c,
         Peer(c) = l, Peer(l) = c, Outcome(l), Paired(c)'
  PROVE  Early(c)' /\ PairTalk(c)'
<1> DEFINE R == stn[l]
           x == stn[c].session
           A == AnyData \cup AnyAck \cup Grant
<1>1. R \in StationState /\ WellFormed(R, Len(returned[l])) BY StationFacts
<1>4. PICK F : Keys(l, F) BY OutcomeKeys
<1>5. Moves(l, F) BY <1>4 DEF Keys
<1>2. stn'[c] = stn[c] BY <1>5 DEF Moves
<1>3. Caller(c) /\ x # NoSession BY <1>2 DEF Paired, Caller
<1>6. (Joined(c, c)' <=> Joined(c, c)) /\ View(c, c)' = View(c, c)
  BY <1>2, ViewSame
<1>7. \A G : Moves(l, G) =>
         Evolved(inbox[c], Live(c, c), inbox'[c], Live(c, c)', G)
  BY <1>2, <1>6, LiveGrows
<1>8. /\ Joined(c, l) <=> (R.session = x)
      /\ Joined(c, l)' <=> (stn'[l].session = x)
  BY <1>2 DEF Joined
<1>9. Opens(l) => stn'[l].session # x /\ stn'[l].call = "call" BY <1>3, CalledSession
<1>10. Answers(l) => /\ R.session = NoSession /\ R.call = "listen"
                     /\ stn'[l].session = Head(inbox[l]).session
                     /\ stn'[l].session \in CallIds(l)
                     /\ stn'[l].call = "poll"
  BY <1>3, CalledSession
<1>11. Paired(c) BY <1>3, CalledSession
<1>12. Early(c) /\ PairTalk(c) BY <1>11 DEF PairInv
<1>13. Talk(View(c, l), View(c, c), inbox[l], Live(c, l), inbox[c], Live(c, c), FALSE)
  <2>1. Talk(View(c, c), View(c, l), inbox[c], Live(c, c), inbox[l], Live(c, l), TRUE)
    BY <1>12 DEF PairTalk
  <2>2. TRUE \in BOOLEAN /\ ~TRUE = FALSE OBVIOUS
  <2> QED BY <2>1, <2>2, TalkSwaps
<1>14. ASSUME Talk(View(c, l)', View(c, c), inbox'[l], Live(c, l)', inbox'[c], Live(c, c)', FALSE)
       PROVE  PairTalk(c)'
  <2>1. Talk(View(c, c), View(c, l)', inbox'[c], Live(c, c)', inbox'[l], Live(c, l)', TRUE)
    <3>1. FALSE \in BOOLEAN /\ ~FALSE = TRUE OBVIOUS
    <3> QED BY <1>14, <3>1, TalkSwaps
  <2> QED BY <1>6, <2>1 DEF PairTalk
<1>15. ASSUME stn[c].call = "call",
              Evolved(inbox[l], Live(c, l), inbox'[l], Live(c, l)', {}),
              NEW G, Moves(l, G), G \cap A = {}
       PROVE  /\ Early(c)'
              /\ None(inbox'[c], Live(c, c)', A)
              /\ None(inbox'[l], Live(c, l)', A \cup Req)
  <2>1. None(inbox[c], Live(c, c), A) /\ None(inbox[l], Live(c, l), A \cup Req)
    BY <1>12, <1>15 DEF Early
  <2>2. Evolved(inbox[c], Live(c, c), inbox'[c], Live(c, c)', G) BY <1>7, <1>15
  <2>3. None(inbox'[c], Live(c, c)', A) BY <1>15, <2>1, <2>2, EvolvedNone
  <2>4. None(inbox'[l], Live(c, l)', A \cup Req)
    <3>1. {} \cap (A \cup Req) = {} OBVIOUS
    <3> QED BY <1>15, <2>1, <3>1, EvolvedNone
  <2> QED BY <2>3, <2>4 DEF Early
<1>16. CASE R.session = x /\ stn'[l].session = x
  <2>1. InSession(l) BY <1>3, <1>16, CalledSession
  <2>2. /\ View(c, l) = R /\ View(c, l)' = stn'[l]
        /\ Live(c, l) = DOMAIN inbox[l] /\ Live(c, l)' = DOMAIN inbox'[l]
    BY <1>8, <1>16 DEF View, Live
  <2>3. Talk(R, View(c, c), inbox[l], DOMAIN inbox[l], inbox[c], Live(c, c), FALSE)
    BY <1>13, <2>2
  <2>4. Talk(stn'[l], View(c, c), inbox'[l], DOMAIN inbox'[l], inbox'[c], Live(c, c)', FALSE)
    <3>1. FALSE \in BOOLEAN OBVIOUS
    <3>2. stn'[l].session = R.session BY <1>16
    <3> QED BY <1>7, <2>1, <2>3, <3>1, <3>2, RealTalk
  <2>5. PairTalk(c)' BY <1>14, <2>2, <2>4
  <2>6. Early(c)'
    <3>1. CASE stn[c].call = "call"
      <4>1. None(inbox[l], DOMAIN inbox[l], A \cup Req)
        BY <1>12, <2>2, <3>1 DEF Early
      <4>2. R.role # "ISS"
        <5>1. View(c, c).role = "ISS" BY <3>1 DEF View, Joined, Entering
        <5> QED BY <2>3, <5>1 DEF Talk, Speaking, Owns
      <4>3. inbox[l] # << >> => Head(inbox[l]) \notin Telling \cup Req
        <5> SUFFICES ASSUME inbox[l] # << >> PROVE Head(inbox[l]) \notin A \cup Req
          BY DEF Telling
        <5> DEFINE Q == Frame
        <5>1. inbox[l] \in Seq(Q) BY StationFacts
        <5>2. 1 \in DOMAIN inbox[l] /\ Head(inbox[l]) = inbox[l][1]
          <6> HIDE DEF Q
          <6> QED BY <5>1, HeadTailProperties
        <5> QED BY <4>1, <5>2 DEF None
      <4>4. F \cap A = {}
        <5>1. CASE F \subseteq Idle BY <5>1, KindsApart
        <5>2. CASE F \cap Telling = {} BY <5>2 DEF Telling
        <5> QED BY <1>4, <4>2, <4>3, <5>1, <5>2 DEF Keys
      <4>5. Evolved(inbox[l], Live(c, l), inbox'[l], Live(c, l)', {})
        BY <1>5, <2>2, OwnRests
      <4> QED BY <1>5, <1>15, <3>1, <4>4, <4>5
    <3>2. CASE stn[c].call # "call" BY <1>2, <3>2 DEF Early
    <3> QED BY <3>1, <3>2
  <2> QED BY <2>5, <2>6
<1>17. CASE R.session = x /\ stn'[l].session # x
  <2>1. ~Answers(l) /\ R.call # "listen"
    <3>1. R.session # NoSession BY <1>3, <1>17
    <3> QED BY <1>1, <3>1 DEF Answers, WellFormed
  <2>2. stn[c].call = "call"
    <3>1. stn'[l].call = "listen" => inbox'[l] = << >>
      BY <1>9, <1>17, <2>1, OutcomeSession
    <3>2. inbox'[l] = << >> => CallIds(l)' = {} BY DEF CallIds, Ids
    <3> QED BY <1>2, <1>17, <3>1, <3>2 DEF Paired
  <2>3. F \cap A = {}
    <3>1. F \subseteq Idle BY <1>4, <1>17 DEF Keys
    <3> QED BY <3>1, KindsApart
  <2>4. Evolved(inbox[l], Live(c, l), inbox'[l], Live(c, l)', {})
    BY <1>2, <1>5, <1>8, <1>17, LiveRests
  <2>5. /\ Early(c)'
        /\ None(inbox'[c], Live(c, c)', A)
        /\ None(inbox'[l], Live(c, l)', A \cup Req)
    BY <1>5, <1>15, <2>2, <2>3, <2>4
  <2>6. View(c, c)' = Entering("ISS") /\ View(c, l)' = Entering("IRS")
    BY <1>2, <1>8, <1>17, <2>2 DEF View, Joined
  <2> QED BY <2>5, <2>6, EarlyTalk DEF PairTalk
<1>18. CASE R.session # x /\ stn'[l].session = x
  <2>1. Answers(l) BY <1>3, <1>9, <1>18, OutcomeSession
  <2>2. /\ Moves(l, {ConnectAck(x)}) /\ inbox[l] # << >> /\ inbox'[l] = Tail(inbox[l])
        /\ Head(inbox[l]).type = "CONNECT" /\ Head(inbox[l]).session = x
    BY <1>10, <1>18, <2>1 DEF Answers, Heads
  <2>3. Head(inbox[l]) = Opening(c, l)
    <3>1. Head(inbox[l]) \in Frame BY <2>2, HeadFacts
    <3> QED BY <2>2, <3>1 DEF Frame, Opening, Connect
  <2>4. /\ stn'[l].role = "IRS" /\ stn'[l].call = "poll"
        /\ stn'[l].txSeq = 0 /\ stn'[l].expect = 0
    BY <1>1, <2>1 DEF Answers, ResetSequence, StationState
  <2>5. View(c, l) = Entering("IRS") /\ View(c, l)' = stn'[l]
    BY <1>8, <1>18 DEF View
  <2>6. Evolved(inbox[l], Live(c, l), inbox'[l], Live(c, l)', {})
    BY <1>2, <2>2, <2>3, LiveRests
  <2> DEFINE G == {ConnectAck(x)}
  <2>7. Moves(l, G) /\ G \subseteq Idle
    <3>1. ConnectAck(x) \in Frame BY <2>2 DEF Moves
    <3> QED BY <2>2, <3>1, FrameKinds
  <2> HIDE DEF G
  <2>8. /\ G \cap AnyData = {} /\ G \cap AnyAck = {} /\ G \cap Grant = {}
        /\ G \cap Req = {} /\ G \cap A = {}
    BY <2>7, KindsApart
  <2>9. Evolved(inbox[c], Live(c, c), inbox'[c], Live(c, c)', G) BY <1>7, <2>7
  <2>10. Talk(stn'[l], View(c, c), inbox'[l], Live(c, l)', inbox'[c], Live(c, c)', FALSE)
    <3>1. /\ stn'[l].role = Entering("IRS").role
          /\ stn'[l].txSeq = Entering("IRS").txSeq
          /\ stn'[l].expect = Entering("IRS").expect
          /\ stn'[l].call \in {Entering("IRS").call, "disc"}
      BY <2>4 DEF Entering
    <3>2. Talk(Entering("IRS"), View(c, c), inbox[l], Live(c, l), inbox[c], Live(c, c), FALSE)
      BY <1>13, <2>5
    <3>3. FALSE \in BOOLEAN OBVIOUS
    <3> QED BY <2>6, <2>8, <2>9, <3>1, <3>2, <3>3, TalkCalm
  <2>11. PairTalk(c)' BY <1>14, <2>5, <2>10
  <2>12. Early(c)'
    <3>1. CASE stn[c].call = "call" BY <1>15, <2>6, <2>7, <2>8, <3>1
    <3>2. CASE stn[c].call # "call" BY <1>2, <3>2 DEF Early
    <3> QED BY <3>1, <3>2
  <2> QED BY <2>11, <2>12
<1>19. CASE R.session # x /\ stn'[l].session # x
  <2>1. View(c, l) = Entering("IRS") /\ View(c, l)' = Entering("IRS")
    BY <1>8, <1>19 DEF View
  <2>2. Evolved(inbox[l], Live(c, l), inbox'[l], Live(c, l)', {})
    BY <1>2, <1>5, <1>8, <1>19, LiveRests
  <2>3. Evolved(inbox[c], Live(c, c), inbox'[c], Live(c, c)', F) BY <1>5, <1>7
  <2>4. CASE F \subseteq Idle
    <3>1. /\ F \cap AnyData = {} /\ F \cap AnyAck = {} /\ F \cap Grant = {}
          /\ F \cap Req = {} /\ F \cap A = {}
      BY <2>4, KindsApart
    <3>2. Talk(Entering("IRS"), View(c, c), inbox[l], Live(c, l), inbox[c], Live(c, c), FALSE)
      BY <1>13, <2>1
    <3>3. Talk(Entering("IRS"), View(c, c), inbox'[l], Live(c, l)', inbox'[c], Live(c, c)', FALSE)
      <4>1. FALSE \in BOOLEAN OBVIOUS
      <4> QED BY <2>2, <2>3, <3>1, <3>2, <4>1, TalkCalm
    <3>4. PairTalk(c)' BY <1>14, <2>1, <3>3
    <3>5. Early(c)'
      <4>1. CASE stn[c].call = "call" BY <1>5, <1>15, <2>2, <3>1, <4>1
      <4>2. CASE stn[c].call # "call" BY <1>2, <4>2 DEF Early
      <4> QED BY <4>1, <4>2
    <3> QED BY <3>4, <3>5
  <2>5. CASE F \cap Idle = {} /\ InSession(l)
    <3>1. stn[c].call = "call"
      <4>1. R.call # "listen" BY <1>1, <2>5 DEF InSession, WellFormed
      <4> QED BY <1>11, <1>19, <4>1 DEF Paired
    <3>2. x \notin AckIds(c) BY <1>3, <1>19, <2>5, UnansweredBeside
    <3>3. x \notin AckIds(c)'
      <4>1. \A f \in F : f.type # "CONNECT_ACK"
        <5>1. F \subseteq Frame BY <1>5 DEF Moves
        <5> QED BY <2>5, <5>1 DEF Idle
      <4>2. AckIds(c)' \subseteq AckIds(c) BY <1>5, <4>1, MoveIds
      <4> QED BY <3>2, <4>2
    <3>4. Live(c, c)' = {}
      <4>1. ~Joined(c, c)' BY <1>2, <3>1 DEF Joined
      <4>2. \A k \in DOMAIN inbox'[c] : inbox'[c][k] # ConnectAck(x)
        BY <3>3 DEF AckIds, Ids, ConnectAck
      <4>3. Opening(c, c)' = ConnectAck(x) BY <1>2 DEF Opening
      <4> QED BY <4>1, <4>2, <4>3 DEF Live
    <3>5. None(inbox'[c], Live(c, c)', A) BY <3>4 DEF None
    <3>6. None(inbox'[l], Live(c, l)', A \cup Req)
      <4>1. None(inbox[l], Live(c, l), A \cup Req) BY <1>12, <3>1 DEF Early
      <4>2. {} \cap (A \cup Req) = {} OBVIOUS
      <4> QED BY <2>2, <4>1, <4>2, EvolvedNone
    <3>7. Early(c)' BY <3>5, <3>6 DEF Early
    <3>8. View(c, c)' = Entering("ISS") BY <1>2, <3>1 DEF View, Joined
    <3> QED BY <2>1, <3>5, <3>6, <3>7, <3>8, EarlyTalk DEF PairTalk
  <2> QED BY <1>4, <2>4, <2>5 DEF Keys
<1> QED BY <1>16, <1>17, <1>18, <1>19

LEMMA OutcomeKeepsPair ==
  ASSUME BaseInv, HandshakeInv, PairInv, NEW s \in Stations, Outcome(s)
  PROVE  PairInv'
<1> SUFFICES ASSUME NEW c \in Stations, Paired(c)' PROVE Early(c)' /\ PairTalk(c)'
  BY DEF PairInv
<1>0. PICK l \in Stations : Peer(c) = l /\ l # c /\ Peer(l) = c /\ (s = c \/ s = l)
  BY PeerFacts
<1>1. CASE s = c /\ Opens(c) BY <1>1, OpensPair
<1>2. CASE s = c /\ ~Opens(c) BY <1>2, CallerKeepsPair
<1>3. CASE s = l BY <1>0, <1>3, CalledKeepsPair
<1> QED BY <1>0, <1>1, <1>2, <1>3

LEMMA PairStart == Init => PairInv
<1> SUFFICES ASSUME Init PROVE \A c \in Stations : ~Paired(c) BY DEF PairInv
<1>1. \A c \in Stations : stn[c].session = NoSession BY DEF Init, Fresh
<1> QED BY <1>1 DEF Paired, Caller

LEMMA PairStutters ==
  ASSUME PairInv, UNCHANGED vars
  PROVE  PairInv'
<1>0. stn' = stn /\ inbox' = inbox BY DEF vars
<1> SUFFICES ASSUME NEW c \in Stations, Paired(c)' PROVE Early(c)' /\ PairTalk(c)'
  BY DEF PairInv
<1>1. PICK l \in Stations : Peer(c) = l BY PeerFacts
<1>2. Paired(c) BY <1>0, <1>1 DEF Paired, Caller, CallIds
<1>3. \A s \in Stations : View(c, s)' = View(c, s) /\ Live(c, s)' = Live(c, s)
  BY <1>0 DEF View, Live, Joined, Opening
<1>4. Early(c) /\ PairTalk(c) BY <1>2 DEF PairInv
<1>5. Early(c)' BY <1>0, <1>1, <1>3, <1>4 DEF Early
<1>6. PairTalk(c)' BY <1>0, <1>1, <1>3, <1>4 DEF PairTalk
<1> QED BY <1>5, <1>6

LEMMA PairKept == BaseInv /\ HandshakeInv /\ PairInv /\ [Next]_vars => PairInv'
<1>1. ASSUME BaseInv, HandshakeInv, PairInv, Next PROVE PairInv'
  BY <1>1, Outcomes, OutcomeKeepsPair
<1> QED BY <1>1, PairStutters

\* Two stations of one session are the pair of one of them.
LEMMA TogetherTalk ==
  ASSUME BaseInv, HandshakeInv, PairInv, Together
  PROVE  \E c \in Stations :
           /\ \A s \in Stations : s = c \/ s = Peer(c)
           /\ Peer(c) \in Stations /\ Peer(Peer(c)) = c
           /\ Talk(stn[c], stn[Peer(c)], inbox[c], DOMAIN inbox[c],
                   inbox[Peer(c)], DOMAIN inbox[Peer(c)], TRUE)
<1>1. PICK c \in Stations : Caller(c)
  <2>1. PICK s \in Stations : TRUE BY LinkAssumption
  <2>2. PICK p \in Stations : Peer(s) = p BY PeerFacts
  <2>3. \A t \in Stations : stn[t].session # NoSession
    BY StationFacts DEF Together, InSession, WellFormed
  <2>4. ~(Answerer(s) /\ Answerer(p)) BY <2>2 DEF HandshakeInv, Answering
  <2> QED BY <2>2, <2>3, <2>4 DEF Caller, Answerer
<1>2. PICK l \in Stations : /\ Peer(c) = l /\ l # c /\ Peer(l) = c
                            /\ \A s \in Stations : s = c \/ s = l
  BY PeerFacts
<1>3. stn[l].session = stn[c].session /\ stn[c].state = "CONNECTED"
  BY DEF Together, InSession
<1>4. stn[c].call # "call" BY <1>3, StationFacts DEF WellFormed
<1>5. Joined(c, c) /\ Joined(c, l) BY <1>2, <1>3, <1>4 DEF Joined
<1>6. PairTalk(c) BY <1>1, <1>2, <1>3 DEF PairInv, Paired
<1>7. /\ View(c, c) = stn[c] /\ View(c, l) = stn[l]
      /\ Live(c, c) = DOMAIN inbox[c] /\ Live(c, l) = DOMAIN inbox[l]
  BY <1>5 DEF View, Live
<1> QED BY <1>2, <1>6, <1>7 DEF PairTalk

LEMMA PairAgrees == BaseInv /\ HandshakeInv /\ PairInv => CountersAgree /\ OneSpeaker
<1> SUFFICES ASSUME BaseInv, HandshakeInv, PairInv, Together
             PROVE  /\ \A s \in Stations :
                         \/ stn[Peer(s)].expect = stn[s].txSeq
                         \/ /\ stn[Peer(s)].expect = NextSeq(stn[s].txSeq)
                            /\ stn[s].call \in {"send", "disc"}
                    /\ \E s \in Stations : stn[s].role = "IRS"
  BY DEF CountersAgree, OneSpeaker
<1>1. PICK c \in Stations :
        /\ \A s \in Stations : s = c \/ s = Peer(c)
        /\ Peer(c) \in Stations /\ Peer(Peer(c)) = c
        /\ Talk(stn[c], stn[Peer(c)], inbox[c], DOMAIN inbox[c],
                inbox[Peer(c)], DOMAIN inbox[Peer(c)], TRUE)
  BY TogetherTalk
<1>2. \A s \in Stations : stn[s].role \in {"ISS", "IRS"}
  BY StationFacts DEF Together, InSession, WellFormed
<1>3. stn[c].role # "ISS" \/ stn[Peer(c)].role # "ISS" BY <1>1 DEF Talk, Speaking, Owns
<1>4. \E s \in Stations : stn[s].role = "IRS" BY <1>1, <1>2, <1>3
<1>5. \A s \in Stations : \/ stn[Peer(s)].expect = stn[s].txSeq
                          \/ /\ stn[Peer(s)].expect = NextSeq(stn[s].txSeq)
                             /\ stn[s].call \in {"send", "disc"}
  BY <1>1 DEF Talk, Counters
<1> QED BY <1>4, <1>5

\* In a session both stations share, each side's expected sequence number is
\* the one the other will use, or one ahead while the other has yet to take the
\* acknowledgement; for every modulus, every loss and every number of retries.
THEOREM AlwaysCountersAgree == Spec => []CountersAgree
<1>1. BaseInv /\ HandshakeInv /\ PairInv => CountersAgree BY PairAgrees
<1> QED BY <1>1, BaseStart, BaseKept, HandshakeStart, HandshakeKept, PairStart, PairKept,
           PTL DEF Spec

\* Two stations that share a session never both hold the floor, whatever
\* requests and grants were repeated, lost or left in a queue.
THEOREM AlwaysOneSpeaker == Spec => []OneSpeaker
<1>1. BaseInv /\ HandshakeInv /\ PairInv => OneSpeaker BY PairAgrees
<1> QED BY <1>1, BaseStart, BaseKept, HandshakeStart, HandshakeKept, PairStart, PairKept,
           PTL DEF Spec

----------------------------------------------------------------------------
(* What the chunks carry.  DATA names no session: whether a chunk fits what  *)
(* its reader holds depends on the frames before it.                         *)

Piece(id, m, k) == [session |-> id, msg |-> m, part |-> k]

\* The first n chunks of message m of a session.
Pieces(id, m, n) == [k \in 1..n |-> Piece(id, m, k)]

\* The application that kept d was given message m.
Has(d, id, m) ==
  \E i \in DOMAIN d : d[i] = [session |-> id, chunks |-> WholeMessage(id, m)]

\* Chunk f continues what its reader has put together so far.
Fits(f, partial, id, d) ==
  /\ f.body.session = id
  /\ f.eof <=> (f.body.part = ChunksPerMessage)
  /\ partial = Pieces(id, f.body.msg, f.body.part - 1)
  /\ \A k \in DOMAIN d : d[k].session = id => d[k].chunks[1].msg < f.body.msg

\* A receiver in R: every chunk it is to take fits, and none hides behind it.
Reads(R, q, J, id, d) ==
  /\ \A i \in J : q[i] \in DataOf(R.expect) => Fits(q[i], R.partial, id, d)
  /\ Never(q, J, DataOf(R.expect), AnyData \ DataOf(R.expect))

\* A sender in R with message m in hand: an acknowledgement of its chunk in
\* hand, when it is the last, says that the message was given.
Learns(R, q, J, id, m, d) ==
  /\ R.call \notin {"send", "disc"} => None(q, J, AckOf(R.txSeq))
  /\ Never(q, J, AckOf(R.txSeq), AnyAck \ AckOf(R.txSeq))
  /\ R.call = "send" /\ R.part = ChunksPerMessage /\ ~None(q, J, AckOf(R.txSeq))
       => Has(d, id, m)

\* How much of the message in hand the receiver has taken.
Taken(R, P) == IF R.call # "send" THEN 0
               ELSE IF P.expect = R.txSeq THEN R.part - 1 ELSE R.part

\* A sender in R with message m in hand and its receiver in P.
Carries(R, P, x, K, id, m, d) == R.call # "disc" =>
  /\ \A i \in K : x[i] \in DataOf(R.txSeq) =>
       x[i].body = Piece(id, m, R.part) /\ (x[i].eof <=> (R.part = ChunksPerMessage))
  /\ P.partial = IF Taken(R, P) = ChunksPerMessage THEN << >> ELSE Pieces(id, m, Taken(R, P))
  /\ Taken(R, P) = ChunksPerMessage => Has(d, id, m)
  /\ \A i \in DOMAIN d : d[i].session = id =>
       \/ d[i].chunks[1].msg < m
       \/ d[i].chunks[1].msg = m /\ Taken(R, P) = ChunksPerMessage

LEMMA PiecesFacts ==
  ASSUME NEW id, NEW m
  PROVE  /\ Pieces(id, m, 0) = << >>
         /\ \A n \in Nat \ {0} :
              Append(Pieces(id, m, n - 1), Piece(id, m, n)) = Pieces(id, m, n)
         /\ WholeMessage(id, m) = Pieces(id, m, ChunksPerMessage)
         /\ WholeMessage(id, m)[1].msg = m
<1>1. Pieces(id, m, 0) = << >> BY DEF Pieces
<1>2. ASSUME NEW n \in Nat \ {0}
      PROVE  Append(Pieces(id, m, n - 1), Piece(id, m, n)) = Pieces(id, m, n)
  <2> DEFINE S == {Piece(id, m, k) : k \in 1..n}
             p == Pieces(id, m, n - 1)
             w == Pieces(id, m, n)
             f == Piece(id, m, n)
  <2>1. n \in Nat /\ n - 1 \in Nat OBVIOUS
  <2>2. p \in [1..(n - 1) -> S] /\ w \in [1..n -> S] /\ f \in S BY <2>1 DEF Pieces
  <2>3. /\ p \in Seq(S) /\ w \in Seq(S) /\ Len(p) = n - 1 /\ Len(w) = n
        /\ \A k \in 1..(n - 1) : p[k] = w[k]
        /\ w[n] = f
    <3>1. \A k \in 1..(n - 1) : p[k] = w[k] BY <2>1 DEF Pieces
    <3>2. w[n] = f BY <2>1 DEF Pieces
    <3> HIDE DEF S, p, w, f
    <3> QED BY <2>1, <2>2, <3>1, <3>2
  <2> HIDE DEF S, p, w, f
  <2>4. /\ Append(p, f) \in Seq(S) /\ Len(Append(p, f)) = n
        /\ \A k \in 1..n : Append(p, f)[k] = w[k]
    BY <2>1, <2>2, <2>3
  <2>5. Append(p, f) = w BY <2>3, <2>4, SeqEqual
  <2> QED BY <2>5 DEF p, f, w
<1>3. WholeMessage(id, m) = Pieces(id, m, ChunksPerMessage)
  BY DEF WholeMessage, Pieces, Piece
<1>4. WholeMessage(id, m)[1].msg = m
  <2>1. 1 \in 1..ChunksPerMessage BY ConstantFacts
  <2> QED BY <2>1 DEF WholeMessage
<1> QED BY <1>1, <1>2, <1>3, <1>4

LEMMA ReadsEvolved ==
  ASSUME NEW R, NEW q, NEW J, NEW id, NEW d, Reads(R, q, J, id, d),
         NEW R2, NEW q2, NEW J2, NEW F, Evolved(q, J, q2, J2, F), F \cap AnyData = {},
         R2.expect = R.expect, R2.partial = R.partial
  PROVE  Reads(R2, q2, J2, id, d)
<1> DEFINE D == DataOf(R.expect)
<1>1. D \subseteq AnyData BY KindsApart
<1>2. F \cap (AnyData \ D) = {} OBVIOUS
<1>3. Never(q, J, D, AnyData \ D) BY DEF Reads
<1>4. Never(q2, J2, D, AnyData \ D) BY <1>2, <1>3, EvolvedNever
<1>5. \A j \in J2 : q2[j] \in D => \E i \in J : q2[j] = q[i] BY <1>1 DEF Evolved
<1> QED BY <1>4, <1>5 DEF Reads

LEMMA LearnsEvolved ==
  ASSUME NEW R, NEW q, NEW J, NEW id, NEW m, NEW d, Learns(R, q, J, id, m, d),
         NEW R2, NEW q2, NEW J2, NEW F, Evolved(q, J, q2, J2, F), F \cap AnyAck = {},
         R2.txSeq = R.txSeq,
         \/ R2.part = R.part /\ (R2.call = "send" => R.call = "send")
            /\ (R.call \in {"send", "disc"} => R2.call \in {"send", "disc"})
         \/ R.call \notin {"send", "disc"}
  PROVE  Learns(R2, q2, J2, id, m, d)
<1> DEFINE A == AckOf(R.txSeq)
<1>1. A \subseteq AnyAck BY KindsApart
<1>2. F \cap (AnyAck \ A) = {} /\ F \cap A = {} BY <1>1
<1>3. Never(q, J, A, AnyAck \ A) BY DEF Learns
<1>4. Never(q2, J2, A, AnyAck \ A) BY <1>2, <1>3, EvolvedNever
<1>5. None(q, J, A) => None(q2, J2, A) BY <1>2, EvolvedNone
<1> QED BY <1>4, <1>5 DEF Learns

\* The chunk is taken: what may be left are copies of it.
LEMMA ReadsTaken ==
  ASSUME NEW R, NEW q, NEW J, NEW id, NEW d, Reads(R, q, J, id, d), R.expect \in SeqNo,
         NEW R2, NEW q2, NEW J2, NEW d2, Shifted(q, J, q2, J2), q[1] \in DataOf(R.expect),
         R2.expect = NextSeq(R.expect)
  PROVE  Reads(R2, q2, J2, id, d2)
<1> DEFINE D == DataOf(R.expect)
           E == DataOf(R2.expect)
<1>1. Never(q, J, D, AnyData \ D) BY DEF Reads
<1>2. None(q2, J2, AnyData \ D) BY <1>1, ShiftedNone
<1>3. E \subseteq AnyData \ D BY NextSeqFacts DEF DataOf
<1>4. None(q2, J2, E) BY <1>2, <1>3, NoneFewer
<1>5. Never(q2, J2, E, AnyData \ E) BY <1>4, NoneNever
<1> QED BY <1>4, <1>5 DEF Reads, None

LEMMA LearnsAdvanced ==
  ASSUME NEW R, NEW q, NEW J, NEW id, NEW m, NEW d, Learns(R, q, J, id, m, d),
         R.txSeq \in SeqNo,
         NEW R2, NEW q2, NEW J2, NEW m2, Shifted(q, J, q2, J2), q[1] \in AckOf(R.txSeq),
         R2.txSeq = NextSeq(R.txSeq)
  PROVE  Learns(R2, q2, J2, id, m2, d)
<1> DEFINE A == AckOf(R.txSeq)
           B == AckOf(R2.txSeq)
<1>1. Never(q, J, A, AnyAck \ A) BY DEF Learns
<1>2. None(q2, J2, AnyAck \ A) BY <1>1, ShiftedNone
<1>3. B \subseteq AnyAck \ A BY NextSeqFacts DEF AckOf
<1>4. None(q2, J2, B) BY <1>2, <1>3, NoneFewer
<1>5. Never(q2, J2, B, AnyAck \ B) BY <1>4, NoneNever
<1> QED BY <1>4, <1>5 DEF Learns

\* While the sender goes on, its receiver's chunks fit.
LEMMA CarriesReads ==
  ASSUME NEW R, NEW P, NEW q, NEW J, NEW x, NEW K, NEW id, NEW m, NEW d,
         Counters(R, P, q, J, x, K), Carries(R, P, x, K, id, m, d), R.call # "disc",
         R.txSeq \in SeqNo, R.call = "send" => R.part \in 1..ChunksPerMessage
  PROVE  Reads(P, x, K, id, d)
<1> DEFINE t == R.txSeq
           e == P.expect
<1>1. CASE e = t
  <2>1. Never(x, K, DataOf(e), AnyData \ DataOf(e)) BY <1>1 DEF Counters
  <2>2. ASSUME NEW i \in K, x[i] \in DataOf(e) PROVE Fits(x[i], P.partial, id, d)
    <3>1. R.call = "send" BY <1>1, <2>2 DEF Counters, None
    <3>2. /\ x[i].body = Piece(id, m, R.part)
          /\ (x[i].eof <=> (R.part = ChunksPerMessage))
      BY <1>1, <2>2 DEF Carries
    <3>3. Taken(R, P) = R.part - 1 /\ Taken(R, P) # ChunksPerMessage
      BY <1>1, <3>1, ConstantFacts DEF Taken
    <3>4. /\ P.partial = Pieces(id, m, R.part - 1)
          /\ \A k \in DOMAIN d : d[k].session = id => d[k].chunks[1].msg < m
      BY <3>3 DEF Carries
    <3> QED BY <3>2, <3>4 DEF Fits, Piece
  <2> QED BY <2>1, <2>2 DEF Reads
<1>2. CASE e # t
  <2>1. None(x, K, AnyData \ DataOf(t)) BY <1>2 DEF Counters
  <2>2. DataOf(e) \subseteq AnyData \ DataOf(t) BY <1>2 DEF DataOf
  <2>3. None(x, K, DataOf(e)) BY <2>1, <2>2, NoneFewer
  <2>4. Never(x, K, DataOf(e), AnyData \ DataOf(e)) BY <2>3, NoneNever
  <2> QED BY <2>3, <2>4 DEF Reads, None
<1> QED BY <1>1, <1>2

LEMMA CarriesLearns ==
  ASSUME NEW R, NEW P, NEW q, NEW J, NEW x, NEW K, NEW id, NEW m, NEW d,
         Counters(R, P, q, J, x, K), Carries(R, P, x, K, id, m, d)
  PROVE  Learns(R, q, J, id, m, d)
<1> DEFINE A == AckOf(R.txSeq)
<1>1. R.call \notin {"send", "disc"} => None(q, J, A) BY DEF Counters
<1>2. Never(q, J, A, AnyAck \ A) BY DEF Counters
<1>3. ASSUME R.call = "send", R.part = ChunksPerMessage, ~None(q, J, A)
      PROVE  Has(d, id, m)
  <2>1. P.expect # R.txSeq BY <1>3 DEF Counters
  <2>2. Taken(R, P) = ChunksPerMessage BY <1>3, <2>1 DEF Taken
  <2> QED BY <1>3, <2>2 DEF Carries
<1> QED BY <1>1, <1>2, <1>3 DEF Learns

\* Nothing of the session has been said yet.
LEMMA CarriesStart ==
  ASSUME NEW R, NEW P, NEW x, NEW K, NEW id, NEW m, NEW d,
         R.call # "send", P.partial = << >>, None(x, K, AnyData),
         \A i \in DOMAIN d : d[i].session # id
  PROVE  Carries(R, P, x, K, id, m, d)
<1>1. Taken(R, P) = 0 /\ ChunksPerMessage # 0 BY ConstantFacts DEF Taken
<1>2. P.partial = Pieces(id, m, 0) BY PiecesFacts
<1>3. None(x, K, DataOf(R.txSeq)) BY KindsApart, NoneFewer
<1> QED BY <1>1, <1>2, <1>3 DEF Carries, None

\* No chunk is keyed or taken.
LEMMA CarriesCalm ==
  ASSUME NEW R, NEW P, NEW x, NEW K, NEW id, NEW m, NEW d, Carries(R, P, x, K, id, m, d),
         NEW R2, NEW P2, NEW x2, NEW K2, NEW G, Evolved(x, K, x2, K2, G), G \cap AnyData = {},
         R.call = "disc" => R2.call = "disc",
         R2.call # "disc" =>
           /\ (R2.call = "send") <=> (R.call = "send")
           /\ R2.txSeq = R.txSeq
           /\ \/ R2.part = R.part
              \/ R.call # "send" /\ None(x, K, DataOf(R.txSeq)),
         P2.expect = P.expect, P2.partial = P.partial
  PROVE  Carries(R2, P2, x2, K2, id, m, d)
<1>1. CASE R2.call = "disc" BY <1>1 DEF Carries
<1>2. CASE R2.call # "disc"
  <2>1. Taken(R2, P2) = Taken(R, P) BY <1>2 DEF Taken
  <2>2. DataOf(R.txSeq) \subseteq AnyData BY KindsApart
  <2>3. \A j \in K2 : x2[j] \in DataOf(R.txSeq) => \E i \in K : x2[j] = x[i]
    BY <2>2 DEF Evolved
  <2>4. \A j \in K2 : x2[j] \in DataOf(R.txSeq) => R2.part = R.part BY <1>2, <2>3 DEF None
  <2> QED BY <1>2, <2>1, <2>3, <2>4 DEF Carries
<1> QED BY <1>1, <1>2

\* R keys the chunk in hand, for the first time or again.
LEMMA CarriesSends ==
  ASSUME NEW R, NEW P, NEW q, NEW J, NEW x, NEW K, NEW id, NEW m, NEW d,
         Carries(R, P, x, K, id, m, d), Counters(R, P, q, J, x, K),
         R.call \in {"poll", "floor", "send"},
         NEW R2, NEW x2, NEW K2, NEW G, Evolved(x, K, x2, K2, G),
         \A f \in G : f.body = Piece(id, m, R2.part) /\ (f.eof <=> (R2.part = ChunksPerMessage)),
         R2.call = "send", R2.txSeq = R.txSeq,
         IF R.call = "send" THEN R2.part = R.part ELSE R2.part = 1
  PROVE  Carries(R2, P, x2, K2, id, m, d)
<1> DEFINE t == R.txSeq
<1>1. Taken(R2, P) = Taken(R, P)
  <2>1. CASE R.call = "send" BY <2>1 DEF Taken
  <2>2. CASE R.call # "send"
    <3>1. P.expect = t BY <2>2 DEF Counters
    <3> QED BY <2>2, <3>1 DEF Taken
  <2> QED BY <2>1, <2>2
<1>2. ASSUME NEW j \in K2, x2[j] \in DataOf(t)
      PROVE  /\ x2[j].body = Piece(id, m, R2.part)
             /\ x2[j].eof <=> (R2.part = ChunksPerMessage)
  <2>1. x2[j] \in G \/ \E i \in K : x2[j] = x[i] BY DEF Evolved
  <2>2. CASE x2[j] \in G BY <2>2
  <2>3. CASE \E i \in K : x2[j] = x[i]
    <3>1. R.call = "send" BY <1>2, <2>3 DEF Counters, None
    <3> QED BY <1>2, <2>3, <3>1 DEF Carries
  <2> QED BY <2>1, <2>2, <2>3
<1>3. R.call # "disc" OBVIOUS
<1> QED BY <1>1, <1>2, <1>3 DEF Carries

\* What an acknowledgement of the chunk in hand says.
LEMMA AckedFacts ==
  ASSUME NEW R, NEW P, NEW q, NEW J, NEW x, NEW K, Counters(R, P, q, J, x, K),
         R.txSeq \in SeqNo, R.call = "send", 1 \in J, q[1] \in AckOf(R.txSeq)
  PROVE  /\ P.expect = NextSeq(R.txSeq) /\ Taken(R, P) = R.part
         /\ None(x, K, DataOf(NextSeq(R.txSeq)))
<1> DEFINE t == R.txSeq
           u == NextSeq(t)
<1>1. u # t BY NextSeqFacts
<1>2. ~None(q, J, AckOf(t)) BY DEF None
<1>3. P.expect = u BY <1>2 DEF Counters
<1>4. None(x, K, AnyData \ DataOf(t)) BY <1>1, <1>3 DEF Counters
<1>5. DataOf(u) \subseteq AnyData \ DataOf(t) BY <1>1 DEF DataOf
<1>6. None(x, K, DataOf(u)) BY <1>4, <1>5, NoneFewer
<1>7. Taken(R, P) = R.part BY <1>1, <1>3 DEF Taken
<1> QED BY <1>3, <1>6, <1>7

\* R keys the next chunk.
LEMMA CarriesNext ==
  ASSUME NEW R, NEW P, NEW q, NEW J, NEW x, NEW K, NEW id, NEW m, NEW d,
         Carries(R, P, x, K, id, m, d), Counters(R, P, q, J, x, K),
         R.txSeq \in SeqNo, R.call = "send", R.part \in Nat, R.part < ChunksPerMessage,
         1 \in J, q[1] \in AckOf(R.txSeq),
         NEW R2, NEW x2, NEW K2, NEW G, Evolved(x, K, x2, K2, G),
         \A f \in G : f.body = Piece(id, m, R2.part) /\ (f.eof <=> (R2.part = ChunksPerMessage)),
         R2.call = "send", R2.txSeq = NextSeq(R.txSeq), R2.part = R.part + 1
  PROVE  Carries(R2, P, x2, K2, id, m, d)
<1> DEFINE u == NextSeq(R.txSeq)
<1>1. P.expect = u /\ Taken(R, P) = R.part /\ None(x, K, DataOf(u)) BY AckedFacts
<1>2. Taken(R2, P) = Taken(R, P) BY <1>1 DEF Taken
<1>3. ASSUME NEW j \in K2, x2[j] \in DataOf(u) PROVE x2[j] \in G
  BY <1>1, <1>3 DEF Evolved, None
<1> HIDE DEF u
<1>4. R2.txSeq = u BY DEF u
<1> QED BY <1>2, <1>3, <1>4 DEF Carries

\* The last chunk is acknowledged: the next message is in hand.
LEMMA CarriesReturns ==
  ASSUME NEW R, NEW P, NEW q, NEW J, NEW x, NEW K, NEW id, NEW m \in Nat, NEW d,
         Carries(R, P, x, K, id, m, d), Counters(R, P, q, J, x, K),
         R.txSeq \in SeqNo, R.call = "send", R.part = ChunksPerMessage,
         1 \in J, q[1] \in AckOf(R.txSeq), \A i \in DOMAIN d : d[i].chunks[1].msg \in Nat,
         NEW R2, NEW x2, NEW K2, Evolved(x, K, x2, K2, {}),
         R2.call = "poll", R2.txSeq = NextSeq(R.txSeq)
  PROVE  Carries(R2, P, x2, K2, id, m + 1, d)
<1> DEFINE u == NextSeq(R.txSeq)
<1>1. P.expect = u /\ Taken(R, P) = ChunksPerMessage /\ None(x, K, DataOf(u))
  BY AckedFacts
<1>2. Taken(R2, P) = 0 /\ ChunksPerMessage # 0 BY ConstantFacts DEF Taken
<1>3. None(x2, K2, DataOf(u)) BY <1>1, EvolvedNone
<1>4. P.partial = Pieces(id, m + 1, 0) BY <1>1, PiecesFacts DEF Carries
<1>5. \A i \in DOMAIN d : d[i].session = id => d[i].chunks[1].msg < m + 1
  <2>1. \A i \in DOMAIN d : d[i].session = id => \/ d[i].chunks[1].msg < m
                                                 \/ d[i].chunks[1].msg = m
    BY DEF Carries
  <2> QED BY <2>1
<1> QED BY <1>2, <1>3, <1>4, <1>5 DEF Carries, None

\* What a receiver holds and its application keeps once chunk f, the one it
\* expects, is taken.
Joint(f, partial) == IF f.eof THEN << >> ELSE Append(partial, f.body)

Given(f, partial, id, d) ==
  IF f.eof THEN Append(d, [session |-> id, chunks |-> Append(partial, f.body)]) ELSE d

\* A chunk that fits makes the message it is the last of whole.
LEMMA GivenWhole ==
  ASSUME NEW f \in AnyData, NEW partial, NEW id, NEW d, Fits(f, partial, id, d)
  PROVE  /\ f.body = Piece(id, f.body.msg, f.body.part)
         /\ f.body.part \in 1..ChunksPerMessage /\ f.body.msg \in 1..MaxMessages
         /\ Append(partial, f.body) = Pieces(id, f.body.msg, f.body.part)
         /\ f.eof => Append(partial, f.body) = WholeMessage(id, f.body.msg)
<1>1. f.body \in Body BY DataFields DEF AnyData
<1>2. f.body.part \in 1..ChunksPerMessage /\ f.body.msg \in 1..MaxMessages
  BY <1>1 DEF Body
<1>3. f.body = Piece(id, f.body.msg, f.body.part) BY <1>1 DEF Body, Piece, Fits
<1>4. f.body.part \in Nat \ {0} BY <1>2, ConstantFacts
<1> DEFINE k == f.body.part
           m == f.body.msg
<1>5. partial = Pieces(id, m, k - 1) BY DEF Fits
<1>6. f.body = Piece(id, m, k) /\ k \in Nat \ {0} BY <1>3, <1>4
<1>7. f.eof => k = ChunksPerMessage BY DEF Fits
<1> HIDE DEF k, m
<1>8. Append(partial, f.body) = Pieces(id, m, k) BY <1>5, <1>6, PiecesFacts
<1>9. f.eof => Append(partial, f.body) = WholeMessage(id, m)
  BY <1>7, <1>8, PiecesFacts
<1> QED BY <1>2, <1>3, <1>8, <1>9 DEF k, m

\* A whole message bears its number on its first chunk.
LEMMA WholeNumber ==
  ASSUME NEW id, NEW m
  PROVE  WholeMessage(id, m)[1].msg = m
BY PiecesFacts

\* Messages, each whole, and those of a session in their order.
Intact(d) ==
  /\ \A i \in DOMAIN d : \E m \in 1..MaxMessages :
       d[i].chunks = WholeMessage(d[i].session, m)
  /\ \A i, j \in DOMAIN d :
       (i < j /\ d[i].session = d[j].session) => d[i].chunks[1].msg < d[j].chunks[1].msg

LEMMA IntactNumbers ==
  ASSUME NEW d, Intact(d)
  PROVE  \A i \in DOMAIN d : d[i].chunks[1].msg \in Nat
<1> SUFFICES ASSUME NEW i \in DOMAIN d PROVE d[i].chunks[1].msg \in Nat OBVIOUS
<1>1. PICK m \in 1..MaxMessages : d[i].chunks = WholeMessage(d[i].session, m) BY DEF Intact
<1>2. WholeMessage(d[i].session, m)[1].msg = m BY WholeNumber
<1>3. d[i].chunks[1].msg = m BY <1>1, <1>2
<1> QED BY <1>3, ConstantFacts

LEMMA AppendFacts ==
  ASSUME NEW T, NEW d \in Seq(T), NEW g \in T
  PROVE  /\ DOMAIN Append(d, g) = DOMAIN d \cup {Len(d) + 1}
         /\ \A i \in DOMAIN d : i \in Nat /\ i < Len(d) + 1 /\ Append(d, g)[i] = d[i]
         /\ Append(d, g)[Len(d) + 1] = g /\ Len(d) \in Nat
<1>1. /\ Append(d, g) \in Seq(T) /\ Len(Append(d, g)) = Len(d) + 1
      /\ \A i \in 1..Len(d) : Append(d, g)[i] = d[i]
      /\ Append(d, g)[Len(d) + 1] = g /\ Len(d) \in Nat /\ DOMAIN d = 1..Len(d)
  OBVIOUS
<1>2. DOMAIN Append(d, g) = 1..(Len(d) + 1) BY <1>1
<1>3. 1..(Len(d) + 1) = 1..Len(d) \cup {Len(d) + 1} BY <1>1
<1>4. \A i \in 1..Len(d) : i \in Nat /\ i < Len(d) + 1 BY <1>1
<1> QED BY <1>1, <1>2, <1>3, <1>4

LEMMA IntactGiven ==
  ASSUME NEW f \in AnyData, NEW partial, NEW id, NEW T, NEW d \in Seq(T), Intact(d),
         Fits(f, partial, id, d), [session |-> id, chunks |-> Append(partial, f.body)] \in T
  PROVE  Intact(Given(f, partial, id, d))
<1>1. CASE ~f.eof BY <1>1 DEF Given
<1>2. CASE f.eof
  <2> DEFINE g == [session |-> id, chunks |-> Append(partial, f.body)]
             m == f.body.msg
             e == Append(d, g)
             n == Len(d) + 1
  <2>0. Append(partial, f.body) = WholeMessage(id, m) /\ m \in 1..MaxMessages
    BY <1>2, GivenWhole
  <2>1. /\ g.session = id /\ g.chunks = WholeMessage(id, m) /\ m \in 1..MaxMessages
        /\ g.chunks[1].msg = m
    <3>1. WholeMessage(id, m)[1].msg = m BY PiecesFacts
    <3>2. g.session = id /\ g.chunks = WholeMessage(id, m) BY <2>0
    <3> QED BY <2>0, <3>1, <3>2
  <2>2. \A i \in DOMAIN d : d[i].session = id => d[i].chunks[1].msg < m BY DEF Fits
  <2>3. Given(f, partial, id, d) = e BY <1>2 DEF Given
  <2>4. g \in T OBVIOUS
  <2> HIDE DEF g, m
  <2>5. /\ DOMAIN e = DOMAIN d \cup {n}
        /\ \A i \in DOMAIN d : i \in Nat /\ i < n /\ e[i] = d[i]
        /\ e[n] = g /\ n \in Nat
    BY <2>4, AppendFacts
  <2> HIDE DEF e, n
  <2>6. \A i \in DOMAIN e : \E k \in 1..MaxMessages :
          e[i].chunks = WholeMessage(e[i].session, k)
    BY <2>1, <2>5 DEF Intact
  <2>7. ASSUME NEW i \in DOMAIN e, NEW j \in DOMAIN e, i < j, e[i].session = e[j].session
        PROVE  e[i].chunks[1].msg < e[j].chunks[1].msg
    <3>1. i \in DOMAIN d BY <2>5, <2>7
    <3>2. CASE j \in DOMAIN d BY <2>5, <2>7, <3>1, <3>2 DEF Intact
    <3>3. CASE j = n BY <2>1, <2>2, <2>5, <2>7, <3>1, <3>3
    <3> QED BY <2>5, <3>2, <3>3
  <2>8. Intact(e) BY <2>6, <2>7 DEF Intact
  <2> QED BY <2>3, <2>8
<1> QED BY <1>1, <1>2

\* P takes the chunk R has in hand.
LEMMA CarriesTaken ==
  ASSUME NEW R, NEW P, NEW q, NEW J, NEW x, NEW K, NEW id, NEW m \in Nat, NEW T,
         NEW d \in Seq(T),
         Carries(R, P, x, K, id, m, d), Counters(R, P, q, J, x, K),
         R.txSeq \in SeqNo, P.expect \in SeqNo, R.call = "send" => R.part \in 1..ChunksPerMessage,
         NEW P2, NEW x2, NEW K2, Shifted(x, K, x2, K2), x[1] \in DataOf(P.expect),
         [session |-> id, chunks |-> Append(P.partial, x[1].body)] \in T,
         P2.expect = NextSeq(P.expect), P2.partial = Joint(x[1], P.partial)
  PROVE  Carries(R, P2, x2, K2, id, m, Given(x[1], P.partial, id, d))
<1> SUFFICES ASSUME R.call # "disc"
             PROVE  Carries(R, P2, x2, K2, id, m, Given(x[1], P.partial, id, d))
  BY DEF Carries
<1> DEFINE t == R.txSeq
           f == x[1]
           n == R.part
           g == [session |-> id, chunks |-> Append(P.partial, f.body)]
           e == Given(f, P.partial, id, d)
<1>0. NextSeq(t) # t BY NextSeqFacts
<1>1. 1 \in K /\ f \in AnyData /\ f.seq = P.expect BY DEF Shifted, DataOf
<1>2. P.expect = t
  <2>1. P.expect # t => f \in DataOf(t) BY <1>1 DEF Counters, None
  <2> QED BY <1>1, <2>1 DEF DataOf
<1>3. R.call = "send" /\ n \in 1..ChunksPerMessage
  <2>1. ~None(x, K, DataOf(t)) BY <1>1, <1>2 DEF None
  <2> QED BY <2>1 DEF Counters
<1>4. n \in Nat \ {0} /\ ChunksPerMessage \in Nat BY <1>3, ConstantFacts
<1>5. Taken(R, P) = n - 1 /\ Taken(R, P2) = n /\ n - 1 # ChunksPerMessage
  BY <1>0, <1>2, <1>3, <1>4 DEF Taken
<1>6. f.body = Piece(id, m, n) /\ (f.eof <=> (n = ChunksPerMessage))
  BY <1>1, <1>2 DEF Carries
<1>7. P.partial = Pieces(id, m, n - 1) BY <1>5 DEF Carries
<1>8. \A i \in DOMAIN d : d[i].session = id => d[i].chunks[1].msg < m
  BY <1>5 DEF Carries
<1>9. Append(P.partial, f.body) = Pieces(id, m, n)
  <2> HIDE DEF n, f
  <2>1. Append(Pieces(id, m, n - 1), Piece(id, m, n)) = Pieces(id, m, n)
    BY <1>4, PiecesFacts
  <2>2. f.body = Piece(id, m, n) BY <1>6
  <2> QED BY <1>7, <2>1, <2>2, Zenon
<1>10. ASSUME NEW j \in K2, x2[j] \in DataOf(t)
       PROVE  x2[j].body = Piece(id, m, n) /\ (x2[j].eof <=> (n = ChunksPerMessage))
  BY <1>10 DEF Shifted, Carries
<1>11. CASE n # ChunksPerMessage
  <2>1. e = d /\ P2.partial = Pieces(id, m, n) BY <1>6, <1>9, <1>11 DEF Given, Joint
  <2> HIDE DEF e
  <2> QED BY <1>5, <1>8, <1>10, <1>11, <2>1 DEF Carries, e
<1>12. CASE n = ChunksPerMessage
  <2>1. e = Append(d, g) /\ P2.partial = << >> BY <1>6, <1>12 DEF Given, Joint
  <2>2. g = [session |-> id, chunks |-> WholeMessage(id, m)]
    BY <1>9, <1>12, PiecesFacts
  <2>3. g \in T /\ g.session = id /\ g.chunks[1].msg = m
    <3>1. WholeMessage(id, m)[1].msg = m BY WholeNumber
    <3>2. g \in T OBVIOUS
    <3> HIDE DEF g
    <3> QED BY <2>2, <3>1, <3>2
  <2> HIDE DEF e, g
  <2>4. /\ DOMAIN e = DOMAIN d \cup {Len(d) + 1} /\ e[Len(d) + 1] = g
        /\ \A i \in DOMAIN d : e[i] = d[i]
    BY <2>1, <2>3, AppendFacts
  <2>5. Has(e, id, m) BY <2>2, <2>4 DEF Has
  <2>6. \A i \in DOMAIN e : e[i].session = id => \/ e[i].chunks[1].msg < m
                                                 \/ e[i].chunks[1].msg = m
    BY <1>8, <2>3, <2>4
  <2> QED BY <1>5, <1>10, <1>12, <2>1, <2>5, <2>6 DEF Carries, e
<1> QED BY <1>11, <1>12

----------------------------------------------------------------------------
(* A step of a station that stays in its session, as far as chunks go *)

\* Nothing.
Passes(s) == \E G :
  /\ Moves(s, G) /\ G \cap AnyData = {} /\ G \cap AnyAck = {}
  /\ UNCHANGED <<delivered, returned>>
  /\ stn'[s].txSeq = stn[s].txSeq /\ stn'[s].expect = stn[s].expect
  /\ stn'[s].partial = stn[s].partial /\ stn'[s].part = stn[s].part
  /\ \/ stn'[s].call \in {stn[s].call, "disc"}
     \/ stn[s].call \in {"poll", "floor"} /\ stn'[s].call \in {"poll", "floor"}

\* It keys the chunk in hand, for the first time or again.
KeysChunk(s) == \E G :
  /\ Moves(s, G) /\ G \subseteq {DataFrame(s, stn'[s])}
  /\ UNCHANGED <<delivered, returned>>
  /\ stn'[s].txSeq = stn[s].txSeq /\ stn'[s].expect = stn[s].expect
  /\ stn'[s].partial = stn[s].partial
  /\ stn[s].call \in {"poll", "floor", "send"} /\ stn'[s].call = "send"
  /\ IF stn[s].call = "send" THEN stn'[s].part = stn[s].part ELSE stn'[s].part = 1

\* It takes the acknowledgement of the chunk in hand.
Acked(s) == \E G :
  /\ Moves(s, G) /\ UNCHANGED delivered
  /\ inbox[s] # << >> /\ Head(inbox[s]) \in AckOf(stn[s].txSeq)
  /\ inbox'[s] = Tail(inbox[s])
  /\ stn'[s].txSeq = NextSeq(stn[s].txSeq) /\ stn'[s].expect = stn[s].expect
  /\ stn'[s].partial = stn[s].partial /\ stn[s].call = "send"
  /\ \/ /\ stn[s].part < ChunksPerMessage /\ stn'[s].part = stn[s].part + 1
        /\ stn'[s].call = "send" /\ G \subseteq {DataFrame(s, stn'[s])}
        /\ UNCHANGED returned
     \/ /\ stn[s].part = ChunksPerMessage /\ stn'[s].call = "poll" /\ G = {}
        /\ returned' = [returned EXCEPT ![s] = Append(@, stn[s].session)]

\* It takes a chunk, or a copy of one.
Takes(s) == LET f == Head(inbox[s]) IN \E G :
  /\ Moves(s, G) /\ G \cap AnyData = {} /\ UNCHANGED returned
  /\ inbox[s] # << >> /\ f \in AnyData /\ inbox'[s] = Tail(inbox[s])
  /\ stn[s].call \in {"poll", "floor"} /\ stn'[s].call = stn[s].call
  /\ stn'[s].txSeq = stn[s].txSeq /\ stn'[s].part = stn[s].part
  /\ IF f.seq = stn[s].expect
     THEN /\ stn'[s].expect = NextSeq(stn[s].expect)
          /\ stn'[s].partial = Joint(f, stn[s].partial)
          /\ delivered' = [delivered EXCEPT
                             ![s] = Given(f, stn[s].partial, stn[s].session, @)]
     ELSE /\ stn'[s].expect = stn[s].expect /\ stn'[s].partial = stn[s].partial
          /\ UNCHANGED delivered

LEMMA TakesChunkTakes ==
  ASSUME BaseInv, NEW s \in Stations, TakesChunk(s), UNCHANGED returned
  PROVE  Takes(s)
<1> DEFINE r == stn[s]
           f == Head(inbox[s])
           R == Received(r, f)
           F == {DataAck(r, f), Control("FLOOR_REQ")}
<1>0. r \in StationState BY StationFacts
<1>1. /\ f \in Frame /\ f.type = "DATA" /\ inbox[s] # << >> /\ inbox'[s] = Tail(inbox[s])
      /\ r.call \in {"poll", "floor"}
  BY HeadFacts DEF TakesChunk, Heads
<1>2. f \in AnyData BY <1>1 DEF AnyData
<1>3. R \in StationState /\ DataAck(r, f) \in Frame BY <1>0, <1>1, ReceivedTyped
<1>4. Moves(s, F) /\ F \cap AnyData = {}
  <2>1. DataAck(r, f).type # "DATA" /\ Control("FLOOR_REQ").type # "DATA"
    BY DEF DataAck, Control
  <2>2. F \in SUBSET Frame BY <1>3, ControlTyped
  <2>3. F \cap AnyData = {} BY <2>1 DEF AnyData
  <2> HIDE DEF R
  <2>4. Moves(s, F) BY <2>2, MovesMore DEF TakesChunk
  <2> QED BY <2>3, <2>4
<1>5. /\ R.call = r.call /\ R.txSeq = r.txSeq /\ R.part = r.part
      /\ R.expect = IF f.seq = r.expect THEN NextSeq(r.expect) ELSE r.expect
      /\ R.partial = IF f.seq = r.expect THEN Joint(f, r.partial) ELSE r.partial
  <2>1. CASE f.seq = r.expect
    BY <1>0, <2>1 DEF Received, StationState, Joint
  <2>2. CASE f.seq # r.expect BY <2>2 DEF Received
  <2> QED BY <2>1, <2>2
<1>6. /\ stn'[s].call = r.call /\ stn'[s].txSeq = r.txSeq /\ stn'[s].part = r.part
      /\ stn'[s].expect = R.expect /\ stn'[s].partial = R.partial
  <2> HIDE DEF R
  <2>1. CASE stn'[s] = R BY <1>5, <2>1
  <2>2. CASE r.call = "floor" /\ stn'[s] = Requesting(R, 0)
    BY <1>3, <1>5, <2>2 DEF Requesting, StationState
  <2> QED BY <2>1, <2>2 DEF TakesChunk, R
<1>7. IF f.seq = r.expect
      THEN delivered' = [delivered EXCEPT ![s] = Given(f, r.partial, r.session, @)]
      ELSE delivered' = delivered
  <2>1. Deliver(s, f) BY DEF TakesChunk
  <2>2. CASE f.seq = r.expect /\ f.eof
    <3>1. Given(f, r.partial, r.session, delivered[s])
            = Append(delivered[s], [session |-> r.session, chunks |-> Append(r.partial, f.body)])
      BY <2>2 DEF Given
    <3> QED BY <2>1, <2>2, <3>1 DEF Deliver
  <2>3. CASE f.seq = r.expect /\ ~f.eof
    <3>1. Given(f, r.partial, r.session, delivered[s]) = delivered[s]
      BY <2>3 DEF Given
    <3>2. delivered' = delivered BY <2>1, <2>3 DEF Deliver
    <3>3. delivered = [delivered EXCEPT ![s] = delivered[s]]
      <4>1. \E D : delivered \in [Stations -> D] BY BookFacts DEF Booked
      <4> QED BY <4>1
    <3> QED BY <2>3, <3>1, <3>2, <3>3
  <2>4. CASE f.seq # r.expect BY <2>1, <2>4 DEF Deliver
  <2> QED BY <2>2, <2>3, <2>4
<1> HIDE DEF F, R
<1> QED BY <1>1, <1>2, <1>4, <1>5, <1>6, <1>7 DEF Takes

LEMMA SessionSteps ==
  ASSUME BaseInv, NEW s \in Stations, Outcome(s), InSession(s),
         stn'[s].session = stn[s].session
  PROVE  Passes(s) \/ KeysChunk(s) \/ Acked(s) \/ Takes(s)
<1> DEFINE r == stn[s]
           n == Len(returned[s])
<1>0. /\ r \in StationState /\ WellFormed(r, n) /\ r.state = "CONNECTED"
      /\ r.session # NoSession /\ r.session <= sessions
      /\ r.session \in Nat /\ sessions \in Nat
  <2>1. r.state = "CONNECTED" BY DEF InSession
  <2> QED BY <2>1, StationFacts, ConstantFacts DEF WellFormed
<1>1. r.call \in {"poll", "floor", "send", "disc"}
  BY <1>0, StationFacts, CallsAre DEF WellFormed
<1>2. ~Opens(s)
  <2>1. Opens(s) => stn'[s].session = sessions + 1 BY <1>0 DEF Opens, StationState
  <2> QED BY <1>0, <2>1
<1>3. ~(IsClosed(s) \/ Restarts(s))
  <2>1. IsClosed(s) => stn'[s].session = NoSession
    BY <1>0 DEF IsClosed, Closed, StationState
  <2>2. Restarts(s) => stn'[s].session = NoSession BY DEF Restarts, Fresh
  <2> QED BY <1>0, <2>1, <2>2
<1>4. ~(CallsAgain(s) \/ GivesUp(s) \/ Joins(s) \/ Listens(s) \/ StopsListening(s)
        \/ Answers(s) \/ GoesIdle(s))
  BY <1>0, <1>1
     DEF CallsAgain, GivesUp, Joins, Listens, StopsListening, Answers, GoesIdle
<1>5. ASSUME NEW f, Moves(s, {f}), f.type \notin {"DATA", "DATA_ACK"},
             UNCHANGED <<delivered, returned>>,
             stn'[s].txSeq = r.txSeq, stn'[s].expect = r.expect,
             stn'[s].partial = r.partial, stn'[s].part = r.part,
             \/ stn'[s].call \in {r.call, "disc"}
             \/ r.call \in {"poll", "floor"} /\ stn'[s].call \in {"poll", "floor"}
      PROVE  Passes(s)
  <2>1. {f} \cap AnyData = {} /\ {f} \cap AnyAck = {} BY <1>5 DEF AnyData, AnyAck
  <2> QED BY <1>5, <2>1 DEF Passes
<1>6. CASE TakesChunk(s) /\ UNCHANGED <<sessions, returned>> BY <1>6, TakesChunkTakes
<1>7. CASE Returns(s) /\ UNCHANGED <<sessions, delivered>>
  <2>1. /\ Moves(s, {}) /\ inbox[s] # << >> /\ Head(inbox[s]).type = "DATA_ACK"
        /\ Head(inbox[s]) \in Frame /\ Head(inbox[s]).answered = r.txSeq
        /\ inbox'[s] = Tail(inbox[s])
        /\ r.call = "send" /\ r.part = ChunksPerMessage
        /\ returned' = [returned EXCEPT ![s] = Append(@, r.session)]
    BY <1>7, HeadFacts DEF Returns, Heads, Accepts
  <2>2. Head(inbox[s]) \in AckOf(r.txSeq) BY <2>1 DEF AckOf, AnyAck
  <2>3. /\ stn'[s].txSeq = NextSeq(r.txSeq) /\ stn'[s].expect = r.expect
        /\ stn'[s].partial = r.partial /\ stn'[s].call = "poll"
    BY <1>0, <1>7 DEF Returns, Advanced, StationState
  <2> QED BY <1>7, <2>1, <2>2, <2>3 DEF Acked
<1>8. CASE SendsNext(s) /\ UNCHANGED <<delivered, returned>>
  <2>1. /\ Moves(s, {DataFrame(s, stn'[s])})
        /\ inbox[s] # << >> /\ Head(inbox[s]).type = "DATA_ACK"
        /\ Head(inbox[s]) \in Frame /\ Head(inbox[s]).answered = r.txSeq
        /\ inbox'[s] = Tail(inbox[s])
        /\ r.call = "send" /\ r.part < ChunksPerMessage
    BY <1>8, HeadFacts DEF SendsNext, Heads, Accepts
  <2>2. Head(inbox[s]) \in AckOf(r.txSeq) BY <2>1 DEF AckOf, AnyAck
  <2>3. /\ stn'[s].txSeq = NextSeq(r.txSeq) /\ stn'[s].expect = r.expect
        /\ stn'[s].partial = r.partial /\ stn'[s].call = "send"
        /\ stn'[s].part = r.part + 1
    BY <1>0, <1>8 DEF SendsNext, Sending, Advanced, StationState
  <2> QED BY <1>8, <2>1, <2>2, <2>3 DEF Acked
<1>9. CASE (StartsSending(s) \/ TakesGrant(s)) /\ UNCHANGED <<delivered, returned>>
  <2>1. Moves(s, {DataFrame(s, stn'[s])}) /\ r.call \in {"poll", "floor"}
    BY <1>9 DEF StartsSending, TakesGrant
  <2>2. /\ stn'[s].txSeq = r.txSeq /\ stn'[s].expect = r.expect
        /\ stn'[s].partial = r.partial /\ stn'[s].call = "send" /\ stn'[s].part = 1
    BY <1>0, <1>9 DEF StartsSending, TakesGrant, Sending, StationState
  <2> QED BY <1>9, <2>1, <2>2 DEF KeysChunk
<1>10. CASE SendsAgain(s) /\ UNCHANGED <<delivered, returned>>
  <2>1. Moves(s, {DataFrame(s, r)}) /\ r.call = "send" BY <1>10 DEF SendsAgain
  <2>2. /\ stn'[s].txSeq = r.txSeq /\ stn'[s].expect = r.expect
        /\ stn'[s].partial = r.partial /\ stn'[s].call = "send" /\ stn'[s].part = r.part
    BY <1>0, <1>10, <2>1 DEF SendsAgain, StationState
  <2>3. DataFrame(s, stn'[s]) = DataFrame(s, r) BY <2>2 DEF DataFrame
  <2> QED BY <1>10, <2>1, <2>2, <2>3 DEF KeysChunk
<1>11. CASE Drops(s) /\ UNCHANGED <<delivered, returned>>
  <2>1. Moves(s, {}) /\ stn'[s] = r BY <1>11 DEF Drops
  <2> QED BY <1>11, <2>1 DEF Passes
<1>12. CASE AnswersAgain(s) /\ UNCHANGED <<delivered, returned>>
  <2>1. Moves(s, {ConnectAck(r.ackBody)}) /\ stn'[s] = r BY <1>12 DEF AnswersAgain
  <2>2. ConnectAck(r.ackBody).type \notin {"DATA", "DATA_ACK"} BY DEF ConnectAck
  <2> QED BY <1>5, <1>12, <2>1, <2>2
<1>13. CASE Grants(s) /\ UNCHANGED <<delivered, returned>>
  <2>1. Moves(s, {Control("FLOOR_GRANT")}) BY <1>13 DEF Grants
  <2>2. Control("FLOOR_GRANT").type \notin {"DATA", "DATA_ACK"} BY DEF Control
  <2>3. /\ stn'[s].txSeq = r.txSeq /\ stn'[s].expect = r.expect
        /\ stn'[s].partial = r.partial /\ stn'[s].call = r.call /\ stn'[s].part = r.part
    BY <1>0, <1>13 DEF Grants, StationState
  <2> QED BY <1>5, <1>13, <2>1, <2>2, <2>3
<1>14. CASE (AsksFloor(s) \/ AsksAgain(s)) /\ UNCHANGED <<delivered, returned>>
  <2>1. Moves(s, {Control("FLOOR_REQ")}) /\ r.call \in {"poll", "floor"}
        /\ \E k : stn'[s] = Requesting(r, k)
    BY <1>14 DEF AsksFloor, AsksAgain
  <2>2. Control("FLOOR_REQ").type \notin {"DATA", "DATA_ACK"} BY DEF Control
  <2>3. /\ stn'[s].txSeq = r.txSeq /\ stn'[s].expect = r.expect
        /\ stn'[s].partial = r.partial /\ stn'[s].call = "floor" /\ stn'[s].part = r.part
    BY <1>0, <2>1 DEF Requesting, StationState
  <2> QED BY <1>5, <1>14, <2>1, <2>2, <2>3
<1>15. CASE (Closes(s) \/ ClosesAgain(s)) /\ UNCHANGED <<delivered, returned>>
  <2>1. Moves(s, {Control("DISC")}) BY <1>15 DEF Closes, ClosesAgain
  <2>2. Control("DISC").type \notin {"DATA", "DATA_ACK"} BY DEF Control
  <2>3. /\ stn'[s].txSeq = r.txSeq /\ stn'[s].expect = r.expect
        /\ stn'[s].partial = r.partial /\ stn'[s].call = "disc" /\ stn'[s].part = r.part
    <3>1. CASE Closes(s) BY <1>0, <3>1 DEF Closes, Closing, StationState
    <3>2. CASE ClosesAgain(s) BY <1>0, <3>2 DEF ClosesAgain, StationState
    <3> QED BY <1>15, <3>1, <3>2
  <2> QED BY <1>5, <1>15, <2>1, <2>2, <2>3
<1> QED BY <1>2, <1>3, <1>4, <1>6, <1>7, <1>8, <1>9, <1>10, <1>11, <1>12, <1>13, <1>14, <1>15
        DEF Outcome, Quietly

\* The number, among the messages of its application, of the one s sends next
\* or is sending.
InHand(s) == Len(returned[s]) + 1

LEMMA DataFrameSays ==
  ASSUME NEW s, NEW r
  PROVE  /\ DataFrame(s, r).body = Piece(r.session, InHand(s), r.part)
         /\ DataFrame(s, r).eof <=> (r.part = ChunksPerMessage)
BY DEF DataFrame, Piece, InHand

\* Chunks in both directions, when s stays in its session with a peer in P.
LEMMA RealCarries ==
  ASSUME BaseInv, MessagesIntact, NEW s \in Stations, NEW p \in Stations, p = Peer(s),
         Outcome(s), InSession(s), stn'[s].session = stn[s].session,
         NEW P, NEW K, NEW K2, NEW first \in BOOLEAN, NEW n \in Nat,
         Talk(stn[s], P, inbox[s], DOMAIN inbox[s], inbox[p], K, first),
         P.call = "send" => P.part \in 1..ChunksPerMessage,
         \A F : Moves(s, F) => Evolved(inbox[p], K, inbox'[p], K2, F),
         Carries(stn[s], P, inbox[p], K, stn[s].session, InHand(s), delivered[p]),
         Carries(P, stn[s], inbox[s], DOMAIN inbox[s], stn[s].session, n, delivered[s])
  PROVE  /\ Carries(stn'[s], P, inbox'[p], K2, stn[s].session, InHand(s)', delivered'[p])
         /\ Carries(P, stn'[s], inbox'[s], DOMAIN inbox'[s], stn[s].session, n, delivered'[s])
<1> DEFINE R == stn[s]
           R2 == stn'[s]
           q == inbox[s]
           J == DOMAIN q
           q2 == inbox'[s]
           J2 == DOMAIN q2
           x == inbox[p]
           x2 == inbox'[p]
           id == R.session
           m == InHand(s)
           d == delivered[p]
           e == delivered[s]
<1>0. /\ R \in StationState /\ WellFormed(R, Len(returned[s])) /\ m \in Nat
      /\ R.txSeq \in SeqNo /\ R.expect \in SeqNo /\ R.part \in Nat
      /\ p # s
  BY StationFacts, ConstantFacts, PeerFacts DEF InHand
<1>1. Counters(R, P, q, J, x, K) /\ Counters(P, R, x, K, q, J) /\ P.txSeq \in SeqNo
  BY DEF Talk
<1>2. /\ DataFrame(s, R2).body = Piece(id, m, R2.part)
      /\ DataFrame(s, R2).eof <=> (R2.part = ChunksPerMessage)
  BY DataFrameSays
<1>3. ASSUME R2.expect = R.expect, R2.partial = R.partial, NEW G, Moves(s, G)
      PROVE  Carries(P, R2, q2, J2, id, n, e)
  <2>1. Evolved(q, J, q2, J2, {}) /\ {} \cap AnyData = {} BY <1>3, OwnRests
  <2> HIDE DEF R, R2, q, J, q2, J2, id, e
  <2>2. Carries(P, R, q, J, id, n, e) BY DEF R, q, J, id, e
  <2> QED BY <1>3, <2>1, <2>2, CarriesCalm
<1>4. CASE Passes(s)
  <2>1. PICK G : /\ Moves(s, G) /\ G \cap AnyData = {} /\ G \cap AnyAck = {}
                 /\ UNCHANGED <<delivered, returned>>
                 /\ R2.txSeq = R.txSeq /\ R2.expect = R.expect
                 /\ R2.partial = R.partial /\ R2.part = R.part
                 /\ \/ R2.call \in {R.call, "disc"}
                    \/ R.call \in {"poll", "floor"} /\ R2.call \in {"poll", "floor"}
    BY <1>4 DEF Passes
  <2>2. Evolved(x, K, x2, K2, G) BY <2>1
  <2>3. InHand(s)' = m /\ delivered' = delivered BY <2>1 DEF InHand
  <2>4. Carries(P, R2, q2, J2, id, n, e) BY <1>3, <2>1
  <2>5. Carries(R2, P, x2, K2, id, m, d)
    <3>1. R.call = "disc" => R2.call = "disc" BY <2>1
    <3>2. R2.call # "disc" => ((R2.call = "send") <=> (R.call = "send")) BY <2>1
    <3> HIDE DEF R, R2, x, x2, id, m, d
    <3>3. Carries(R, P, x, K, id, m, d) BY DEF R, x, id, m, d
    <3> QED BY <2>1, <2>2, <3>1, <3>2, <3>3, CarriesCalm
  <2> QED BY <2>3, <2>4, <2>5
<1>5. CASE KeysChunk(s)
  <2>1. PICK G : /\ Moves(s, G) /\ G \subseteq {DataFrame(s, R2)}
                 /\ UNCHANGED <<delivered, returned>>
                 /\ R2.txSeq = R.txSeq /\ R2.expect = R.expect
                 /\ R2.partial = R.partial
                 /\ R.call \in {"poll", "floor", "send"} /\ R2.call = "send"
                 /\ IF R.call = "send" THEN R2.part = R.part ELSE R2.part = 1
    BY <1>5 DEF KeysChunk
  <2>2. Evolved(x, K, x2, K2, G) BY <2>1
  <2>3. InHand(s)' = m /\ delivered' = delivered BY <2>1 DEF InHand
  <2>4. Carries(P, R2, q2, J2, id, n, e) BY <1>3, <2>1
  <2>5. Carries(R2, P, x2, K2, id, m, d)
    <3>1. \A f \in G : f.body = Piece(id, m, R2.part)
                       /\ (f.eof <=> (R2.part = ChunksPerMessage))
      BY <1>2, <2>1
    <3> HIDE DEF R, R2, q, J, x, x2, id, m, d
    <3>2. Carries(R, P, x, K, id, m, d) BY DEF R, x, id, m, d
    <3> QED BY <1>1, <2>1, <2>2, <3>1, <3>2, CarriesSends
  <2> QED BY <2>3, <2>4, <2>5
<1>6. CASE Acked(s)
  <2>1. PICK G : /\ Moves(s, G) /\ UNCHANGED delivered
                 /\ q # << >> /\ Head(q) \in AckOf(R.txSeq) /\ q2 = Tail(q)
                 /\ R2.txSeq = NextSeq(R.txSeq) /\ R2.expect = R.expect
                 /\ R2.partial = R.partial /\ R.call = "send"
                 /\ \/ /\ R.part < ChunksPerMessage /\ R2.part = R.part + 1
                       /\ R2.call = "send" /\ G \subseteq {DataFrame(s, R2)}
                       /\ UNCHANGED returned
                    \/ /\ R.part = ChunksPerMessage /\ R2.call = "poll" /\ G = {}
                       /\ returned' = [returned EXCEPT ![s] = Append(@, R.session)]
    BY <1>6 DEF Acked
  <2>2. Evolved(x, K, x2, K2, G) BY <2>1
  <2>3. 1 \in J /\ q[1] \in AckOf(R.txSeq) BY <2>1, OwnShifts DEF Shifted
  <2>4. Carries(P, R2, q2, J2, id, n, e) BY <1>3, <2>1
  <2>5. CASE R.part < ChunksPerMessage
    <3>0. R.part # ChunksPerMessage BY <1>0, <2>5, ConstantFacts
    <3>1. /\ R2.part = R.part + 1 /\ R2.call = "send" /\ G \subseteq {DataFrame(s, R2)}
          /\ InHand(s)' = m
      BY <2>1, <3>0 DEF InHand
    <3>2. \A f \in G : f.body = Piece(id, m, R2.part)
                       /\ (f.eof <=> (R2.part = ChunksPerMessage))
      BY <1>2, <3>1
    <3>3. Carries(R2, P, x2, K2, id, m, d)
      <4> HIDE DEF R, R2, q, J, x, x2, id, m, d
      <4>1. Carries(R, P, x, K, id, m, d) BY DEF R, x, id, m, d
      <4> QED BY <1>0, <1>1, <2>1, <2>2, <2>3, <2>5, <3>1, <3>2, <4>1, CarriesNext
    <3> QED BY <2>1, <2>4, <3>1, <3>3
  <2>6. CASE R.part = ChunksPerMessage
    <3>0. ~(R.part < ChunksPerMessage) BY <1>0, <2>6, ConstantFacts
    <3>1. /\ R2.call = "poll" /\ G = {}
          /\ returned' = [returned EXCEPT ![s] = Append(@, R.session)]
      BY <2>1, <3>0
    <3>2. InHand(s)' = m + 1
      <4> DEFINE Q == Seq(1..MaxSessions)
      <4>1. returned \in [Stations -> Q] /\ returned[s] \in Q BY BookFacts DEF Booked
      <4>2. returned'[s] = Append(returned[s], R.session)
        <5> HIDE DEF Q
        <5> QED BY <3>1, <4>1
      <4>3. Len(returned'[s]) = Len(returned[s]) + 1 BY <4>1, <4>2
      <4> QED BY <4>3 DEF InHand
    <3>3. \A i \in DOMAIN d : d[i].chunks[1].msg \in Nat
      <4>1. Intact(d) BY DEF MessagesIntact, Intact
      <4> HIDE DEF d
      <4> QED BY <4>1, IntactNumbers
    <3>4. Carries(R2, P, x2, K2, id, m + 1, d)
      <4> HIDE DEF R, R2, q, J, x, x2, id, m, d
      <4>1. Carries(R, P, x, K, id, m, d) BY DEF R, x, id, m, d
      <4>2. Evolved(x, K, x2, K2, {}) BY <2>2, <3>1
      <4> QED BY <1>0, <1>1, <2>1, <2>3, <2>6, <3>1, <3>3, <4>1, <4>2, CarriesReturns
    <3> QED BY <2>1, <2>4, <3>2, <3>4
  <2> QED BY <2>1, <2>5, <2>6
<1>7. CASE Takes(s)
  <2> DEFINE f == Head(q)
             b == R.partial
  <2>1. PICK G : /\ Moves(s, G) /\ G \cap AnyData = {} /\ UNCHANGED returned
                 /\ q # << >> /\ f \in AnyData /\ q2 = Tail(q)
                 /\ R.call \in {"poll", "floor"} /\ R2.call = R.call
                 /\ R2.txSeq = R.txSeq /\ R2.part = R.part
                 /\ IF f.seq = R.expect
                    THEN /\ R2.expect = NextSeq(R.expect) /\ R2.partial = Joint(f, b)
                         /\ delivered' = [delivered EXCEPT ![s] = Given(f, b, id, @)]
                    ELSE /\ R2.expect = R.expect /\ R2.partial = b
                         /\ UNCHANGED delivered
    BY <1>7 DEF Takes
  <2>2. Evolved(x, K, x2, K2, G) BY <2>1
  <2>3. InHand(s)' = m BY <2>1 DEF InHand
  <2>4. delivered'[p] = d /\ (f.seq = R.expect => delivered'[s] = Given(f, b, id, e))
    <3>1. \E D : delivered \in [Stations -> D] BY BookFacts DEF Booked
    <3>2. CASE f.seq = R.expect
      <4> DEFINE g == Given(f, b, id, e)
      <4>1. delivered' = [delivered EXCEPT ![s] = g] BY <2>1, <3>2
      <4> HIDE DEF g
      <4>2. delivered'[p] = delivered[p] /\ delivered'[s] = g BY <1>0, <3>1, <4>1
      <4> QED BY <4>2 DEF g
    <3>3. CASE f.seq # R.expect BY <2>1, <3>3
    <3> QED BY <3>2, <3>3
  <2>5. Carries(R2, P, x2, K2, id, m, d)
    <3> HIDE DEF R, R2, x, x2, id, m, d, f, b
    <3>1. Carries(R, P, x, K, id, m, d) BY DEF R, x, id, m, d
    <3> QED BY <2>1, <2>2, <3>1, CarriesCalm
  <2>6. CASE f.seq # R.expect
    <3>1. Carries(P, R2, q2, J2, id, n, e) BY <1>3, <2>1, <2>6
    <3>2. delivered' = delivered BY <2>1, <2>6
    <3> QED BY <2>3, <2>5, <3>1, <3>2
  <2>7. CASE f.seq = R.expect
    <3> DEFINE T == [session : 1..MaxSessions, chunks : Seq(Body)]
    <3>1. e \in Seq(T) BY BookFacts DEF Booked
    <3>2. [session |-> id, chunks |-> Append(b, f.body)] \in T
      <4>1. f.body \in Body BY <2>1, DataFields DEF AnyData
      <4>2. b \in Seq(Body) BY StationFacts
      <4>3. id \in 1..MaxSessions
        BY StationFacts, ConstantFacts DEF InSession, WellFormed, NoSession
      <4>4. Append(b, f.body) \in Seq(Body)
        <5> DEFINE B == Body
        <5>1. b \in Seq(B) /\ f.body \in B BY <4>1, <4>2
        <5>2. Append(b, f.body) \in Seq(B)
          <6> HIDE DEF B, b, f
          <6> QED BY <5>1
        <5> QED BY <5>2
      <4> QED BY <4>3, <4>4
    <3>3. Shifted(q, J, q2, J2) /\ q[1] = f BY <2>1, OwnShifts
    <3>4. f \in DataOf(R.expect) BY <2>1, <2>7 DEF DataOf
    <3>5. R2.expect = NextSeq(R.expect) /\ R2.partial = Joint(f, b) BY <2>1, <2>7
    <3>6. Carries(P, R2, q2, J2, id, n, Given(f, b, id, e))
      <4> HIDE DEF R, R2, q, J, q2, J2, x, x2, id, e, f, T
      <4>1. Carries(P, R, q, J, id, n, e) BY DEF R, q, J, id, e
      <4> QED BY <1>0, <1>1, <3>1, <3>2, <3>3, <3>4, <3>5, <4>1, CarriesTaken
    <3> QED BY <2>3, <2>4, <2>5, <2>7, <3>6
  <2> QED BY <2>6, <2>7
<1> QED BY <1>4, <1>5, <1>6, <1>7, SessionSteps

----------------------------------------------------------------------------
(* What a station knows without its peer *)

\* The frames behind the first o.
Behind(q, o) == {i \in DOMAIN q : \E k \in DOMAIN q : k < i /\ q[k] = o}

\* The chunks a station will take are right, also if it should answer a call ...
ReadsRight(s) ==
  /\ InSession(s) => Reads(stn[s], inbox[s], DOMAIN inbox[s], stn[s].session, delivered[s])
  /\ stn[s].call = "listen" => \A id \in Nat :
       Reads(Entering("IRS"), inbox[s], Behind(inbox[s], Connect(id)), id, delivered[s])

\* ... and so are the acknowledgements.
LearnsRight(s) ==
  /\ InSession(s) => Learns(stn[s], inbox[s], DOMAIN inbox[s], stn[s].session, InHand(s),
                            delivered[Peer(s)])
  /\ stn[s].call = "listen" => \A id \in Nat :
       None(inbox[s], Behind(inbox[s], Connect(id)), AckOf(0))

LEMMA BehindRests ==
  ASSUME BaseInv, NEW s \in Stations, NEW F, Moves(s, F), NEW o
  PROVE  Evolved(inbox[s], Behind(inbox[s], o), inbox'[s], Behind(inbox'[s], o), {})
<1> DEFINE q == inbox[s]
           r == inbox'[s]
<1>1. q \in Seq(Frame) /\ r \in Rests(q) /\ r \in Seq(Frame)
  BY StationFacts DEF Moves
<1>2. PICK d \in Nat : /\ Len(r) + d = Len(q)
                       /\ \A i \in 1..Len(r) : i + d \in 1..Len(q) /\ r[i] = q[i + d]
  BY <1>1, RestsShift
<1>3. DOMAIN q = 1..Len(q) /\ DOMAIN r = 1..Len(r) /\ Len(r) \in Nat BY <1>1
<1> HIDE DEF q, r
<1>4. \A j \in Behind(r, o) : /\ j \in Nat
                              /\ IF j <= Len(r) THEN j + d \in Behind(q, o) /\ r[j] = q[j + d]
                                 ELSE r[j] \in {}
  <2> TAKE j \in Behind(r, o)
  <2>1. PICK k \in 1..Len(r) : k < j /\ r[k] = o BY <1>3 DEF Behind
  <2>2. j \in 1..Len(r) BY <1>3 DEF Behind
  <2>3. /\ j + d \in DOMAIN q /\ r[j] = q[j + d]
        /\ k + d \in DOMAIN q /\ k + d < j + d /\ q[k + d] = o
    BY <1>2, <1>3, <2>1, <2>2
  <2> QED BY <2>2, <2>3 DEF Behind
<1> QED BY <1>3, <1>4 DEF Evolved, q, r

LEMMA BehindGrows ==
  ASSUME BaseInv, NEW s \in Stations, NEW F, Moves(s, F), NEW p \in Stations, p = Peer(s),
         NEW o
  PROVE  Evolved(inbox[p], Behind(inbox[p], o), inbox'[p], Behind(inbox'[p], o),
                 IF \E k \in DOMAIN inbox'[p] : inbox'[p][k] = o THEN F ELSE {})
<1> DEFINE q == inbox[p]
           r == inbox'[p]
<1>1. q \in Seq(Frame) /\ r \in Seq(Frame) /\ Grown(q, r, F)
  BY StationFacts DEF Moves
<1>2. /\ DOMAIN q = 1..Len(q) /\ DOMAIN r = 1..Len(r) /\ Len(q) \in Nat /\ Len(r) \in Nat
      /\ \A j \in 1..Len(r) : IF j <= Len(q) THEN r[j] = q[j] ELSE r[j] \in F
  BY <1>1 DEF Grown
<1> HIDE DEF q, r
<1>3. \A j \in Behind(r, o) : /\ j \in Nat
                              /\ IF j <= Len(q) THEN j + 0 \in Behind(q, o) /\ r[j] = q[j + 0]
                                 ELSE r[j] \in F
  <2> TAKE j \in Behind(r, o)
  <2>1. PICK k \in 1..Len(r) : k < j /\ r[k] = o BY <1>2 DEF Behind
  <2>2. j \in 1..Len(r) BY <1>2 DEF Behind
  <2>3. CASE j <= Len(q)
    <3>1. /\ r[j] = q[j] /\ j \in DOMAIN q /\ k \in DOMAIN q /\ q[k] = o /\ j + 0 = j
      BY <1>2, <2>1, <2>2, <2>3
    <3> QED BY <2>1, <2>2, <2>3, <3>1 DEF Behind
  <2>4. CASE ~(j <= Len(q)) BY <1>2, <2>2, <2>4
  <2> QED BY <2>3, <2>4
<1>4. 0 \in Nat /\ Len(q) \in Nat BY <1>2
<1>5. CASE \E k \in DOMAIN r : r[k] = o BY <1>3, <1>4, <1>5 DEF Evolved, q, r
<1>6. CASE ~\E k \in DOMAIN r : r[k] = o
  <2>1. Behind(r, o) = {} BY <1>6 DEF Behind
  <2> QED BY <1>4, <2>1 DEF Evolved, q, r
<1> QED BY <1>5, <1>6

LEMMA BehindTail ==
  ASSUME BaseInv, NEW s \in Stations, inbox[s] # << >>, inbox'[s] = Tail(inbox[s])
  PROVE  Evolved(inbox[s], Behind(inbox[s], Head(inbox[s])),
                 inbox'[s], DOMAIN inbox'[s], {})
<1> DEFINE q == inbox[s]
           r == inbox'[s]
<1>1. Shifted(q, DOMAIN q, r, DOMAIN r) /\ q[1] = Head(q) BY OwnShifts
<1>2. PICK m \in Nat : \A j \in DOMAIN r : j <= m BY OwnShifts
<1> HIDE DEF q, r
<1>3. \A j \in DOMAIN r : /\ j \in Nat /\ j <= m
                          /\ j + 1 \in Behind(q, Head(q)) /\ r[j] = q[j + 1]
  <2> TAKE j \in DOMAIN r
  <2>1. 1 \in DOMAIN q /\ j \in Nat \ {0} /\ j + 1 \in DOMAIN q /\ r[j] = q[j + 1]
    BY <1>1 DEF Shifted
  <2>2. 1 < j + 1 BY <2>1
  <2> QED BY <1>1, <1>2, <2>1, <2>2 DEF Behind
<1>4. 1 \in Nat OBVIOUS
<1> QED BY <1>2, <1>3, <1>4 DEF Evolved, q, r

LEMMA SilentReads ==
  ASSUME NEW R, NEW q, NEW J, NEW id, NEW d, None(q, J, AnyData)
  PROVE  Reads(R, q, J, id, d)
<1>1. None(q, J, DataOf(R.expect)) BY KindsApart, NoneFewer
<1>2. Never(q, J, DataOf(R.expect), AnyData \ DataOf(R.expect)) BY <1>1, NoneNever
<1> QED BY <1>1, <1>2 DEF Reads, None

LEMMA SilentLearns ==
  ASSUME NEW R, NEW q, NEW J, NEW id, NEW m, NEW d, None(q, J, AckOf(R.txSeq)),
         R.call # "send"
  PROVE  Learns(R, q, J, id, m, d)
<1>1. Never(q, J, AckOf(R.txSeq), AnyAck \ AckOf(R.txSeq)) BY NoneNever
<1> QED BY <1>1 DEF Learns

\* A station that is not in the same session afterwards tells nobody anything.
LEMMA Entered ==
  ASSUME BaseInv, BaseInv', NEW s \in Stations, Outcome(s)
  PROVE  \/ InSession(s) /\ stn'[s].session = stn[s].session
         \/ /\ UNCHANGED <<delivered, returned>>
            /\ InSession(s)' => Joins(s) \/ Answers(s)
<1> DEFINE r == stn[s]
<1>0. r \in StationState /\ WellFormed(r, Len(returned[s])) BY StationFacts
<1>1. WellFormed(stn'[s], Len(returned'[s])) BY DEF BaseInv, Shape
<1>2. r.state = "CONNECTED" => InSession(s) BY DEF InSession
<1>3. CASE TakesChunk(s) \/ Returns(s)
  <2>1. r.state = "CONNECTED" BY <1>0, <1>3 DEF TakesChunk, Returns, WellFormed
  <2>2. r.call # "listen" /\ r.call # "call" BY <1>3 DEF TakesChunk, Returns
  <2>3. stn'[s].session = r.session
    <3>1. CASE TakesChunk(s)
      <4> DEFINE f == Head(inbox[s])
                 R == Received(r, f)
      <4>1. f \in Frame /\ f.type = "DATA" BY <3>1, HeadFacts DEF TakesChunk, Heads
      <4>2. R \in StationState BY <1>0, <4>1, ReceivedTyped
      <4>3. R.session = r.session BY <1>0 DEF Received, StationState
      <4> HIDE DEF R
      <4>4. CASE stn'[s] = R BY <4>3, <4>4
      <4>5. CASE stn'[s] = Requesting(R, 0) BY <4>2, <4>3, <4>5 DEF Requesting, StationState
      <4> QED BY <3>1, <4>4, <4>5 DEF TakesChunk, R
    <3>2. CASE Returns(s) BY <1>0, <3>2 DEF Returns, Advanced, StationState
    <3> QED BY <1>3, <3>1, <3>2
  <2> QED BY <1>2, <2>1, <2>3
<1>4. CASE Opens(s) /\ UNCHANGED <<delivered, returned>>
  <2>1. stn'[s].state = "CONNECTING" BY <1>0, <1>4 DEF Opens, StationState
  <2> QED BY <1>4, <2>1 DEF InSession
<1>5. CASE Quietly(s) /\ UNCHANGED <<delivered, returned>>
  <2> SUFFICES ASSUME InSession(s)', ~Joins(s), ~Answers(s)
               PROVE  InSession(s) /\ stn'[s].session = r.session
    BY <1>5
  <2>1. stn'[s].state = "CONNECTED" /\ stn'[s].session # NoSession
    BY <1>1 DEF InSession, WellFormed
  <2>2. ~Opens(s)
    <3>1. Opens(s) => stn'[s].state = "CONNECTING" BY <1>0 DEF Opens, StationState
    <3> QED BY <2>1, <3>1
  <2>3. stn'[s].session = r.session BY <2>1, <2>2, OutcomeSession
  <2>4. r.state \in {"CONNECTING", "CONNECTED"} BY <1>0, <2>1, <2>3 DEF WellFormed
  <2>5. r.state # "CONNECTING"
    <3> SUFFICES ASSUME r.state = "CONNECTING" PROVE FALSE OBVIOUS
    <3>1. r.call = "call" BY <1>0 DEF WellFormed
    <3>2. ~CallsAgain(s)
      <4>1. CallsAgain(s) => stn'[s].state = "CONNECTING"
        BY <1>0 DEF CallsAgain, StationState
      <4> QED BY <2>1, <4>1
    <3>3. ~GivesUp(s) /\ ~Restarts(s)
      <4>1. GivesUp(s) => stn'[s].state = "IDLE" BY <1>0 DEF GivesUp, StationState
      <4>2. Restarts(s) => stn'[s].state = "IDLE" BY DEF Restarts, Fresh
      <4> QED BY <2>1, <4>1, <4>2
    <3>4. ~Drops(s) /\ ~AnswersAgain(s) BY <2>1 DEF Drops, AnswersAgain
    <3>5. ~(\/ Listens(s) \/ StopsListening(s) \/ Grants(s)
            \/ StartsSending(s) \/ AsksFloor(s) \/ AsksAgain(s) \/ TakesGrant(s)
            \/ SendsNext(s) \/ SendsAgain(s) \/ Closes(s) \/ ClosesAgain(s)
            \/ IsClosed(s) \/ GoesIdle(s))
      BY <3>1
         DEF Listens, StopsListening, Grants, StartsSending, AsksFloor, AsksAgain,
             TakesGrant, SendsNext, SendsAgain, Closes, ClosesAgain, IsClosed, GoesIdle
    <3> QED BY <1>5, <3>2, <3>3, <3>4, <3>5 DEF Quietly
  <2> QED BY <1>2, <2>3, <2>4, <2>5
<1> QED BY <1>3, <1>4, <1>5 DEF Outcome

\* A step of a station that stays in its session keeps what it knows.
LEMMA StaysRight ==
  ASSUME BaseInv, NEW s \in Stations, NEW p \in Stations, p = Peer(s), Outcome(s),
         InSession(s), stn'[s].session = stn[s].session, ReadsRight(s), LearnsRight(s)
  PROVE  /\ Reads(stn'[s], inbox'[s], DOMAIN inbox'[s], stn[s].session, delivered'[s])
         /\ Learns(stn'[s], inbox'[s], DOMAIN inbox'[s], stn[s].session, InHand(s)',
                   delivered'[p])
<1> DEFINE R == stn[s]
           R2 == stn'[s]
           q == inbox[s]
           J == DOMAIN q
           q2 == inbox'[s]
           J2 == DOMAIN q2
           id == R.session
           m == InHand(s)
           d == delivered[s]
           e == delivered[p]
<1>0. R.txSeq \in SeqNo /\ R.expect \in SeqNo /\ p # s BY StationFacts, PeerFacts
<1>1. Reads(R, q, J, id, d) /\ Learns(R, q, J, id, m, e)
  BY DEF ReadsRight, LearnsRight
<1>2. ASSUME R2.expect = R.expect, R2.partial = R.partial, NEW G, Moves(s, G)
      PROVE  Reads(R2, q2, J2, id, d)
  <2>1. Evolved(q, J, q2, J2, {}) /\ {} \cap AnyData = {} BY <1>2, OwnRests
  <2> HIDE DEF R, R2, q, J, q2, J2, id, d
  <2> QED BY <1>1, <1>2, <2>1, ReadsEvolved
<1>3. ASSUME R2.txSeq = R.txSeq, NEW G, Moves(s, G),
             \/ R2.part = R.part /\ (R2.call = "send" => R.call = "send")
                /\ (R.call \in {"send", "disc"} => R2.call \in {"send", "disc"})
             \/ R.call \notin {"send", "disc"}
      PROVE  Learns(R2, q2, J2, id, m, e)
  <2>1. Evolved(q, J, q2, J2, {}) /\ {} \cap AnyAck = {} BY <1>3, OwnRests
  <2> HIDE DEF R, R2, q, J, q2, J2, id, m, e
  <2> QED BY <1>1, <1>3, <2>1, LearnsEvolved
<1>4. CASE Passes(s)
  <2>1. PICK G : /\ Moves(s, G) /\ UNCHANGED <<delivered, returned>>
                 /\ R2.txSeq = R.txSeq /\ R2.expect = R.expect
                 /\ R2.partial = R.partial /\ R2.part = R.part
                 /\ \/ R2.call \in {R.call, "disc"}
                    \/ R.call \in {"poll", "floor"} /\ R2.call \in {"poll", "floor"}
    BY <1>4 DEF Passes
  <2>2. InHand(s)' = m /\ delivered' = delivered BY <2>1 DEF InHand
  <2>3. Reads(R2, q2, J2, id, d) BY <1>2, <2>1
  <2>4. Learns(R2, q2, J2, id, m, e) BY <1>3, <2>1
  <2> QED BY <2>2, <2>3, <2>4
<1>5. CASE KeysChunk(s)
  <2>1. PICK G : /\ Moves(s, G) /\ UNCHANGED <<delivered, returned>>
                 /\ R2.txSeq = R.txSeq /\ R2.expect = R.expect
                 /\ R2.partial = R.partial
                 /\ R.call \in {"poll", "floor", "send"} /\ R2.call = "send"
                 /\ IF R.call = "send" THEN R2.part = R.part ELSE R2.part = 1
    BY <1>5 DEF KeysChunk
  <2>2. InHand(s)' = m /\ delivered' = delivered BY <2>1 DEF InHand
  <2>3. Reads(R2, q2, J2, id, d) BY <1>2, <2>1
  <2>4. Learns(R2, q2, J2, id, m, e) BY <1>3, <2>1
  <2> QED BY <2>2, <2>3, <2>4
<1>6. CASE Acked(s)
  <2>1. PICK G : /\ Moves(s, G) /\ UNCHANGED delivered
                 /\ q # << >> /\ Head(q) \in AckOf(R.txSeq) /\ q2 = Tail(q)
                 /\ R2.txSeq = NextSeq(R.txSeq) /\ R2.expect = R.expect
                 /\ R2.partial = R.partial
    BY <1>6 DEF Acked
  <2>2. Shifted(q, J, q2, J2) /\ q[1] \in AckOf(R.txSeq) BY <2>1, OwnShifts
  <2>3. Reads(R2, q2, J2, id, d) BY <1>2, <2>1
  <2>4. \A k : Learns(R2, q2, J2, id, k, e)
    <3> HIDE DEF R, R2, q, J, q2, J2, id, m, e
    <3> QED BY <1>0, <1>1, <2>1, <2>2, LearnsAdvanced
  <2> QED BY <2>1, <2>3, <2>4
<1>7. CASE Takes(s)
  <2> DEFINE f == Head(q)
  <2>1. PICK G : /\ Moves(s, G) /\ UNCHANGED returned
                 /\ q # << >> /\ f \in AnyData /\ q2 = Tail(q)
                 /\ R.call \in {"poll", "floor"} /\ R2.call = R.call
                 /\ R2.txSeq = R.txSeq /\ R2.part = R.part
                 /\ IF f.seq = R.expect
                    THEN /\ R2.expect = NextSeq(R.expect)
                         /\ \E g : delivered' = [delivered EXCEPT ![s] = g]
                    ELSE /\ R2.expect = R.expect /\ R2.partial = R.partial
                         /\ UNCHANGED delivered
    BY <1>7 DEF Takes
  <2>2. InHand(s)' = m BY <2>1 DEF InHand
  <2>3. delivered'[p] = e
    <3>1. \E D : delivered \in [Stations -> D] BY BookFacts DEF Booked
    <3> QED BY <1>0, <2>1, <3>1
  <2>4. Learns(R2, q2, J2, id, m, e) BY <1>3, <2>1
  <2>5. CASE f.seq = R.expect
    <3>1. Shifted(q, J, q2, J2) /\ q[1] = f BY <2>1, OwnShifts
    <3>2. f \in DataOf(R.expect) BY <2>1, <2>5 DEF DataOf
    <3>3. \A g : Reads(R2, q2, J2, id, g)
      <4> HIDE DEF R, R2, q, J, q2, J2, id, d, f
      <4> QED BY <1>0, <1>1, <2>1, <2>5, <3>1, <3>2, ReadsTaken
    <3> QED BY <2>2, <2>3, <2>4, <3>3
  <2>6. CASE f.seq # R.expect
    <3>1. Reads(R2, q2, J2, id, d) /\ delivered' = delivered BY <1>2, <2>1, <2>6
    <3> QED BY <2>2, <2>4, <3>1
  <2> QED BY <2>5, <2>6
<1> QED BY <1>4, <1>5, <1>6, <1>7, SessionSteps

\* A caller that learns its call was taken has nothing to read yet.
LEMMA JoinsSilent ==
  ASSUME BaseInv, PairInv, NEW s \in Stations, Joins(s)
  PROVE  /\ None(inbox'[s], DOMAIN inbox'[s], AnyData \cup AnyAck \cup Grant)
         /\ stn'[s].session = stn[s].session /\ stn'[s].call = "poll"
         /\ stn'[s].expect = 0 /\ stn'[s].txSeq = 0 /\ stn'[s].partial = << >>
<1> DEFINE R == stn[s]
<1>1. R \in StationState /\ WellFormed(R, Len(returned[s])) BY StationFacts
<1>2. /\ Moves(s, {}) /\ inbox[s] # << >> /\ inbox'[s] = Tail(inbox[s])
      /\ Head(inbox[s]).type = "CONNECT_ACK" /\ Head(inbox[s]).session = R.session
      /\ R.call = "call"
  BY DEF Joins, Heads
<1>3. /\ stn'[s].session = R.session /\ stn'[s].call = "poll"
      /\ stn'[s].expect = 0 /\ stn'[s].txSeq = 0 /\ stn'[s].partial = << >>
  BY <1>1 DEF Joins, ResetSequence, StationState
<1>4. Head(inbox[s]) = Opening(s, s)
  <2>1. Head(inbox[s]) \in Frame BY <1>2, HeadFacts
  <2> QED BY <1>2, <2>1 DEF Frame, Opening, ConnectAck
<1>5. Joined(s, s)' BY <1>3 DEF Joined
<1>6. Evolved(inbox[s], Live(s, s), inbox'[s], Live(s, s)', {})
  BY <1>2, <1>3, <1>4, LiveRests
<1>7. Caller(s)
  <2>1. R.state = "CONNECTING" BY <1>1, <1>2 DEF WellFormed
  <2> QED BY <1>1, <2>1 DEF WellFormed, Caller
<1>8. None(inbox[s], Live(s, s), AnyData \cup AnyAck \cup Grant)
  BY <1>2, <1>7 DEF PairInv, Paired, Early
<1>9. None(inbox'[s], Live(s, s)', AnyData \cup AnyAck \cup Grant)
  BY <1>6, <1>8, EvolvedNone
<1>10. Live(s, s)' = DOMAIN inbox'[s] BY <1>5 DEF Live
<1> QED BY <1>3, <1>9, <1>10

LEMMA OwnRight ==
  ASSUME BaseInv, BaseInv', PairInv, NEW s \in Stations, Outcome(s), ReadsRight(s),
         LearnsRight(s)
  PROVE  ReadsRight(s)' /\ LearnsRight(s)'
<1>0. PICK p \in Stations : Peer(s) = p /\ p # s BY PeerFacts
<1> DEFINE R == stn[s]
           R2 == stn'[s]
           q == inbox[s]
           q2 == inbox'[s]
           J2 == DOMAIN q2
<1>1. /\ R \in StationState /\ WellFormed(R, Len(returned[s]))
      /\ WellFormed(R2, Len(returned'[s]))
  BY StationFacts DEF BaseInv, Shape
<1>2. ASSUME InSession(s)'
      PROVE  /\ Reads(R2, q2, J2, R2.session, delivered'[s])
             /\ Learns(R2, q2, J2, R2.session, InHand(s)', delivered'[p])
  <2>1. CASE InSession(s) /\ R2.session = R.session BY <1>0, <2>1, StaysRight
  <2>2. CASE Joins(s)
    <3>1. None(q2, J2, AnyData \cup AnyAck \cup Grant) /\ R2.call = "poll"
      BY <2>2, JoinsSilent
    <3> HIDE DEF R2, q2, J2
    <3>2. None(q2, J2, AnyData) BY <3>1, NoneFewer
    <3>3. AckOf(R2.txSeq) \subseteq AnyData \cup AnyAck \cup Grant BY KindsApart
    <3>4. None(q2, J2, AckOf(R2.txSeq)) BY <3>1, <3>3, NoneFewer
    <3> QED BY <3>1, <3>2, <3>4, SilentReads, SilentLearns
  <2>3. CASE Answers(s) /\ UNCHANGED <<delivered, returned>>
    <3> DEFINE id == Head(q).session
    <3>1. /\ R.call = "listen" /\ q # << >> /\ Head(q).type = "CONNECT" /\ q2 = Tail(q)
          /\ Head(q) \in Frame
      BY <2>3, HeadFacts DEF Answers, Heads
    <3>2. /\ R2.session = id /\ R2.call = "poll" /\ R2.txSeq = 0 /\ R2.expect = 0
          /\ R2.partial = << >>
      BY <1>1, <2>3 DEF Answers, ResetSequence, StationState
    <3>3. Head(q) = Connect(id) /\ id \in Nat
      BY <3>1, ConstantFacts DEF Frame, Connect
    <3>4. /\ Reads(Entering("IRS"), q, Behind(q, Connect(id)), id, delivered[s])
          /\ None(q, Behind(q, Connect(id)), AckOf(0))
      BY <3>1, <3>3 DEF ReadsRight, LearnsRight
    <3>5. Evolved(q, Behind(q, Connect(id)), q2, J2, {}) BY <3>1, <3>3, BehindTail
    <3>6. {} \cap AnyData = {} OBVIOUS
    <3>7. Entering("IRS").expect = 0 /\ Entering("IRS").partial = << >> BY DEF Entering
    <3> HIDE DEF R2, q, q2, J2, id
    <3>8. Reads(R2, q2, J2, id, delivered[s])
      BY <3>2, <3>4, <3>5, <3>6, <3>7, ReadsEvolved
    <3>9. None(q2, J2, AckOf(0)) BY <3>4, <3>5, EvolvedNone
    <3> QED BY <2>3, <3>2, <3>8, <3>9, SilentLearns
  <2> QED BY <1>2, <2>1, <2>2, <2>3, Entered
<1>3. ASSUME R2.call = "listen", NEW id \in Nat
      PROVE  /\ Reads(Entering("IRS"), q2, Behind(q2, Connect(id)), id, delivered'[s])
             /\ None(q2, Behind(q2, Connect(id)), AckOf(0))
  <2>1. UNCHANGED delivered
    <3>1. R2.session = NoSession BY <1>1, <1>3 DEF WellFormed
    <3>2. InSession(s) => R.session # NoSession BY <1>1 DEF InSession, WellFormed
    <3> QED BY <3>1, <3>2, Entered
  <2>2. CASE q2 = << >>
    <3>1. Behind(q2, Connect(id)) = {} BY <2>2 DEF Behind
    <3> HIDE DEF q2
    <3>2. \A H : None(q2, {}, H) BY DEF None
    <3> QED BY <3>1, <3>2, SilentReads
  <2>3. CASE R.call = "listen"
    <3>1. PICK F : Moves(s, F) BY OutcomeKeys DEF Keys
    <3>2. /\ Reads(Entering("IRS"), q, Behind(q, Connect(id)), id, delivered[s])
          /\ None(q, Behind(q, Connect(id)), AckOf(0))
      BY <2>3 DEF ReadsRight, LearnsRight
    <3>3. Evolved(q, Behind(q, Connect(id)), q2, Behind(q2, Connect(id)), {})
      BY <3>1, BehindRests
    <3>4. {} \cap AnyData = {} OBVIOUS
    <3> HIDE DEF q, q2
    <3>5. Reads(Entering("IRS"), q2, Behind(q2, Connect(id)), id, delivered[s])
      BY <3>2, <3>3, <3>4, ReadsEvolved
    <3>6. None(q2, Behind(q2, Connect(id)), AckOf(0)) BY <3>2, <3>3, EvolvedNone
    <3> QED BY <2>1, <3>5, <3>6
  <2>4. ~Opens(s) /\ ~Answers(s)
    <3>1. Opens(s) => R2.call = "call" BY <1>1 DEF Opens, StationState
    <3>2. Answers(s) => R2.call = "poll" BY <1>1 DEF Answers, ResetSequence, StationState
    <3> QED BY <1>3, <3>1, <3>2
  <2> QED BY <1>3, <2>2, <2>3, <2>4, OutcomeSession
<1>4. ReadsRight(s)' BY <1>2, <1>3 DEF ReadsRight
<1>5. LearnsRight(s)' BY <1>0, <1>2, <1>3 DEF LearnsRight
<1> QED BY <1>4, <1>5

----------------------------------------------------------------------------
(* What the stations of a pair have told each other *)

\* From station s of the pair of c to its peer.
Carried(c, s) ==
  LET p == Peer(s)
  IN Carries(View(c, s), View(c, p), inbox[p], Live(c, p), stn[c].session, InHand(s),
             delivered[p])

\* Nothing of the session of c has been told yet.
Untold(c) ==
  /\ \A s \in Stations : \A i \in DOMAIN delivered[s] :
       delivered[s][i].session # stn[c].session
  /\ stn[Peer(c)].session = stn[c].session => stn[Peer(c)].partial = << >>

PairCarries(c) ==
  IF stn[c].call = "call" THEN Untold(c) ELSE \A s \in Stations : Carried(c, s)

CarriesInv == \A c \in Stations : Paired(c) => PairCarries(c)

LEMMA OpensCarries ==
  ASSUME BaseInv, NEW c \in Stations, Outcome(c), Opens(c)
  PROVE  PairCarries(c)'
<1>0. PICK l \in Stations : Peer(c) = l /\ l # c BY PeerFacts
<1> DEFINE x == sessions + 1
<1>1. /\ stn[c] \in StationState /\ sessions \in Nat
      /\ stn[l].session \in Nat /\ stn[l].session <= sessions
  BY <1>0, StationFacts, ConstantFacts
<1>2. stn'[c].session = x /\ stn'[c].call = "call" /\ stn'[l] = stn[l]
  BY <1>0, <1>1 DEF Opens, Moves, StationState
<1>3. x # stn[l].session /\ sessions' # sessions BY <1>1 DEF Opens
<1>4. delivered' = delivered BY <1>3 DEF Outcome
<1>5. \A s \in Stations : \A i \in DOMAIN delivered[s] :
        delivered[s][i].session <= sessions /\ delivered[s][i].session \in Nat
  <2> DEFINE T == [session : 1..MaxSessions, chunks : Seq(Body)]
  <2>0. \A t \in T : t.session \in 1..MaxSessions OBVIOUS
  <2>1. \A s \in Stations : \A i \in DOMAIN delivered[s] :
          delivered[s][i].session \in 1..MaxSessions
    <3>1. \A s \in Stations : delivered[s] \in Seq(T) BY BookFacts DEF Booked
    <3> HIDE DEF T
    <3>2. \A s \in Stations : \A i \in DOMAIN delivered[s] : delivered[s][i] \in T BY <3>1
    <3> QED BY <2>0, <3>2
  <2> QED BY <2>1, ConstantFacts DEF BaseInv, Drawn
<1>6. \A s \in Stations : \A i \in DOMAIN delivered[s] : delivered[s][i].session # x
  BY <1>1, <1>5
<1>7. Untold(c)' BY <1>0, <1>2, <1>3, <1>4, <1>6 DEF Untold
<1> QED BY <1>2, <1>7 DEF PairCarries

\* What the applications at the other station were told stays.
LEMMA OthersKept ==
  ASSUME BaseInv, NEW s \in Stations, NEW p \in Stations, p # s, Outcome(s)
  PROVE  delivered'[p] = delivered[p] /\ returned'[p] = returned[p]
<1>1. (\E D : delivered \in [Stations -> D]) /\ (\E D : returned \in [Stations -> D])
  BY BookFacts DEF Booked
<1>2. CASE TakesChunk(s) /\ UNCHANGED returned
  <2>1. \E g : delivered' = delivered \/ delivered' = [delivered EXCEPT ![s] = g]
    BY <1>2 DEF TakesChunk, Deliver
  <2> QED BY <1>1, <1>2, <2>1
<1>3. CASE Returns(s) /\ UNCHANGED delivered BY <1>1, <1>3 DEF Returns
<1> QED BY <1>2, <1>3 DEF Outcome

LEMMA ViewParts ==
  ASSUME BaseInv, NEW c \in Stations, NEW s \in Stations
  PROVE  View(c, s).call = "send" => /\ View(c, s) = stn[s] /\ stn[s].role = "ISS"
                                     /\ View(c, s).part \in 1..ChunksPerMessage
<1>1. CASE Joined(c, s)
  <2>1. View(c, s) = stn[s] BY <1>1 DEF View
  <2>2. stn[s].part \in 0..ChunksPerMessage /\ WellFormed(stn[s], Len(returned[s]))
    BY StationFacts
  <2> QED BY <2>1, <2>2, ConstantFacts DEF WellFormed
<1>2. CASE ~Joined(c, s) BY <1>2 DEF View, Entering
<1> QED BY <1>1, <1>2

\* A caller learns that its call was taken.
LEMMA JoinsCarries ==
  ASSUME BaseInv, PairInv, NEW c \in Stations, NEW l \in Stations, Peer(c) = l, Peer(l) = c,
         l # c, Paired(c), Untold(c), Joins(c), UNCHANGED <<delivered, returned>>
  PROVE  Carried(c, c)' /\ Carried(c, l)'
<1> DEFINE x == stn[c].session
           A == AnyData \cup AnyAck \cup Grant
           P == View(c, l)
<1>1. /\ None(inbox'[c], DOMAIN inbox'[c], A)
      /\ stn'[c].session = x /\ stn'[c].call = "poll" /\ stn'[c].partial = << >>
  BY JoinsSilent
<1>2. Moves(c, {}) /\ stn[c].call = "call" /\ stn'[l] = stn[l] BY DEF Joins, Moves
<1>3. (Joined(c, l)' <=> Joined(c, l)) /\ View(c, l)' = P
  <2>1. (Joined(c, l)' <=> Joined(c, l)) BY <1>1, <1>2 DEF Joined
  <2> QED BY <1>2, <2>1 DEF View
<1>4. Joined(c, c)' /\ View(c, c)' = stn'[c] /\ Live(c, c)' = DOMAIN inbox'[c]
  BY <1>1 DEF Joined, View, Live
<1>5. Early(c) /\ PairTalk(c) BY DEF PairInv
<1>6. None(inbox'[l], Live(c, l)', AnyData)
  <2>1. Evolved(inbox[l], Live(c, l), inbox'[l], Live(c, l)', {})
    BY <1>1, <1>2, <1>3, LiveGrows
  <2>2. None(inbox[l], Live(c, l), AnyData) BY <1>2, <1>5, NoneFewer DEF Early
  <2> QED BY <2>1, <2>2, EvolvedNone
<1>7. P.partial = << >>
  <2>1. CASE Joined(c, l) BY <2>1 DEF View, Joined, Untold
  <2>2. CASE ~Joined(c, l) BY <2>2 DEF View, Entering
  <2> QED BY <2>1, <2>2
<1>8. P.call # "send"
  <2> SUFFICES ASSUME P.call = "send" PROVE FALSE OBVIOUS
  <2>1. P.role = "ISS" BY ViewParts
  <2>2. View(c, c).role = "ISS" BY <1>2 DEF View, Joined, Entering
  <2> QED BY <1>5, <2>1, <2>2 DEF PairTalk, Talk, Speaking, Owns
<1>9. /\ \A i \in DOMAIN delivered'[l] : delivered'[l][i].session # x
      /\ \A i \in DOMAIN delivered'[c] : delivered'[c][i].session # x
  BY DEF Untold
<1>10. Carries(stn'[c], P, inbox'[l], Live(c, l)', x, InHand(c)', delivered'[l])
  BY <1>1, <1>6, <1>7, <1>9, CarriesStart
<1>11. Carries(P, stn'[c], inbox'[c], DOMAIN inbox'[c], x, InHand(l)', delivered'[c])
  <2>1. None(inbox'[c], DOMAIN inbox'[c], AnyData) BY <1>1, NoneFewer
  <2> QED BY <1>1, <1>8, <1>9, <2>1, CarriesStart
<1>12. Carried(c, c)' BY <1>1, <1>3, <1>4, <1>10 DEF Carried
<1>13. Carried(c, l)' BY <1>1, <1>3, <1>4, <1>11 DEF Carried
<1> QED BY <1>12, <1>13

LEMMA CallerCarries ==
  ASSUME BaseInv, BaseInv', HandshakeInv, PairInv, MessagesIntact, CarriesInv,
         NEW c \in Stations, Outcome(c), ~Opens(c), Paired(c)'
  PROVE  PairCarries(c)'
<1>0. PICK l \in Stations : /\ Peer(c) = l /\ l # c /\ Peer(l) = c
                            /\ \A t \in Stations : t = c \/ t = l
  BY PeerFacts
<1> DEFINE R == stn[c]
           x == stn[c].session
           P == View(c, l)
<1>1. WellFormed(R, Len(returned[c])) BY StationFacts
<1>2. /\ Caller(c) /\ stn'[c].session = x
      /\ stn'[c].call = "call" => R.call = "call"
      /\ R.call = "call" /\ stn'[c].call # "call" => Joins(c)
  <2>1. Caller(c)' BY DEF Paired
  <2> QED BY <2>1, CallerStays
<1>3. Paired(c) /\ PairCarries(c) /\ PairTalk(c) BY CallerPaired DEF CarriesInv, PairInv
<1>4. PICK F : Moves(c, F) BY OutcomeKeys DEF Keys
<1>5. stn'[l] = stn[l] BY <1>0, <1>4 DEF Moves
<1>6. (Joined(c, l)' <=> Joined(c, l)) /\ View(c, l)' = P
  <2>1. (Joined(c, l)' <=> Joined(c, l)) BY <1>0, <1>2, <1>5 DEF Joined
  <2> QED BY <1>0, <1>5, <2>1 DEF View
<1>7. CASE R.call = "call"
  <2>1. Untold(c) BY <1>3, <1>7 DEF PairCarries
  <2>2. UNCHANGED <<delivered, returned>>
    <3>1. ~InSession(c) BY <1>1, <1>7 DEF WellFormed, InSession
    <3> QED BY <3>1, Entered
  <2>3. CASE stn'[c].call = "call"
    <3>1. Untold(c)' BY <1>0, <1>2, <1>5, <2>1, <2>2 DEF Untold
    <3> QED BY <2>3, <3>1 DEF PairCarries
  <2>4. CASE stn'[c].call # "call"
    <3>1. Carried(c, c)' /\ Carried(c, l)'
      BY <1>0, <1>2, <1>3, <1>7, <2>1, <2>2, <2>4, JoinsCarries
    <3> QED BY <1>0, <2>4, <3>1 DEF PairCarries
  <2> QED BY <2>3, <2>4
<1>8. CASE R.call # "call"
  <2>1. stn'[c].call # "call" BY <1>2, <1>8
  <2>2. InSession(c) BY <1>1, <1>2, <1>8 DEF Caller, WellFormed, InSession
  <2>3. View(c, c) = R /\ View(c, c)' = stn'[c] BY <1>8, <2>1 DEF View, Joined
  <2>4. Live(c, c) = DOMAIN inbox[c] /\ Live(c, c)' = DOMAIN inbox'[c]
    BY <1>8, <2>1 DEF Live, Joined
  <2>5. Talk(R, P, inbox[c], DOMAIN inbox[c], inbox[l], Live(c, l), TRUE)
    BY <1>0, <1>3, <2>3, <2>4 DEF PairTalk
  <2>6. /\ Carries(R, P, inbox[l], Live(c, l), x, InHand(c), delivered[l])
        /\ Carries(P, R, inbox[c], DOMAIN inbox[c], x, InHand(l), delivered[c])
    <3>1. Carried(c, c) /\ Carried(c, l) BY <1>3, <1>8 DEF PairCarries
    <3> QED BY <1>0, <2>3, <2>4, <3>1 DEF Carried
  <2>7. InHand(l)' = InHand(l) BY <1>0, OthersKept DEF InHand
  <2>8. \A G : Moves(c, G) => Evolved(inbox[l], Live(c, l), inbox'[l], Live(c, l)', G)
    BY <1>0, <1>2, <1>6, LiveGrows
  <2>9. P.call = "send" => P.part \in 1..ChunksPerMessage BY ViewParts
  <2>10. InHand(l) \in Nat /\ TRUE \in BOOLEAN BY StationFacts DEF InHand
  <2>11. /\ Carries(stn'[c], P, inbox'[l], Live(c, l)', x, InHand(c)', delivered'[l])
         /\ Carries(P, stn'[c], inbox'[c], DOMAIN inbox'[c], x, InHand(l), delivered'[c])
    <3> HIDE DEF P
    <3> QED BY <1>0, <1>2, <2>2, <2>5, <2>6, <2>8, <2>9, <2>10, RealCarries
  <2>12. Carried(c, c)' BY <1>0, <1>2, <1>6, <2>3, <2>11 DEF Carried
  <2>13. Carried(c, l)' BY <1>0, <1>2, <1>6, <2>3, <2>4, <2>7, <2>11 DEF Carried
  <2> QED BY <1>0, <2>1, <2>12, <2>13 DEF PairCarries
<1> QED BY <1>7, <1>8

\* While the caller waits nothing of its session is told.
LEMMA CalledUntold ==
  ASSUME BaseInv, BaseInv', HandshakeInv, PairInv, NEW c \in Stations, NEW l \in Stations,
         l # c, Peer(c) = l, Peer(l) = c, Outcome(l), Paired(c), stn[c].call = "call",
         Untold(c), stn'[c] = stn[c]
  PROVE  Untold(c)'
<1> DEFINE R == stn[l]
           x == stn[c].session
           f == Head(inbox[l])
<1>1. R \in StationState /\ \A t \in Stations : t = c \/ t = l
  BY StationFacts, PeerFacts
<1>2. Caller(c) BY DEF Paired
<1>3. ASSUME Takes(l) PROVE R.session # x
  <2> SUFFICES ASSUME R.session = x PROVE FALSE OBVIOUS
  <2>1. inbox[l] # << >> /\ f \in AnyData BY <1>3 DEF Takes
  <2>2. Live(c, l) = DOMAIN inbox[l] BY DEF Live, Joined
  <2>3. None(inbox[l], DOMAIN inbox[l], AnyData)
    <3>1. Early(c) BY DEF PairInv
    <3> QED BY <2>2, <3>1, NoneFewer DEF Early
  <2>4. 1 \in DOMAIN inbox[l] /\ inbox[l][1] = f
    <3> DEFINE Q == Frame
    <3>1. inbox[l] \in Seq(Q) BY StationFacts
    <3> HIDE DEF Q
    <3> QED BY <2>1, <3>1, HeadTailProperties
  <2> QED BY <2>1, <2>3, <2>4 DEF None
<1>4. \/ UNCHANGED delivered
      \/ R.session # x /\ \E b : delivered' = [delivered EXCEPT ![l] = Given(f, b, R.session, @)]
  <2>1. CASE InSession(l) /\ stn'[l].session = R.session
    <3>1. CASE Takes(l) BY <1>3, <3>1 DEF Takes
    <3>2. CASE Passes(l) \/ KeysChunk(l) \/ Acked(l)
      BY <3>2 DEF Passes, KeysChunk, Acked
    <3> QED BY <2>1, <3>1, <3>2, SessionSteps
  <2> QED BY <2>1, Entered
<1>5. \A t \in Stations : \A i \in DOMAIN delivered'[t] : delivered'[t][i].session # x
  <2>0. \A t \in Stations : \A i \in DOMAIN delivered[t] : delivered[t][i].session # x
    BY DEF Untold
  <2>1. CASE UNCHANGED delivered BY <2>0, <2>1
  <2>2. CASE R.session # x /\ \E b : delivered' = [delivered EXCEPT ![l] = Given(f, b, R.session, @)]
    <3>1. PICK b : delivered' = [delivered EXCEPT ![l] = Given(f, b, R.session, @)] BY <2>2
    <3> DEFINE d == delivered[l]
               e == Given(f, b, R.session, d)
               g == [session |-> R.session, chunks |-> Append(b, f.body)]
               T == [session : 1..MaxSessions, chunks : Seq(Body)]
    <3>2. delivered'[c] = delivered[c] BY OthersKept
    <3>3. d \in Seq(T) /\ delivered'[l] \in Seq(T)
      BY BookFacts DEF Booked, BaseInv, TypeOK
    <3>4. delivered'[l] = e
      <4> HIDE DEF e
      <4>1. \E D : delivered \in [Stations -> D] BY BookFacts DEF Booked
      <4>2. delivered' = [delivered EXCEPT ![l] = e] BY <3>1 DEF e
      <4> QED BY <4>1, <4>2
    <3>5. g.session # x BY <2>2
    <3>6. e = IF f.eof THEN Append(d, g) ELSE d BY DEF Given
    <3> HIDE DEF T, e, g, d
    <3>7. \A i \in DOMAIN d : d[i].session # x BY <2>0 DEF d
    <3>8. \A i \in DOMAIN e : e[i].session # x
      <4>1. CASE f.eof
        <5>1. e = Append(d, g) BY <3>6, <4>1
        <5>2. \A i \in DOMAIN e : e[i] = g \/ (i \in DOMAIN d /\ e[i] = d[i])
          BY <3>3, <5>1
        <5> QED BY <3>5, <3>7, <5>2
      <4>2. CASE ~f.eof BY <3>6, <3>7, <4>2
      <4> QED BY <4>1, <4>2
    <3> QED BY <1>1, <2>0, <3>2, <3>4, <3>8
  <2> QED BY <1>4, <2>1, <2>2
<1>6. ASSUME stn'[l].session = x PROVE stn'[l].partial = << >>
  <2>1. CASE R.session = x
    <3>1. R.partial = << >> BY <2>1 DEF Untold
    <3>2. InSession(l) BY <1>2, <2>1, CalledSession
    <3>3. Passes(l) \/ KeysChunk(l) \/ Acked(l)
      BY <1>3, <1>6, <2>1, <3>2, SessionSteps
    <3> QED BY <3>1, <3>3 DEF Passes, KeysChunk, Acked
  <2>2. CASE R.session # x
    <3>1. Answers(l)
      <4>1. x # NoSession BY <1>2 DEF Caller
      <4> QED BY <1>2, <1>6, <2>2, <4>1, CalledSession, OutcomeSession
    <3> QED BY <1>1, <3>1 DEF Answers, ResetSequence, StationState
  <2> QED BY <2>1, <2>2
<1> QED BY <1>5, <1>6 DEF Untold

LEMMA CalledCarries ==
  ASSUME BaseInv, BaseInv', HandshakeInv, PairInv, MessagesIntact, CarriesInv,
         NEW c \in Stations, NEW l \in Stations, l # c, Peer(c) = l, Peer(l) = c,
         Outcome(l), Paired(c)'
  PROVE  PairCarries(c)'
<1> DEFINE R == stn[l]
           R2 == stn'[l]
           C == stn[c]
           x == stn[c].session
           E == Entering("IRS")
<1>1. /\ R \in StationState /\ WellFormed(R, Len(returned[l]))
      /\ \A t \in Stations : t = c \/ t = l
  BY StationFacts, PeerFacts
<1>2. PICK F : Keys(l, F) BY OutcomeKeys
<1>3. Moves(l, F) /\ stn'[c] = C BY <1>2 DEF Keys, Moves
<1>4. Caller(c) /\ x # NoSession BY <1>3 DEF Paired, Caller
<1>5. Paired(c) /\ PairCarries(c) /\ PairTalk(c)
  BY <1>4, CalledSession DEF CarriesInv, PairInv
<1>6. CASE C.call = "call"
  <2>1. Untold(c)' BY <1>3, <1>5, <1>6, CalledUntold DEF PairCarries
  <2> QED BY <1>3, <1>6, <2>1 DEF PairCarries
<1>7. CASE C.call # "call"
  <2>1. /\ View(c, c) = C /\ View(c, c)' = C
        /\ (Joined(c, l) <=> R.session = x) /\ (Joined(c, l)' <=> R2.session = x)
    BY <1>3, <1>7 DEF View, Joined
  <2>2. Carried(c, c) /\ Carried(c, l) BY <1>5, <1>7 DEF PairCarries
  <2>3. InHand(c)' = InHand(c) /\ delivered'[c] = delivered[c] BY OthersKept DEF InHand
  <2>4. \A G : Moves(l, G) => Evolved(inbox[c], Live(c, c), inbox'[c], Live(c, c)', G)
    <3>1. Joined(c, c)' => Joined(c, c) BY <1>3 DEF Joined
    <3> QED BY <1>3, <3>1, LiveGrows
  <2>5. Talk(View(c, l), C, inbox[l], Live(c, l), inbox[c], Live(c, c), FALSE)
    <3>1. TRUE \in BOOLEAN /\ ~TRUE = FALSE OBVIOUS
    <3> QED BY <1>5, <2>1, <3>1, TalkSwaps DEF PairTalk
  <2>6. CASE R.session = x /\ R2.session = x
    <3>1. /\ View(c, l) = R /\ View(c, l)' = R2
          /\ Live(c, l) = DOMAIN inbox[l] /\ Live(c, l)' = DOMAIN inbox'[l]
      BY <2>1, <2>6 DEF View, Live
    <3>2. InSession(l) BY <1>4, <2>6, CalledSession
    <3>3. /\ Carries(R, C, inbox[c], Live(c, c), x, InHand(l), delivered[c])
          /\ Carries(C, R, inbox[l], DOMAIN inbox[l], x, InHand(c), delivered[l])
      BY <2>1, <2>2, <3>1 DEF Carried
    <3>4. Talk(R, C, inbox[l], DOMAIN inbox[l], inbox[c], Live(c, c), FALSE) BY <2>5, <3>1
    <3>5. C.call = "send" => C.part \in 1..ChunksPerMessage BY <2>1, ViewParts
    <3>6. InHand(c) \in Nat /\ FALSE \in BOOLEAN BY StationFacts DEF InHand
    <3>7. /\ Carries(R2, C, inbox'[c], Live(c, c)', x, InHand(l)', delivered'[c])
          /\ Carries(C, R2, inbox'[l], DOMAIN inbox'[l], x, InHand(c), delivered'[l])
      <4> HIDE DEF C
      <4>1. /\ Carries(R, C, inbox[c], Live(c, c), R.session, InHand(l), delivered[c])
            /\ Carries(C, R, inbox[l], DOMAIN inbox[l], R.session, InHand(c), delivered[l])
            /\ R2.session = R.session
        BY <2>6, <3>3
      <4>2. /\ Carries(R2, C, inbox'[c], Live(c, c)', R.session, InHand(l)', delivered'[c])
            /\ Carries(C, R2, inbox'[l], DOMAIN inbox'[l], R.session, InHand(c), delivered'[l])
        BY <2>4, <3>2, <3>4, <3>5, <3>6, <4>1, RealCarries
      <4> QED BY <2>6, <4>2
    <3>8. Carried(c, c)' BY <1>3, <2>1, <2>3, <3>1, <3>7 DEF Carried
    <3>9. Carried(c, l)' BY <1>3, <2>1, <3>1, <3>7 DEF Carried
    <3> QED BY <1>1, <1>3, <1>7, <3>8, <3>9 DEF PairCarries
  <2>7. ~(R.session = x /\ R2.session # x)
    <3> SUFFICES ASSUME R.session = x, R2.session # x PROVE FALSE OBVIOUS
    <3>1. ~Answers(l) /\ R.call # "listen"
      BY <1>1, <1>4 DEF Answers, WellFormed
    <3>2. R2.call = "listen" => inbox'[l] = << >>
      BY <1>4, <3>1, CalledSession, OutcomeSession
    <3>3. inbox'[l] = << >> => CallIds(l)' = {} BY DEF CallIds, Ids
    <3> QED BY <1>3, <1>7, <3>2, <3>3 DEF Paired
  <2>8. CASE R.session # x
    <3>0. /\ R.call = "listen" /\ ~InSession(l) /\ View(c, l) = E
          /\ UNCHANGED <<delivered, returned>>
      <4>1. R.call = "listen" BY <1>5, <1>7, <2>8 DEF Paired
      <4>2. ~InSession(l) BY <1>1, <4>1 DEF WellFormed, InSession
      <4>3. View(c, l) = E BY <2>1, <2>8 DEF View
      <4> QED BY <4>1, <4>2, <4>3, Entered
    <3>1. Evolved(inbox[c], Live(c, c), inbox'[c], Live(c, c)', F) /\ F \cap AnyData = {}
      <4>1. F \subseteq Idle BY <1>2, <3>0 DEF Keys
      <4> QED BY <1>3, <2>4, <4>1, KindsApart
    <3>2. /\ Evolved(inbox[l], Live(c, l), inbox'[l], Live(c, l)', {})
          /\ View(c, l)'.call = "poll" /\ View(c, l)'.txSeq = 0
          /\ View(c, l)'.expect = 0 /\ View(c, l)'.partial = << >>
      <4>1. CASE R2.session = x
        <5>1. Answers(l) BY <1>4, <2>8, <4>1, CalledSession, OutcomeSession
        <5>2. /\ Moves(l, {ConnectAck(x)}) /\ inbox[l] # << >> /\ inbox'[l] = Tail(inbox[l])
              /\ Head(inbox[l]).type = "CONNECT" /\ Head(inbox[l]).session = x
          <6>1. Head(inbox[l]).session = x BY <1>4, <4>1, <5>1, CalledSession
          <6> QED BY <5>1, <6>1 DEF Answers, Heads
        <5>3. Head(inbox[l]) = Opening(c, l)
          <6>1. Head(inbox[l]) \in Frame BY <5>2, HeadFacts
          <6> QED BY <5>2, <6>1 DEF Frame, Opening, Connect
        <5>4. Evolved(inbox[l], Live(c, l), inbox'[l], Live(c, l)', {})
          BY <1>3, <5>2, <5>3, LiveRests
        <5>5. View(c, l)' = R2 BY <2>1, <4>1 DEF View
        <5>6. R2.call = "poll" /\ R2.txSeq = 0 /\ R2.expect = 0 /\ R2.partial = << >>
          BY <1>1, <5>1 DEF Answers, ResetSequence, StationState
        <5> QED BY <5>4, <5>5, <5>6
      <4>2. CASE R2.session # x
        <5>1. Evolved(inbox[l], Live(c, l), inbox'[l], Live(c, l)', {})
          BY <1>3, <2>1, <4>2, LiveRests
        <5>2. View(c, l)' = E BY <2>1, <4>2 DEF View
        <5> QED BY <5>1, <5>2 DEF Entering
      <4> QED BY <4>1, <4>2
    <3>3. E.call = "poll" /\ E.txSeq = 0 /\ E.expect = 0 /\ E.partial = << >> BY DEF Entering
    <3>4. None(inbox[c], Live(c, c), DataOf(0))
      BY <2>5, <3>0, <3>3 DEF Talk, Counters
    <3>5. /\ Carries(C, E, inbox[l], Live(c, l), x, InHand(c), delivered[l])
          /\ Carries(E, C, inbox[c], Live(c, c), x, InHand(l), delivered[c])
      BY <2>1, <2>2, <3>0 DEF Carried
    <3> DEFINE V == View(c, l)'
               n == InHand(c)
               k == InHand(l)
    <3>6. /\ Carries(C, V, inbox'[l], Live(c, l)', x, n, delivered[l])
          /\ Carries(V, C, inbox'[c], Live(c, c)', x, k, delivered[c])
      <4> HIDE DEF C, E, x, V, n, k
      <4>1. {} \cap AnyData = {} OBVIOUS
      <4>2. /\ Carries(C, E, inbox[l], Live(c, l), x, n, delivered[l])
            /\ Carries(E, C, inbox[c], Live(c, c), x, k, delivered[c])
        BY <3>5 DEF n, k
      <4>3. V.call = "poll" /\ V.txSeq = 0 /\ V.expect = 0 /\ V.partial = << >>
        BY <3>2 DEF V
      <4>4. Carries(C, V, inbox'[l], Live(c, l)', x, n, delivered[l])
        BY <3>2, <3>3, <4>1, <4>2, <4>3, CarriesCalm
      <4>5. Carries(V, C, inbox'[c], Live(c, c)', x, k, delivered[c])
        BY <3>1, <3>3, <3>4, <4>2, <4>3, CarriesCalm
      <4> QED BY <4>4, <4>5
    <3>7. InHand(l)' = k /\ InHand(c)' = n /\ delivered' = delivered BY <3>0 DEF InHand
    <3>8. Carried(c, c)' BY <1>3, <2>1, <3>6, <3>7 DEF Carried
    <3>9. Carried(c, l)' BY <1>3, <2>1, <3>6, <3>7 DEF Carried
    <3> QED BY <1>1, <1>3, <1>7, <3>8, <3>9 DEF PairCarries
  <2> QED BY <2>6, <2>7, <2>8
<1> QED BY <1>6, <1>7

LEMMA OutcomeKeepsCarries ==
  ASSUME BaseInv, BaseInv', HandshakeInv, PairInv, MessagesIntact, CarriesInv,
         NEW s \in Stations, Outcome(s)
  PROVE  CarriesInv'
<1> SUFFICES ASSUME NEW c \in Stations, Paired(c)' PROVE PairCarries(c)'
  BY DEF CarriesInv
<1>0. PICK l \in Stations : Peer(c) = l /\ l # c /\ Peer(l) = c /\ (s = c \/ s = l)
  BY PeerFacts
<1>1. CASE s = c /\ Opens(c) BY <1>1, OpensCarries
<1>2. CASE s = c /\ ~Opens(c) BY <1>2, CallerCarries
<1>3. CASE s = l BY <1>0, <1>3, CalledCarries
<1> QED BY <1>0, <1>1, <1>2, <1>3

----------------------------------------------------------------------------
(* What the applications are told *)

LEMMA HasStill ==
  ASSUME NEW f, NEW b, NEW id, NEW T, NEW d \in Seq(T),
         [session |-> id, chunks |-> Append(b, f.body)] \in T,
         NEW k, NEW m, Has(d, k, m)
  PROVE  Has(Given(f, b, id, d), k, m)
<1> DEFINE g == [session |-> id, chunks |-> Append(b, f.body)]
<1>1. CASE ~f.eof BY <1>1 DEF Given
<1>2. CASE f.eof
  <2>1. Given(f, b, id, d) = Append(d, g) BY <1>2 DEF Given
  <2>2. g \in T OBVIOUS
  <2> HIDE DEF g
  <2>3. /\ DOMAIN d \subseteq DOMAIN Append(d, g)
        /\ \A i \in DOMAIN d : Append(d, g)[i] = d[i]
    BY <2>2, AppendFacts
  <2> QED BY <2>1, <2>3 DEF Has
<1> QED BY <1>1, <1>2

\* What a fresh chunk adds is of the types told.
LEMMA TakenTyped ==
  ASSUME BaseInv, NEW s \in Stations, InSession(s), NEW f \in AnyData
  PROVE  [session |-> stn[s].session, chunks |-> Append(stn[s].partial, f.body)]
           \in [session : 1..MaxSessions, chunks : Seq(Body)]
<1> DEFINE B == Body
           b == stn[s].partial
           g == f.body
<1>1. b \in Seq(B) /\ g \in B BY StationFacts, DataFields DEF AnyData
<1>2. Append(b, g) \in Seq(B)
  <2> HIDE DEF B, b, g
  <2> QED BY <1>1
<1>3. stn[s].session \in 1..MaxSessions
  BY StationFacts, ConstantFacts DEF InSession, WellFormed, NoSession
<1> QED BY <1>2, <1>3

LEMMA OwnBooks ==
  ASSUME BaseInv, BaseInv', MessagesIntact, ReturnMeansDelivered, NEW s \in Stations,
         Outcome(s), ReadsRight(s), LearnsRight(s)
  PROVE  MessagesIntact' /\ ReturnMeansDelivered'
<1>0. PICK p \in Stations : /\ Peer(s) = p /\ Peer(p) = s /\ p # s
                            /\ \A t \in Stations : t = s \/ t = p
  BY PeerFacts
<1> DEFINE R == stn[s]
           id == R.session
           b == R.partial
           d == delivered[s]
           f == Head(inbox[s])
           T == [session : 1..MaxSessions, chunks : Seq(Body)]
<1>1. ASSUME UNCHANGED <<delivered, returned>>
      PROVE  MessagesIntact' /\ ReturnMeansDelivered'
  BY <1>1 DEF MessagesIntact, ReturnMeansDelivered
<1>2. CASE InSession(s) /\ Acked(s)
  <2>1. /\ delivered' = delivered
        /\ \/ UNCHANGED returned
           \/ /\ inbox[s] # << >> /\ f \in AckOf(R.txSeq) /\ inbox'[s] = Tail(inbox[s])
              /\ R.call = "send" /\ R.part = ChunksPerMessage
              /\ returned' = [returned EXCEPT ![s] = Append(@, id)]
    BY <1>2 DEF Acked
  <2>2. MessagesIntact' BY <2>1 DEF MessagesIntact
  <2>3. CASE UNCHANGED returned BY <1>1, <2>1, <2>3
  <2>4. CASE returned' # returned
    <3> DEFINE Q == 1..MaxSessions
               v == returned[s]
               w == returned'[s]
    <3>1. Has(delivered[p], id, InHand(s))
      <4>1. 1 \in DOMAIN inbox[s] /\ inbox[s][1] \in AckOf(R.txSeq)
        BY <2>1, <2>4, OwnShifts DEF Shifted
      <4>2. ~None(inbox[s], DOMAIN inbox[s], AckOf(R.txSeq)) BY <4>1 DEF None
      <4> QED BY <1>0, <1>2, <2>1, <2>4, <4>2 DEF LearnsRight, Learns
    <3>2. returned \in [Stations -> Seq(Q)] /\ v \in Seq(Q) /\ id \in Q
      BY <1>2, BookFacts, StationFacts, ConstantFacts
         DEF Booked, InSession, WellFormed, NoSession
    <3>3. w = Append(v, id) /\ returned'[p] = returned[p]
      <4>1. returned' = [returned EXCEPT ![s] = Append(@, id)] BY <2>1, <2>4
      <4> HIDE DEF Q, id
      <4> QED BY <1>0, <3>2, <4>1
    <3>4. \A m \in DOMAIN w : \/ m \in DOMAIN v /\ w[m] = v[m]
                              \/ m = Len(v) + 1 /\ w[m] = id
      <4> HIDE DEF Q, id, v, w
      <4>1. DOMAIN w = DOMAIN v \cup {Len(v) + 1} /\ w[Len(v) + 1] = id
            /\ \A m \in DOMAIN v : w[m] = v[m]
        BY <3>2, <3>3, AppendFacts
      <4> QED BY <4>1
    <3>5. \A m \in DOMAIN w : Has(delivered[p], w[m], m)
      <4>1. \A m \in DOMAIN v : Has(delivered[p], v[m], m)
        BY <1>0 DEF ReturnMeansDelivered, Has
      <4> QED BY <3>1, <3>4, <4>1 DEF InHand
    <3>6. \A m \in DOMAIN returned'[p] : Has(delivered[s], returned'[p][m], m)
      BY <1>0, <3>3 DEF ReturnMeansDelivered, Has
    <3>7. ReturnMeansDelivered'
      <4>1. \A t \in Stations : \A m \in DOMAIN returned'[t] :
              Has(delivered'[Peer(t)], returned'[t][m], m)
        <5> HIDE DEF b, d, f, Q, v
        <5> QED BY <1>0, <2>1, <3>5, <3>6
      <4> QED BY <4>1 DEF ReturnMeansDelivered, Has
    <3> QED BY <2>2, <3>7
  <2> QED BY <2>3, <2>4
<1>3. CASE InSession(s) /\ Takes(s)
  <2>1. /\ returned' = returned /\ f \in AnyData /\ inbox[s] # << >>
        /\ inbox'[s] = Tail(inbox[s])
        /\ IF f.seq = R.expect
           THEN delivered' = [delivered EXCEPT ![s] = Given(f, b, id, @)]
           ELSE UNCHANGED delivered
    BY <1>3 DEF Takes
  <2>2. CASE f.seq # R.expect BY <1>1, <2>1, <2>2
  <2>3. CASE f.seq = R.expect
    <3> DEFINE e == Given(f, b, id, d)
    <3>1. delivered'[s] = e /\ delivered'[p] = delivered[p]
      <4>1. \E D : delivered \in [Stations -> D] BY BookFacts DEF Booked
      <4>2. delivered' = [delivered EXCEPT ![s] = e] BY <2>1, <2>3
      <4> HIDE DEF e
      <4> QED BY <1>0, <4>1, <4>2
    <3>2. d \in Seq(T) BY BookFacts DEF Booked
    <3>3. [session |-> id, chunks |-> Append(b, f.body)] \in T BY <1>3, <2>1, TakenTyped
    <3>4. Fits(f, b, id, d)
      <4>1. 1 \in DOMAIN inbox[s] /\ inbox[s][1] = f BY <2>1, OwnShifts DEF Shifted
      <4>2. f \in DataOf(R.expect) BY <2>1, <2>3 DEF DataOf
      <4> QED BY <1>3, <4>1, <4>2 DEF ReadsRight, Reads
    <3>5. Intact(d) /\ Intact(delivered[p]) BY DEF MessagesIntact, Intact
    <3>6. Intact(e)
      <4> HIDE DEF T, id, b, d, f
      <4> QED BY <2>1, <3>2, <3>3, <3>4, <3>5, IntactGiven
    <3>7. MessagesIntact' BY <1>0, <3>1, <3>5, <3>6 DEF MessagesIntact, Intact
    <3>8. \A k, m : Has(d, k, m) => Has(e, k, m)
      <4> HIDE DEF T, id, b, d, f
      <4> QED BY <3>2, <3>3, HasStill
    <3>9. /\ \A m \in DOMAIN returned[s] : Has(delivered[p], returned[s][m], m)
          /\ \A m \in DOMAIN returned[p] : Has(d, returned[p][m], m)
      BY <1>0 DEF ReturnMeansDelivered, Has
    <3> HIDE DEF e, d
    <3>10. ReturnMeansDelivered'
      <4>1. /\ \A m \in DOMAIN returned'[s] : Has(delivered'[p], returned'[s][m], m)
            /\ \A m \in DOMAIN returned'[p] : Has(delivered'[s], returned'[p][m], m)
        BY <2>1, <3>1, <3>8, <3>9
      <4>2. \A t \in Stations : \A m \in DOMAIN returned'[t] :
              Has(delivered'[Peer(t)], returned'[t][m], m)
        BY <1>0, <4>1
      <4> QED BY <4>2 DEF ReturnMeansDelivered, Has
    <3> QED BY <3>7, <3>10
  <2> QED BY <2>2, <2>3
<1>4. CASE Passes(s) \/ KeysChunk(s) BY <1>1, <1>4 DEF Passes, KeysChunk
<1> QED BY <1>1, <1>2, <1>3, <1>4, Entered, SessionSteps

----------------------------------------------------------------------------
(* What a station is told by its peer *)

LEMMA PeerGrows ==
  ASSUME BaseInv, NEW s \in Stations, NEW F, Moves(s, F), NEW p \in Stations, p = Peer(s)
  PROVE  Evolved(inbox[p], DOMAIN inbox[p], inbox'[p], DOMAIN inbox'[p], F)
<1> DEFINE q == inbox[p]
           r == inbox'[p]
<1>1. q \in Seq(Frame) /\ r \in Seq(Frame) /\ Grown(q, r, F)
  BY StationFacts DEF Moves
<1>2. /\ DOMAIN q = 1..Len(q) /\ DOMAIN r = 1..Len(r) /\ Len(q) \in Nat /\ Len(r) \in Nat
      /\ \A j \in 1..Len(r) : IF j <= Len(q) THEN r[j] = q[j] ELSE r[j] \in F
  BY <1>1 DEF Grown
<1> HIDE DEF q, r
<1>3. \A j \in DOMAIN r : /\ j \in Nat
                          /\ IF j <= Len(q) THEN j + 0 \in DOMAIN q /\ r[j] = q[j + 0]
                             ELSE r[j] \in F
  <2> TAKE j \in DOMAIN r
  <2>1. j \in 1..Len(r) /\ j + 0 = j BY <1>2
  <2> QED BY <1>2, <2>1
<1>4. 0 \in Nat /\ Len(q) \in Nat BY <1>2
<1> QED BY <1>3, <1>4 DEF Evolved, q, r

LEMMA PartsLater ==
  ASSUME BaseInv', NEW s \in Stations
  PROVE  stn'[s].call = "send" => stn'[s].part \in 1..ChunksPerMessage
<1>1. stn'[s] \in StationState /\ WellFormed(stn'[s], Len(returned'[s]))
  BY DEF BaseInv, TypeOK, Shape
<1>2. stn'[s].part \in 0..ChunksPerMessage BY <1>1 DEF StationState
<1> QED BY <1>1, <1>2, ConstantFacts DEF WellFormed

\* In a session of both, ...
LEMMA ToldTogether ==
  ASSUME BaseInv', PairInv', CarriesInv', NEW s \in Stations, NEW p \in Stations,
         p # s, Peer(s) = p, Peer(p) = s, NEW c \in {s, p}, Caller(c)',
         stn'[s].session = stn'[p].session, stn'[s].call # "call",
         stn'[p].call \notin {"call", "disc"}
  PROVE  /\ Reads(stn'[s], inbox'[s], DOMAIN inbox'[s], stn'[s].session, delivered'[s])
         /\ Learns(stn'[s], inbox'[s], DOMAIN inbox'[s], stn'[s].session, InHand(s)',
                   delivered'[p])
<1> DEFINE S == stn'[s]
           P == stn'[p]
           q == inbox'[s]
           x == inbox'[p]
           J == DOMAIN q
           K == DOMAIN x
           id == S.session
<1>1. Paired(c)' BY DEF Paired
<1>2. PairTalk(c)' /\ PairCarries(c)' BY <1>1 DEF PairInv, CarriesInv
<1>3. Joined(c, s)' /\ Joined(c, p)' BY DEF Joined
<1>4. View(c, s)' = S /\ View(c, p)' = P /\ Live(c, s)' = J /\ Live(c, p)' = K
  BY <1>3 DEF View, Live
<1>5. Counters(P, S, x, K, q, J) /\ Counters(S, P, q, J, x, K) /\ P.txSeq \in SeqNo
  <2>1. CASE c = s
    <3>1. Talk(S, P, q, J, x, K, TRUE) BY <1>2, <1>4, <2>1 DEF PairTalk
    <3> QED BY <3>1 DEF Talk
  <2>2. CASE c = p
    <3>1. Talk(P, S, x, K, q, J, TRUE) BY <1>2, <1>4, <2>2 DEF PairTalk
    <3> QED BY <3>1 DEF Talk
  <2> QED BY <2>1, <2>2
<1>6. Carried(c, s)' /\ Carried(c, p)'
  <2>1. stn'[c].call # "call" OBVIOUS
  <2> QED BY <1>2, <2>1 DEF PairCarries
<1>7. stn'[c].session = id OBVIOUS
<1>8. /\ Carries(P, S, q, J, id, InHand(p)', delivered'[s])
      /\ Carries(S, P, x, K, id, InHand(s)', delivered'[p])
  BY <1>4, <1>6, <1>7 DEF Carried
<1>9. P.call = "send" => P.part \in 1..ChunksPerMessage BY PartsLater
<1>10. P.call # "disc" OBVIOUS
<1> HIDE DEF S, P, q, x, J, K, id
<1>11. Reads(S, q, J, id, delivered'[s]) BY <1>5, <1>8, <1>9, <1>10, CarriesReads
<1>12. Learns(S, q, J, id, InHand(s)', delivered'[p]) BY <1>5, <1>8, CarriesLearns
<1> QED BY <1>11, <1>12 DEF S, q, J, id

\* ... and when s has yet to answer the call.
LEMMA ToldListener ==
  ASSUME BaseInv', HandshakeInv', PairInv', CarriesInv', NEW s \in Stations,
         NEW p \in Stations, p # s, Peer(s) = p, Peer(p) = s, stn'[s].call = "listen",
         InSession(p)', stn'[p].call # "disc", NEW id \in CallIds(s)'
  PROVE  /\ Reads(Entering("IRS"), inbox'[s], Behind(inbox'[s], Connect(id)), id,
                  delivered'[s])
         /\ None(inbox'[s], Behind(inbox'[s], Connect(id)), AckOf(0))
<1> DEFINE P == stn'[p]
           E == Entering("IRS")
           q == inbox'[s]
           x == inbox'[p]
           J == Behind(q, Connect(id))
           K == DOMAIN x
<1>1. /\ P \in StationState /\ WellFormed(P, Len(returned'[p]))
      /\ WellFormed(stn'[s], Len(returned'[s])) /\ q \in Seq(Frame)
  BY DEF BaseInv, TypeOK, Shape
<1>2. P.session # NoSession /\ P.call # "call" /\ stn'[s].session = NoSession
  BY <1>1 DEF InSession, WellFormed
<1>3. Caller(p)' /\ Answered(p)'
  <2>1. Answering(s)' BY DEF Answering
  <2>2. ~Answerer(p)' BY <2>1 DEF HandshakeInv, Answering
  <2> QED BY <1>2, <2>2 DEF Caller, Answerer, Answered
<1>4. id = P.session
  <2>1. id <= P.session /\ P.session <= id BY <1>3 DEF HandshakeInv, Latest, Settled
  <2>2. P.session \in Nat BY <1>1, ConstantFacts DEF StationState
  <2>3. id \in Nat
    <3> HIDE DEF q
    <3>1. Ids(q, "CONNECT") \subseteq 1..MaxSessions BY <1>1, IdsTyped DEF Handshaking
    <3>2. id \in Ids(q, "CONNECT") BY DEF CallIds, q
    <3> QED BY <3>1, <3>2, ConstantFacts
  <2> QED BY <2>1, <2>2, <2>3
<1>5. Paired(p)' BY <1>3, <1>4 DEF Paired
<1>6. PairTalk(p)' /\ PairCarries(p)' BY <1>5 DEF PairInv, CarriesInv
<1>7. Joined(p, p)' /\ ~Joined(p, s)' BY <1>2 DEF Joined
<1>8. /\ View(p, p)' = P /\ View(p, s)' = E /\ Live(p, p)' = K /\ Live(p, s)' = J
      /\ Opening(p, s)' = Connect(id)
  BY <1>4, <1>7 DEF View, Live, Opening, Behind
<1>9. Talk(P, E, x, K, q, J, TRUE) BY <1>6, <1>8 DEF PairTalk
<1>10. Carries(P, E, q, J, id, InHand(p)', delivered'[s])
  <2>1. Carried(p, p)' BY <1>2, <1>6 DEF PairCarries
  <2> QED BY <1>4, <1>8, <2>1 DEF Carried
<1>11. P.call = "send" => P.part \in 1..ChunksPerMessage BY PartsLater
<1>12. P.call # "disc" OBVIOUS
<1>13. E.call = "poll" /\ E.txSeq = 0 BY DEF Entering
<1> HIDE DEF P, E, q, x, J, K
<1>14. Reads(E, q, J, id, delivered'[s])
  BY <1>9, <1>10, <1>11, <1>12, CarriesReads DEF Talk
<1>15. None(q, J, AckOf(0)) BY <1>9, <1>13 DEF Talk, Counters
<1> QED BY <1>14, <1>15 DEF E, q, J

\* A step of the peer keeps what a station knows.
LEMMA PeerRight ==
  ASSUME BaseInv, BaseInv', HandshakeInv, HandshakeInv', PairInv', CarriesInv',
         NEW s \in Stations, NEW p \in Stations, p # s, Peer(s) = p, Peer(p) = s,
         Outcome(p), ReadsRight(s), LearnsRight(s)
  PROVE  ReadsRight(s)' /\ LearnsRight(s)'
<1> DEFINE S == stn[s]
           q == inbox[s]
           q2 == inbox'[s]
           E == Entering("IRS")
<1>0. PICK F : Keys(p, F) BY OutcomeKeys
<1>1. Moves(p, F) /\ stn'[s] = S BY <1>0 DEF Keys, Moves
<1>2. delivered'[s] = delivered[s] /\ InHand(s)' = InHand(s) BY OthersKept DEF InHand
<1>3. /\ InSession(s) => /\ Reads(S, q, DOMAIN q, S.session, delivered[s])
                         /\ Learns(S, q, DOMAIN q, S.session, InHand(s), delivered[p])
      /\ S.call = "listen" => \A id \in Nat :
           /\ Reads(E, q, Behind(q, Connect(id)), id, delivered[s])
           /\ None(q, Behind(q, Connect(id)), AckOf(0))
  BY DEF ReadsRight, LearnsRight
<1>4. SUFFICES
        /\ InSession(s) => /\ Reads(S, q2, DOMAIN q2, S.session, delivered[s])
                           /\ Learns(S, q2, DOMAIN q2, S.session, InHand(s), delivered'[p])
        /\ S.call = "listen" => \A id \in Nat :
             /\ Reads(E, q2, Behind(q2, Connect(id)), id, delivered[s])
             /\ None(q2, Behind(q2, Connect(id)), AckOf(0))
  <2>1. (InSession(s)' <=> InSession(s)) BY <1>1 DEF InSession
  <2> QED BY <1>1, <1>2, <1>4, <2>1 DEF ReadsRight, LearnsRight
\* Frames that say nothing.
<1>5. ASSUME NEW G, Moves(p, G), G \cap AnyData = {}, G \cap AnyAck = {}, UNCHANGED delivered
      PROVE  /\ InSession(s) => /\ Reads(S, q2, DOMAIN q2, S.session, delivered[s])
                                /\ Learns(S, q2, DOMAIN q2, S.session, InHand(s), delivered'[p])
             /\ S.call = "listen" => \A id \in Nat :
                  /\ Reads(E, q2, Behind(q2, Connect(id)), id, delivered[s])
                  /\ None(q2, Behind(q2, Connect(id)), AckOf(0))
  <2>1. Evolved(q, DOMAIN q, q2, DOMAIN q2, G) BY <1>5, PeerGrows
  <2>2. ASSUME NEW id \in Nat, S.call = "listen"
        PROVE  /\ Reads(E, q2, Behind(q2, Connect(id)), id, delivered[s])
               /\ None(q2, Behind(q2, Connect(id)), AckOf(0))
    <3>1. PICK H \in {G, {}} :
            Evolved(q, Behind(q, Connect(id)), q2, Behind(q2, Connect(id)), H)
      BY <1>5, BehindGrows
    <3>2. H \cap AnyData = {} /\ H \cap AckOf(0) = {} BY <1>5, KindsApart
    <3>3. /\ Reads(E, q, Behind(q, Connect(id)), id, delivered[s])
          /\ None(q, Behind(q, Connect(id)), AckOf(0))
      BY <1>3, <2>2
    <3> HIDE DEF E, q, q2
    <3>4. Reads(E, q2, Behind(q2, Connect(id)), id, delivered[s])
      BY <3>1, <3>2, <3>3, ReadsEvolved
    <3>5. None(q2, Behind(q2, Connect(id)), AckOf(0)) BY <3>1, <3>2, <3>3, EvolvedNone
    <3> QED BY <3>4, <3>5
  <2>3. ASSUME InSession(s)
        PROVE  /\ Reads(S, q2, DOMAIN q2, S.session, delivered[s])
               /\ Learns(S, q2, DOMAIN q2, S.session, InHand(s), delivered'[p])
    <3>1. /\ Reads(S, q, DOMAIN q, S.session, delivered[s])
          /\ Learns(S, q, DOMAIN q, S.session, InHand(s), delivered[p])
      BY <1>3, <2>3
    <3>2. delivered'[p] = delivered[p] BY <1>5
    <3> HIDE DEF S, q, q2
    <3>3. Reads(S, q2, DOMAIN q2, S.session, delivered[s])
      BY <1>5, <2>1, <3>1, ReadsEvolved
    <3>4. Learns(S, q2, DOMAIN q2, S.session, InHand(s), delivered[p])
      BY <1>5, <2>1, <3>1, LearnsEvolved
    <3> QED BY <3>2, <3>3, <3>4
  <2> QED BY <2>2, <2>3
<1>6. CASE ~(InSession(p) /\ stn'[p].session = stn[p].session)
  <2>1. UNCHANGED delivered BY <1>6, Entered
  <2>2. F \cap AnyData = {} /\ F \cap AnyAck = {} BY <1>0, <1>6, KindsApart DEF Keys
  <2> QED BY <1>1, <1>5, <2>1, <2>2
<1>7. CASE InSession(p) /\ stn'[p].session = stn[p].session /\ Passes(p)
  <2>1. PICK G : Moves(p, G) /\ G \cap AnyData = {} /\ G \cap AnyAck = {} /\ UNCHANGED delivered
    BY <1>7 DEF Passes
  <2> QED BY <1>5, <2>1
<1>8. CASE /\ InSession(p) /\ stn'[p].session = stn[p].session
           /\ KeysChunk(p) \/ Acked(p) \/ Takes(p)
  <2>1. stn'[p].call \in {"send", "poll", "floor"} BY <1>8 DEF KeysChunk, Acked, Takes
  <2>2. /\ WellFormed(S, Len(returned[s])) /\ WellFormed(stn[p], Len(returned[p]))
        /\ WellFormed(stn'[p], Len(returned'[p]))
    BY StationFacts DEF BaseInv, Shape
  <2>3. stn[p].session # NoSession BY <1>8, <2>2 DEF InSession, WellFormed
  <2>4. InSession(p)'
    <3>1. stn'[p].state \in {"CONNECTING", "CONNECTED"} BY <1>8, <2>2, <2>3 DEF WellFormed
    <3>2. stn'[p].state # "CONNECTING" BY <2>1, <2>2 DEF WellFormed
    <3> QED BY <3>1, <3>2 DEF InSession
  <2>5. ASSUME InSession(s)
        PROVE  /\ Reads(S, q2, DOMAIN q2, S.session, delivered[s])
               /\ Learns(S, q2, DOMAIN q2, S.session, InHand(s), delivered'[p])
    <3>1. S.session = stn[p].session
      <4>1. \A t \in Stations : InSession(t) BY <1>8, <2>5, PeerFacts
      <4>2. SameSession BY HandshakeSame
      <4> QED BY <4>1, <4>2 DEF SameSession, Together
    <3>2. S.call # "call" BY <2>2, <2>5 DEF WellFormed, InSession
    <3>3. PICK c \in {s, p} : Caller(c)'
      <4>1. ~(Answerer(s)' /\ Answerer(p)') BY DEF HandshakeInv, Answering
      <4> QED BY <1>1, <1>8, <2>3, <3>1, <4>1 DEF Caller, Answerer
    <3>4. stn'[s].session = stn'[p].session /\ stn'[s].call # "call"
          /\ stn'[p].call \notin {"call", "disc"}
      BY <1>1, <1>8, <2>1, <3>1, <3>2
    <3>5. /\ Reads(stn'[s], q2, DOMAIN q2, stn'[s].session, delivered'[s])
          /\ Learns(stn'[s], q2, DOMAIN q2, stn'[s].session, InHand(s)', delivered'[p])
      BY <3>3, <3>4, ToldTogether
    <3> QED BY <1>1, <1>2, <3>5
  <2>6. ASSUME NEW id \in Nat, S.call = "listen"
        PROVE  /\ Reads(E, q2, Behind(q2, Connect(id)), id, delivered[s])
               /\ None(q2, Behind(q2, Connect(id)), AckOf(0))
    <3>1. CASE \E k \in DOMAIN q2 : q2[k] = Connect(id)
      <4>1. id \in CallIds(s)' BY <3>1 DEF CallIds, Ids, Connect
      <4>2. stn'[s].call = "listen" /\ stn'[p].call # "disc" BY <1>1, <2>1, <2>6
      <4>3. /\ Reads(E, q2, Behind(q2, Connect(id)), id, delivered'[s])
            /\ None(q2, Behind(q2, Connect(id)), AckOf(0))
        BY <2>4, <4>1, <4>2, ToldListener
      <4> QED BY <1>2, <4>3
    <3>2. CASE ~\E k \in DOMAIN q2 : q2[k] = Connect(id)
      <4>1. Behind(q2, Connect(id)) = {} BY <3>2 DEF Behind
      <4> HIDE DEF q2, E
      <4>2. \A H : None(q2, {}, H) BY DEF None
      <4> QED BY <4>1, <4>2, SilentReads
    <3> QED BY <3>1, <3>2
  <2> QED BY <2>5, <2>6
<1> QED BY <1>6, <1>7, <1>8, SessionSteps

----------------------------------------------------------------------------
(* What the applications are told, whatever happens *)

ContentInv ==
  /\ MessagesIntact /\ ReturnMeansDelivered /\ CarriesInv
  /\ \A s \in Stations : ReadsRight(s) /\ LearnsRight(s)

LEMMA ContentStart == Init => ContentInv
<1> SUFFICES ASSUME Init PROVE ContentInv OBVIOUS
<1>1. \A s \in Stations : /\ stn[s] = Fresh /\ delivered[s] = << >> /\ returned[s] = << >>
                          /\ ~InSession(s) /\ stn[s].call # "listen"
                          /\ stn[s].session = NoSession
  BY DEF Init, Fresh, InSession
<1>2. MessagesIntact /\ ReturnMeansDelivered BY <1>1 DEF MessagesIntact, ReturnMeansDelivered
<1>3. CarriesInv BY <1>1 DEF CarriesInv, Paired, Caller
<1>4. \A s \in Stations : ReadsRight(s) /\ LearnsRight(s) BY <1>1 DEF ReadsRight, LearnsRight
<1> QED BY <1>2, <1>3, <1>4 DEF ContentInv

LEMMA OutcomeKeepsContent ==
  ASSUME BaseInv, BaseInv', HandshakeInv, HandshakeInv', PairInv, PairInv', ContentInv,
         NEW s \in Stations, Outcome(s)
  PROVE  ContentInv'
<1>1. MessagesIntact /\ ReturnMeansDelivered /\ CarriesInv BY DEF ContentInv
<1>2. CarriesInv' BY <1>1, OutcomeKeepsCarries
<1>3. ASSUME NEW t \in Stations PROVE ReadsRight(t)' /\ LearnsRight(t)'
  <2>1. ReadsRight(t) /\ LearnsRight(t) BY DEF ContentInv
  <2>2. CASE t = s BY <2>1, <2>2, OwnRight
  <2>3. CASE t # s
    <3>1. s # t /\ Peer(t) = s /\ Peer(s) = t BY <2>3, PeerFacts
    <3> QED BY <1>2, <2>1, <3>1, PeerRight
  <2> QED BY <2>2, <2>3
<1>4. MessagesIntact' /\ ReturnMeansDelivered'
  <2>1. ReadsRight(s) /\ LearnsRight(s) BY DEF ContentInv
  <2> QED BY <1>1, <2>1, OwnBooks
<1> QED BY <1>2, <1>3, <1>4 DEF ContentInv

LEMMA ContentStutters ==
  ASSUME ContentInv, UNCHANGED vars
  PROVE  ContentInv'
<1>0. /\ stn' = stn /\ inbox' = inbox /\ delivered' = delivered /\ returned' = returned
  BY DEF vars
<1>1. MessagesIntact' /\ ReturnMeansDelivered'
  BY <1>0 DEF ContentInv, MessagesIntact, ReturnMeansDelivered
<1>2. CarriesInv'
  <2> SUFFICES ASSUME NEW c \in Stations, Paired(c)' PROVE PairCarries(c)'
    BY DEF CarriesInv
  <2>1. PICK l \in Stations : /\ Peer(c) = l /\ \A s \in Stations : s = c \/ s = l
    BY PeerFacts
  <2>2. Paired(c) BY <1>0, <2>1 DEF Paired, Caller, CallIds
  <2>3. PairCarries(c) BY <2>2 DEF ContentInv, CarriesInv
  <2>4. \A s \in Stations : View(c, s)' = View(c, s) /\ Live(c, s)' = Live(c, s)
                            /\ InHand(s)' = InHand(s)
    BY <1>0 DEF View, Live, Joined, Opening, InHand
  <2>5. Untold(c) => Untold(c)' BY <1>0, <2>1 DEF Untold
  <2>6. \A s \in Stations : Carried(c, s) => Carried(c, s)'
    <3> SUFFICES ASSUME NEW s \in Stations, Carried(c, s) PROVE Carried(c, s)' OBVIOUS
    <3>1. PICK p \in Stations : Peer(s) = p BY PeerFacts
    <3> QED BY <1>0, <2>4, <3>1 DEF Carried
  <2> QED BY <1>0, <2>3, <2>5, <2>6 DEF PairCarries
<1>3. ASSUME NEW s \in Stations PROVE ReadsRight(s)' /\ LearnsRight(s)'
  <2>1. ReadsRight(s) /\ LearnsRight(s) BY DEF ContentInv
  <2>2. (InSession(s)' <=> InSession(s)) /\ InHand(s)' = InHand(s)
    BY <1>0 DEF InSession, InHand
  <2>3. PICK p \in Stations : Peer(s) = p BY PeerFacts
  <2>4. ReadsRight(s)' BY <1>0, <2>1, <2>2 DEF ReadsRight
  <2>5. LearnsRight(s)' BY <1>0, <2>1, <2>2, <2>3 DEF LearnsRight
  <2> QED BY <2>4, <2>5
<1> QED BY <1>1, <1>2, <1>3 DEF ContentInv

LEMMA ContentKept ==
  BaseInv /\ HandshakeInv /\ PairInv /\ ContentInv /\ [Next]_vars => ContentInv'
<1>1. ASSUME BaseInv, HandshakeInv, PairInv, ContentInv, Next PROVE ContentInv'
  <2>1. BaseInv' BY <1>1, BaseKept
  <2>2. HandshakeInv' BY <1>1, HandshakeKept
  <2>3. PairInv' BY <1>1, PairKept
  <2>4. PICK s \in Stations : Outcome(s) BY <1>1, Outcomes
  <2> QED BY <1>1, <2>1, <2>2, <2>3, <2>4, OutcomeKeepsContent
<1> QED BY <1>1, ContentStutters

\* What an application is given are whole messages of its peer's, sent in the
\* session they are received in, each once and in order: whatever is lost,
\* repeated, abandoned or restarted, no chunk of another session or message is
\* taken for one of this, although DATA names no session.
THEOREM AlwaysMessagesIntact == Spec => []MessagesIntact
<1>1. ContentInv => MessagesIntact BY DEF ContentInv
<1> QED BY <1>1, BaseStart, BaseKept, HandshakeStart, HandshakeKept, PairStart, PairKept,
           ContentStart, ContentKept, PTL DEF Spec

\* send_message returns only for a message the peer's application was given, in
\* the same session: no late acknowledgement of another chunk, message or
\* session counts for it.
THEOREM AlwaysReturnMeansDelivered == Spec => []ReturnMeansDelivered
<1>1. ContentInv => ReturnMeansDelivered BY DEF ContentInv
<1> QED BY <1>1, BaseStart, BaseKept, HandshakeStart, HandshakeKept, PairStart, PairKept,
           ContentStart, ContentKept, PTL DEF Spec
=============================================================================
