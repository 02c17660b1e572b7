---------------------------- MODULE SweepProofs ----------------------------
(***************************************************************************)
(* Proofs about Sweep, for any ladder, burst, number of tries and faults:  *)
(* the types; that a report has one row for a direction, sweep and mode;   *)
(* that an answered row names the frames the far end has counted; and that *)
(* the counts of a row add up.                                             *)
(*                                                                         *)
(* MeasuredOnce is not inductive: the walk appends its rows without        *)
(* looking at those it has.  Climbs says that the rows of the walk in      *)
(* progress are all of lower modes, Drawn that no row names a sweep not    *)
(* yet drawn.                                                              *)
(*                                                                         *)
(* That a row is exact rests on the order of what is on its way.  A tally  *)
(* is final once nothing can arm for it again: no announcement of its mode *)
(* is on its way and the walk has keyed its burst.  ExactInv says where    *)
(* each frame stands in its walk, in which order the frames arrive, and    *)
(* what the armed and the kept tally have counted.  Steps says once what   *)
(* any action may do to queues, tallies and rows; each part of ExactInv is *)
(* preserved by every such step, and each action is shown to be one.       *)
(***************************************************************************)
EXTENDS Sweep, FiniteSetTheorems, TLAPS

Walking == {"announce", "awaitReady", "ask", "awaitResult"}
Places  == Walking \union {"swap", "bye", "serve"} \union Over

\* Tallies, frames and rows when n sweeps have been drawn
TallyOf(n)  == [sid : 0 .. n, mode : 0 .. Modes, decoded : SUBSET Seqs, near : Nat]
ControlOf(n) == [type : {"ANNOUNCE", "READY", "ASK", "SWAP", "DONE"},
                 sid : 0 .. n, mode : 0 .. Modes, fate : {"near", "whole"}]
ResultOf(n) == [type : {"RESULT"}, sid : 0 .. n, mode : 0 .. Modes, fate : {"near", "whole"},
                tally : TallyOf(n)]
DataOf(n)   == [type : {"DATA"}, sid : 1 .. n, mode : 1 .. Modes, seq : Seqs,
                fate : {"near", "whole"}]
FrameOf(n)  == ControlOf(n) \union ResultOf(n) \union DataOf(n)
RowOf(n)    == [dir : {"TX", "RX"}, sid : 0 .. n, mode : 0 .. Modes, answered : BOOLEAN,
                decoded : SUBSET Seqs, near : Nat, missed : Nat]

Engines ==
  /\ pc \in [Stations -> Places]
  /\ id \in [Stations -> 0 .. ids] /\ lastSwap \in [Stations -> 0 .. ids]
  /\ mode \in [Stations -> 1 .. Modes]
  /\ attempt \in [Stations -> Nat \ {0}] /\ failures \in [Stations -> 0 .. FailuresToStop]
  /\ served \in [Stations -> BOOLEAN]

Counters == ids \in Nat /\ calls \in 0 .. MaxCalls /\ faults \in 0 .. MaxFaults

Tallies ==
  /\ armed \in [Stations -> TallyOf(ids)] /\ held \in [Stations -> TallyOf(ids)]
  /\ heard \subseteq (1 .. ids) \X (1 .. Modes) \X Seqs

Path ==
  /\ frames \in [Stations -> Seq(FrameOf(ids))]
  /\ air \in [Stations -> Seq(FrameOf(ids))]

Drawn ==
  /\ results \in [Stations -> Seq(RowOf(ids))]
  /\ \A s \in Stations : pc[s] \in Walking => id[s] # 0

\* The rows of the walk in progress
Climbs ==
  \A s \in Stations : \A i \in DOMAIN results[s] :
    pc[s] \in Walking /\ results[s][i].dir = "TX" /\ results[s][i].sid = id[s]
      => results[s][i].mode < mode[s]

SweepInv == Engines /\ Counters /\ Tallies /\ Path /\ Drawn /\ Climbs /\ MeasuredOnce

----------------------------------------------------------------------------
(* Types *)

LEMMA StationsAre ==
  /\ Caller \in Stations /\ Listener \in Stations
  /\ \A s \in Stations : Peer(s) \in Stations /\ Peer(s) # s
BY SweepAssumption DEF Stations, Peer

LEMMA MoreDrawn ==
  ASSUME NEW n \in Nat, NEW m \in Nat, n <= m
  PROVE  /\ TallyOf(n) \subseteq TallyOf(m) /\ FrameOf(n) \subseteq FrameOf(m)
         /\ RowOf(n) \subseteq RowOf(m)
<1>1. 0 .. n \subseteq 0 .. m /\ 1 .. n \subseteq 1 .. m OBVIOUS
<1>2. TallyOf(n) \subseteq TallyOf(m) BY <1>1 DEF TallyOf
<1>3. ControlOf(n) \subseteq ControlOf(m) BY <1>1 DEF ControlOf
<1>4. ResultOf(n) \subseteq ResultOf(m) BY <1>1, <1>2 DEF ResultOf
<1>5. DataOf(n) \subseteq DataOf(m) BY <1>1 DEF DataOf
<1>6. RowOf(n) \subseteq RowOf(m) BY <1>1 DEF RowOf
<1> QED BY <1>2, <1>3, <1>4, <1>5, <1>6 DEF FrameOf

LEMMA FramesAre ==
  ASSUME NEW n \in Nat, NEW f \in FrameOf(n)
  PROVE  /\ f.type \in FrameTypes /\ f.sid \in 0 .. n /\ f.mode \in 0 .. Modes
         /\ f.type = "RESULT" => f.tally \in TallyOf(n)
         /\ f.type = "DATA" => f \in DataOf(n)
<1>1. CASE f \in ControlOf(n) BY <1>1 DEF ControlOf, FrameTypes
<1>2. CASE f \in ResultOf(n) BY <1>2 DEF ResultOf, FrameTypes
<1>3. CASE f \in DataOf(n)
  <2>1. f.type = "DATA" /\ f.sid \in 1 .. n /\ f.mode \in 1 .. Modes BY <1>3 DEF DataOf
  <2> QED BY <1>3, <2>1 DEF FrameTypes
<1> QED BY <1>1, <1>2, <1>3 DEF FrameOf

LEMMA NoneIsTally ==
  ASSUME Counters
  PROVE  None \in TallyOf(ids) /\ \A s \in 0 .. ids, m \in 0 .. Modes : Fresh(s, m) \in TallyOf(ids)
BY SweepAssumption DEF None, Fresh, TallyOf, Counters

LEMMA ControlIs ==
  ASSUME NEW n \in Nat, NEW type \in {"ANNOUNCE", "READY", "ASK", "SWAP", "DONE"},
         NEW sid \in 0 .. n, NEW m \in 0 .. Modes
  PROVE  Frame(type, sid, m) \in FrameOf(n)
<1>1. Frame(type, sid, m) \in ControlOf(n) BY DEF Frame, ControlOf
<1> QED BY <1>1 DEF FrameOf

\* A row's arithmetic stays within its types.
LEMMA RowIs ==
  ASSUME NEW n \in Nat, NEW dir \in {"TX", "RX"}, NEW sid \in 0 .. n, NEW m \in 0 .. Modes,
         NEW tally \in TallyOf(n), NEW answered \in BOOLEAN
  PROVE  /\ Row(dir, sid, m, tally, answered) \in RowOf(n)
         /\ Row(dir, sid, m, tally, answered).dir = dir
         /\ Row(dir, sid, m, tally, answered).sid = sid
         /\ Row(dir, sid, m, tally, answered).mode = m
<1>1. tally.decoded \in SUBSET Seqs /\ tally.near \in Nat BY DEF TallyOf
<1>2. Cardinality(tally.decoded) \in Nat
  <2>1. IsFiniteSet(0 .. Frames - 1) BY SweepAssumption, FS_Interval
  <2>2. IsFiniteSet(tally.decoded) BY <1>1, <2>1, FS_Subset DEF Seqs
  <2> QED BY <2>2, FS_CardinalityType
<1> DEFINE left == Frames - Cardinality(tally.decoded) - tally.near
<1>3. (IF left > 0 THEN left ELSE 0) \in Nat
  <2>1. left \in Int BY <1>1, <1>2, SweepAssumption
  <2> HIDE DEF left
  <2> QED BY <2>1
<1> QED BY <1>1, <1>3 DEF Row, RowOf

LEMMA AppendsAre ==
  ASSUME NEW S, NEW q \in Seq(S), NEW x \in S
  PROVE  /\ Append(q, x) \in Seq(S) /\ DOMAIN q = 1 .. Len(q)
         /\ DOMAIN Append(q, x) = 1 .. Len(q) + 1 /\ Len(q) \in Nat
         /\ \A i \in 1 .. Len(q) : Append(q, x)[i] = q[i]
         /\ Append(q, x)[Len(q) + 1] = x
OBVIOUS

LEMMA QueuesAre ==
  ASSUME NEW S, NEW q \in Seq(S), q # << >>
  PROVE  Head(q) \in S /\ Tail(q) \in Seq(S)
OBVIOUS

\* Keying: whatever arrives, the path holds frames, and the bound on faults holds.
LEMMA KeyKeeps ==
  ASSUME SweepInv, NEW s \in Stations, NEW sent, NEW arrivals \in SUBSET Seq(FrameOf(ids)),
         Key(s, sent, arrivals)
  PROVE  air' \in [Stations -> Seq(FrameOf(ids))] /\ faults' \in 0 .. MaxFaults
<1>1. PICK h \in arrivals :
        /\ Fault(h # sent)
        /\ air' = [air EXCEPT ![s] = << >>,
                              ![Peer(s)] = IF Up(Peer(s)) /\ Len(@ \o h) <= AirCap
                                           THEN @ \o h ELSE @]
  BY DEF Key
<1>2. faults' \in 0 .. MaxFaults
  BY <1>1, SweepAssumption DEF Fault, SweepInv, Counters
<1>3. /\ air \in [Stations -> Seq(FrameOf(ids))] /\ Peer(s) \in Stations /\ Peer(s) # s
      /\ h \in Seq(FrameOf(ids))
  BY StationsAre DEF SweepInv, Path
<1>4. air[Peer(s)] \o h \in Seq(FrameOf(ids)) BY <1>3
<1>5. << >> \in Seq(FrameOf(ids)) OBVIOUS
<1>6. PICK q \in Seq(FrameOf(ids)) : air' = [air EXCEPT ![s] = << >>, ![Peer(s)] = q]
  BY <1>1, <1>3, <1>4
<1> QED BY <1>2, <1>3, <1>5, <1>6

\* A frame that only synchronises is, for its place on the way, the same frame.
Fated(f, e) == [f EXCEPT !.fate = e]

LEMMA FatedIs ==
  ASSUME NEW n \in Nat, NEW f \in FrameOf(n), NEW e \in {"near", "whole"}
  PROVE  /\ Fated(f, e) \in FrameOf(n) /\ Fated(f, e).type = f.type
         /\ Fated(f, e).sid = f.sid /\ Fated(f, e).mode = f.mode
         /\ f.type = "RESULT" => Fated(f, e).tally = f.tally
         /\ f.type = "DATA" => Fated(f, e).seq = f.seq
<1>1. CASE f \in ControlOf(n)
  <2>1. Fated(f, e) \in ControlOf(n) BY <1>1 DEF ControlOf, Fated
  <2>2. /\ Fated(f, e).type = f.type /\ Fated(f, e).sid = f.sid /\ Fated(f, e).mode = f.mode
        /\ f.type # "RESULT" /\ f.type # "DATA"
    BY <1>1 DEF ControlOf, Fated
  <2> QED BY <2>1, <2>2 DEF FrameOf
<1>2. CASE f \in ResultOf(n)
  <2>1. Fated(f, e) \in ResultOf(n) BY <1>2 DEF ResultOf, Fated
  <2>2. /\ Fated(f, e).type = f.type /\ Fated(f, e).sid = f.sid /\ Fated(f, e).mode = f.mode
        /\ Fated(f, e).tally = f.tally /\ f.type # "DATA"
    BY <1>2 DEF ResultOf, Fated
  <2> QED BY <2>1, <2>2 DEF FrameOf
<1>3. CASE f \in DataOf(n)
  <2>1. Fated(f, e) \in DataOf(n) BY <1>3 DEF DataOf, Fated
  <2>2. /\ Fated(f, e).type = f.type /\ Fated(f, e).sid = f.sid /\ Fated(f, e).mode = f.mode
        /\ Fated(f, e).seq = f.seq /\ f.type # "RESULT"
    BY <1>3 DEF DataOf, Fated
  <2> QED BY <2>1, <2>2 DEF FrameOf
<1> QED BY <1>1, <1>2, <1>3 DEF FrameOf

\* Of one frame, the frame itself is left, as it came, or nothing.
LEMMA HeardOne ==
  ASSUME NEW f, NEW h \in Heard(<<f>>)
  PROVE  h = << >> \/ \E e \in {"near", "whole"} : h = <<Fated(f, e)>>
<1>1. DOMAIN <<f>> = {1} /\ Len(<<f>>) = 1 /\ <<f>>[1] = f OBVIOUS
<1>2. PICK n \in 0 .. 1 :
        \E at \in [1 .. n -> {1}], fate \in [1 .. n -> {"near", "whole"}] :
          h = [i \in 1 .. n |-> [<<f>>[at[i]] EXCEPT !.fate = fate[i]]]
  BY <1>1 DEF Heard
<1>3. PICK at \in [1 .. n -> {1}], fate \in [1 .. n -> {"near", "whole"}] :
        h = [i \in 1 .. n |-> [<<f>>[at[i]] EXCEPT !.fate = fate[i]]]
  BY <1>2
<1>4. CASE n = 0
  <2>1. 1 .. n = {} BY <1>4
  <2> QED BY <1>3, <2>1
<1>5. CASE n = 1
  <2>1. 1 .. n = {1} BY <1>5
  <2>2. at[1] = 1 /\ fate[1] \in {"near", "whole"} BY <1>3, <2>1
  <2>3. h = [i \in {1} |-> Fated(f, fate[1])] BY <1>1, <1>3, <2>1, <2>2 DEF Fated
  <2>4. PICK g : g = Fated(f, fate[1]) OBVIOUS
  <2>5. h = [i \in 1 .. 1 |-> g] BY <2>1, <2>3, <2>4, <1>5
  <2>6. h = <<g>> BY <2>5
  <2> QED BY <2>2, <2>4, <2>6
<1> QED BY <1>2, <1>4, <1>5

LEMMA HeardControl ==
  ASSUME SweepInv, NEW f \in FrameOf(ids) PROVE Heard(<<f>>) \in SUBSET Seq(FrameOf(ids))
<1> SUFFICES ASSUME NEW h \in Heard(<<f>>) PROVE h \in Seq(FrameOf(ids)) OBVIOUS
<1>1. h = << >> \/ \E e \in {"near", "whole"} : h = <<Fated(f, e)>> BY HeardOne
<1>2. ASSUME NEW e \in {"near", "whole"} PROVE <<Fated(f, e)>> \in Seq(FrameOf(ids))
  <2> DEFINE F == FrameOf(ids)
             g == Fated(f, e)
  <2>1. g \in F BY FatedIs DEF SweepInv, Counters
  <2> HIDE DEF F, g
  <2>2. <<g>> \in Seq(F) BY <2>1
  <2> QED BY <2>2 DEF F, g
<1>3. << >> \in Seq(FrameOf(ids)) OBVIOUS
<1>4. CASE h = << >> BY <1>3, <1>4
<1>5. CASE \E e \in {"near", "whole"} : h = <<Fated(f, e)>>
  <2>1. PICK e \in {"near", "whole"} : h = <<Fated(f, e)>> BY <1>5
  <2> QED BY <1>2, <2>1
<1> QED BY <1>1, <1>4, <1>5

LEMMA ControlKeeps ==
  ASSUME SweepInv, NEW s \in Stations, NEW f \in FrameOf(ids), TxControl(s, f)
  PROVE  air' \in [Stations -> Seq(FrameOf(ids))] /\ faults' \in 0 .. MaxFaults
BY HeardControl, KeyKeeps DEF TxControl

LEMMA BurstKeeps ==
  ASSUME SweepInv, NEW s \in Stations, id[s] # 0, TxBurst(s)
  PROVE  air' \in [Stations -> Seq(FrameOf(ids))] /\ faults' \in 0 .. MaxFaults
<1> DEFINE burst == [i \in 1 .. Frames |->
                      [type |-> "DATA", sid |-> id[s], mode |-> mode[s],
                       seq |-> i - 1, fate |-> "whole"]]
<1>0. id[s] \in 1 .. ids /\ mode[s] \in 1 .. Modes /\ ids \in Nat
  BY DEF SweepInv, Engines, Counters
<1>1. DOMAIN burst = 1 .. Frames OBVIOUS
<1>2. ASSUME NEW i \in 1 .. Frames, NEW fate \in {"near", "whole"}
      PROVE  [burst[i] EXCEPT !.fate = fate] \in FrameOf(ids)
  <2>1. i - 1 \in Seqs BY SweepAssumption DEF Seqs
  <2>2. burst[i] = [type |-> "DATA", sid |-> id[s], mode |-> mode[s],
                    seq |-> i - 1, fate |-> "whole"]
    OBVIOUS
  <2>3. [burst[i] EXCEPT !.fate = fate] \in DataOf(ids) BY <1>0, <2>1, <2>2 DEF DataOf
  <2> QED BY <2>3 DEF FrameOf
<1>3. Heard(burst) \in SUBSET Seq(FrameOf(ids))
  <2> SUFFICES ASSUME NEW h \in Heard(burst) PROVE h \in Seq(FrameOf(ids)) OBVIOUS
  <2>0. Len(burst) = Frames BY SweepAssumption
  <2> HIDE DEF burst
  <2>1. PICK n \in 0 .. Frames :
          \E at \in [1 .. n -> 1 .. Frames], fate \in [1 .. n -> {"near", "whole"}] :
            h = [i \in 1 .. n |-> [burst[at[i]] EXCEPT !.fate = fate[i]]]
    BY <1>1, <2>0 DEF Heard
  <2>2. PICK at \in [1 .. n -> 1 .. Frames], fate \in [1 .. n -> {"near", "whole"}] :
          h = [i \in 1 .. n |-> [burst[at[i]] EXCEPT !.fate = fate[i]]]
    BY <2>1
  <2>3. \A i \in 1 .. n : [burst[at[i]] EXCEPT !.fate = fate[i]] \in FrameOf(ids) BY <1>2, <2>2
  <2>4. n \in Nat BY <2>1
  <2> QED BY <2>2, <2>3, <2>4
<1> HIDE DEF burst
<1>4. Key(s, burst, Heard(burst)) BY DEF TxBurst, burst
<1> QED BY <1>3, <1>4, KeyKeeps

----------------------------------------------------------------------------
(* The report *)

\* A step that appends no row and begins no walk keeps the report as it is.
LEMMA SameReport ==
  ASSUME SweepInv, results' = results, id' = id, ids' = ids,
         \A s \in Stations : pc'[s] \in Walking => pc[s] \in Walking /\ mode'[s] = mode[s]
  PROVE  Drawn' /\ Climbs' /\ MeasuredOnce'
<1>1. Drawn' BY DEF SweepInv, Drawn
<1>2. Climbs' BY DEF SweepInv, Climbs
<1>3. MeasuredOnce' BY DEF SweepInv, MeasuredOnce
<1> QED BY <1>1, <1>2, <1>3

Alike(r, q) == r.dir = q.dir /\ r.sid = q.sid /\ r.mode = q.mode

NewOf(s, row) == \A i \in DOMAIN results[s] : ~Alike(results[s][i], row)
Adds(s, row) == results' = [results EXCEPT ![s] = Append(results[s], row)]
OnlyAdded(s, row) ==
  \A t \in Stations : \A i \in DOMAIN results'[t] :
    \/ i \in DOMAIN results[t] /\ results'[t][i] = results[t][i]
    \/ t = s /\ results'[t][i] = row

\* A row unlike all there are may be appended.
LEMMA AddsKeeps ==
  ASSUME SweepInv, NEW s \in Stations, NEW row \in RowOf(ids), Adds(s, row), NewOf(s, row)
  PROVE  results' \in [Stations -> Seq(RowOf(ids))] /\ MeasuredOnce' /\ OnlyAdded(s, row)
<1>0. /\ results' = [results EXCEPT ![s] = Append(results[s], row)]
      /\ \A i \in DOMAIN results[s] : ~Alike(results[s][i], row)
  BY DEF Adds, NewOf
<1>1. results \in [Stations -> Seq(RowOf(ids))] BY DEF SweepInv, Drawn
<1>2. /\ results[s] \in Seq(RowOf(ids)) /\ results'[s] = Append(results[s], row)
      /\ \A t \in Stations : t # s => results'[t] = results[t]
  BY <1>0, <1>1
<1>3. /\ DOMAIN results[s] = 1 .. Len(results[s]) /\ Len(results[s]) \in Nat
      /\ DOMAIN results'[s] = 1 .. Len(results[s]) + 1
      /\ \A i \in 1 .. Len(results[s]) : results'[s][i] = results[s][i]
      /\ results'[s][Len(results[s]) + 1] = row
      /\ results'[s] \in Seq(RowOf(ids))
  BY <1>2, AppendsAre
<1>4. results' \in [Stations -> Seq(RowOf(ids))]
  <2> DEFINE R == Seq(RowOf(ids))
             new == Append(results[s], row)
  <2>1. results \in [Stations -> R] /\ results' = [results EXCEPT ![s] = new] BY <1>0, <1>1
  <2>2. new \in R BY <1>2, <1>3
  <2> HIDE DEF R, new
  <2>3. results' \in [Stations -> R] BY <2>1, <2>2
  <2> QED BY <2>3 DEF R
<1>5. \A i \in DOMAIN results'[s] :
        \/ i \in DOMAIN results[s] /\ results'[s][i] = results[s][i]
        \/ i = Len(results[s]) + 1 /\ results'[s][i] = row
  BY <1>3
<1>6. \A i, j \in DOMAIN results'[s] : i # j => ~Alike(results'[s][i], results'[s][j])
  <2> SUFFICES ASSUME NEW i \in DOMAIN results'[s], NEW j \in DOMAIN results'[s], i # j
               PROVE  ~Alike(results'[s][i], results'[s][j])
    OBVIOUS
  <2>1. CASE i \in DOMAIN results[s] /\ j \in DOMAIN results[s]
    <3>1. results'[s][i] = results[s][i] /\ results'[s][j] = results[s][j] BY <1>3, <2>1
    <3> QED BY <2>1, <3>1 DEF SweepInv, MeasuredOnce, Alike
  <2>2. CASE i \in DOMAIN results[s] /\ results'[s][j] = row
    <3>1. results'[s][i] = results[s][i] BY <1>3, <2>2
    <3> QED BY <1>0, <2>2, <3>1
  <2>3. CASE results'[s][i] = row /\ j \in DOMAIN results[s]
    <3>1. results'[s][j] = results[s][j] BY <1>3, <2>3
    <3> QED BY <1>0, <2>3, <3>1 DEF Alike
  <2> QED BY <1>5, <2>1, <2>2, <2>3
<1>7. MeasuredOnce'
  <2> SUFFICES ASSUME NEW t \in Stations
               PROVE  \A i, j \in DOMAIN results'[t] :
                        i # j => ~Alike(results'[t][i], results'[t][j])
    BY DEF MeasuredOnce, Alike
  <2>1. CASE t = s BY <1>6, <2>1
  <2>2. CASE t # s BY <1>2, <2>2 DEF SweepInv, MeasuredOnce, Alike
  <2> QED BY <2>1, <2>2
<1> QED BY <1>2, <1>4, <1>5, <1>7 DEF OnlyAdded

\* The row of the mode in hand is the walk's next.
LEMMA MeasuredKeeps ==
  ASSUME SweepInv, NEW s \in Stations, pc[s] \in Walking, NEW tally \in TallyOf(ids),
         NEW answered \in BOOLEAN, ids' = ids,
         Measured(s, Row("TX", id[s], mode[s], tally, answered))
  PROVE  Engines' /\ Drawn' /\ Climbs' /\ MeasuredOnce'
<1>a. /\ id[s] \in 0 .. ids /\ mode[s] \in 1 .. Modes /\ ids \in Nat /\ id[s] # 0
      /\ failures[s] \in 0 .. FailuresToStop
      /\ FailuresToStop \in Nat \ {0} /\ Modes \in Nat \ {0}
  BY SweepAssumption DEF SweepInv, Engines, Counters, Drawn
<1>b. PICK row \in RowOf(ids) :
        /\ row = Row("TX", id[s], mode[s], tally, answered)
        /\ row.dir = "TX" /\ row.sid = id[s] /\ row.mode = mode[s]
  <2>1. mode[s] \in 0 .. Modes /\ "TX" \in {"TX", "RX"} BY <1>a
  <2> QED BY <1>a, <2>1, RowIs
<1> DEFINE failed == IF row.decoded = {} THEN failures[s] + 1 ELSE 0
           over == LadderEnds(s) \/ failed >= FailuresToStop
<1>2. /\ results' = [results EXCEPT ![s] = Append(results[s], row)]
      /\ pc' = [pc EXCEPT ![s] = IF over THEN WalkEnds(s) ELSE "announce"]
      /\ IF over THEN WalkOver(s)
         ELSE /\ mode' = [mode EXCEPT ![s] = mode[s] + 1]
              /\ attempt' = [attempt EXCEPT ![s] = 1]
              /\ failures' = [failures EXCEPT ![s] = failed]
      /\ UNCHANGED <<id, served, lastSwap>>
  BY <1>b DEF Measured
<1>3. \A i \in DOMAIN results[s] : ~Alike(results[s][i], row)
  <2> SUFFICES ASSUME NEW i \in DOMAIN results[s], Alike(results[s][i], row) PROVE FALSE
    OBVIOUS
  <2>1. results[s][i].mode < mode[s] BY <1>b DEF Alike, SweepInv, Climbs
  <2>2. results[s][i].mode = mode[s] BY <1>b DEF Alike
  <2> QED BY <1>a, <2>1, <2>2
<1>4. /\ results' \in [Stations -> Seq(RowOf(ids))]
      /\ MeasuredOnce'
      /\ \A t \in Stations : \A i \in DOMAIN results'[t] :
           \/ i \in DOMAIN results[t] /\ results'[t][i] = results[t][i]
           \/ t = s /\ results'[t][i] = row
  <2>1. Adds(s, row) /\ NewOf(s, row) BY <1>2, <1>3 DEF Adds, NewOf
  <2> QED BY <1>b, <2>1, AddsKeeps DEF OnlyAdded
<1>5. failed \in Nat BY <1>a
<1> HIDE DEF failed
<1>6. ~over => /\ mode[s] + 1 \in 1 .. Modes /\ failed \in 0 .. FailuresToStop
  BY <1>a, <1>5 DEF LadderEnds
<1> HIDE DEF over
<1>7. Engines'
  <2>0. Engines BY DEF SweepInv
  <2>1. pc' \in [Stations -> Places]
    BY <1>2, <2>0 DEF Engines, Places, Walking, WalkEnds
  <2>2. \E m \in 1 .. Modes, f \in 0 .. FailuresToStop :
          /\ mode' = [mode EXCEPT ![s] = m] /\ attempt' = [attempt EXCEPT ![s] = 1]
          /\ failures' = [failures EXCEPT ![s] = f]
    <3>1. 1 \in 1 .. Modes /\ 0 \in 0 .. FailuresToStop BY <1>a
    <3>2. CASE over BY <1>2, <3>1, <3>2 DEF WalkOver, Control
    <3>3. CASE ~over BY <1>2, <1>6, <3>3
    <3> QED BY <3>2, <3>3
  <2>3. mode' \in [Stations -> 1 .. Modes] BY <2>0, <2>2 DEF Engines
  <2>4. attempt' \in [Stations -> Nat \ {0}] BY <2>0, <2>2 DEF Engines
  <2>5. failures' \in [Stations -> 0 .. FailuresToStop] BY <2>0, <2>2 DEF Engines
  <2>6. /\ id' \in [Stations -> 0 .. ids'] /\ lastSwap' \in [Stations -> 0 .. ids']
        /\ served' \in [Stations -> BOOLEAN]
    BY <1>2, <2>0 DEF Engines
  <2> QED BY <2>1, <2>3, <2>4, <2>5, <2>6 DEF Engines
<1>8. Drawn'
  <2>1. \A t \in Stations : pc'[t] \in Walking => pc[t] \in Walking
    BY <1>2 DEF SweepInv, Engines
  <2> QED BY <1>2, <1>4, <2>1 DEF SweepInv, Drawn
<1>9. Climbs'
  <2> SUFFICES ASSUME NEW t \in Stations, NEW i \in DOMAIN results'[t], pc'[t] \in Walking,
                      results'[t][i].dir = "TX", results'[t][i].sid = id'[t]
               PROVE  results'[t][i].mode < mode'[t]
    BY DEF Climbs
  <2>1. CASE t = s
    <3>1. ~over BY <1>2, <2>1 DEF SweepInv, Engines, WalkEnds, Walking
    <3>2. mode'[t] = mode[s] + 1 BY <1>2, <2>1, <3>1 DEF SweepInv, Engines
    <3>3. CASE i \in DOMAIN results[t] /\ results'[t][i] = results[t][i]
      <4>1. results[t][i].mode < mode[s] BY <1>2, <2>1, <3>3 DEF SweepInv, Climbs
      <4>2. results[t][i].mode \in Int
        <5>1. results[t] \in Seq(RowOf(ids)) BY DEF SweepInv, Drawn
        <5>2. results[t][i] \in RowOf(ids) BY <3>3, <5>1
        <5> QED BY <5>2 DEF RowOf
      <4> QED BY <1>a, <3>2, <3>3, <4>1, <4>2
    <3>4. CASE results'[t][i] = row BY <1>a, <1>b, <3>2, <3>4
    <3> QED BY <1>4, <3>3, <3>4
  <2>2. CASE t # s
    <3>1. i \in DOMAIN results[t] /\ results'[t][i] = results[t][i] BY <1>4, <2>2
    <3>2. pc[t] \in Walking /\ mode'[t] = mode[t] /\ id'[t] = id[t]
      <4>1. pc'[t] = pc[t] /\ id'[t] = id[t] BY <1>2, <2>2 DEF SweepInv, Engines
      <4>2. mode'[t] = mode[t]
        BY <1>2, <2>2 DEF SweepInv, Engines, WalkOver
      <4> QED BY <4>1, <4>2
    <3> QED BY <3>1, <3>2 DEF SweepInv, Climbs
  <2> QED BY <2>1, <2>2
<1> QED BY <1>4, <1>7, <1>8, <1>9

\* A walk begins: its identifier is new, so no row is of it.
LEMMA BeginKeeps ==
  ASSUME SweepInv, NEW s \in Stations, Begin(s),
         lastSwap' \in [Stations -> 0 .. ids'], served' \in [Stations -> BOOLEAN],
         \A t \in Stations : results'[t] = results[t] \/ results'[t] = << >>,
         results' \in [Stations -> Seq(RowOf(ids))]
  PROVE  Engines' /\ Drawn' /\ Climbs' /\ MeasuredOnce'
<1>0. /\ ids \in Nat /\ ids' = ids + 1 /\ 0 .. ids \subseteq 0 .. ids' /\ ids' \in 0 .. ids'
      /\ ids \in 0 .. ids' /\ Modes \in Nat \ {0} /\ FailuresToStop \in Nat \ {0}
  BY SweepAssumption DEF Begin, SweepInv, Counters
<1>1. /\ pc' = [pc EXCEPT ![s] = "announce"] /\ id' = [id EXCEPT ![s] = ids']
      /\ mode' = [mode EXCEPT ![s] = 1] /\ attempt' = [attempt EXCEPT ![s] = 1]
      /\ failures' = [failures EXCEPT ![s] = 0]
  BY DEF Begin, Control
<1>2. Engines'
  <2>0. Engines BY DEF SweepInv
  <2>1. pc' \in [Stations -> Places] BY <1>1, <2>0 DEF Engines, Places, Walking
  <2>2. id' \in [Stations -> 0 .. ids'] BY <1>0, <1>1, <2>0 DEF Engines
  <2>3. mode' \in [Stations -> 1 .. Modes] BY <1>0, <1>1, <2>0 DEF Engines
  <2>4. /\ attempt' \in [Stations -> Nat \ {0}]
        /\ failures' \in [Stations -> 0 .. FailuresToStop]
    BY <1>0, <1>1, <2>0 DEF Engines
  <2> QED BY <2>1, <2>2, <2>3, <2>4 DEF Engines
<1>3. results' \in [Stations -> Seq(RowOf(ids'))]
  <2>1. RowOf(ids) \subseteq RowOf(ids') BY <1>0, MoreDrawn
  <2> QED BY <2>1
<1>4. Drawn'
  <2>1. ASSUME NEW t \in Stations, pc'[t] \in Walking PROVE id'[t] # 0
    <3>1. CASE t = s BY <1>0, <1>1, <3>1 DEF SweepInv, Engines
    <3>2. CASE t # s BY <1>1, <2>1, <3>2 DEF SweepInv, Engines, Drawn
    <3> QED BY <3>1, <3>2
  <2> QED BY <1>3, <2>1 DEF Drawn
<1>5. MeasuredOnce'
  <2> SUFFICES ASSUME NEW t \in Stations, NEW i \in DOMAIN results'[t], NEW j \in DOMAIN results'[t],
                      i # j
               PROVE  ~Alike(results'[t][i], results'[t][j])
    BY DEF MeasuredOnce, Alike
  <2>1. results'[t] = results[t] BY DOMAIN << >> = {}
  <2> QED BY <2>1 DEF SweepInv, MeasuredOnce, Alike
<1>6. Climbs'
  <2> SUFFICES ASSUME NEW t \in Stations, NEW i \in DOMAIN results'[t], pc'[t] \in Walking,
                      results'[t][i].dir = "TX", results'[t][i].sid = id'[t]
               PROVE  results'[t][i].mode < mode'[t]
    BY DEF Climbs
  <2>1. results'[t] = results[t] BY DOMAIN << >> = {}
  <2>2. results[t][i].sid \in 0 .. ids
    <3>1. results[t] \in Seq(RowOf(ids)) BY DEF SweepInv, Drawn
    <3>2. results[t][i] \in RowOf(ids) BY <2>1, <3>1
    <3> QED BY <3>2 DEF RowOf
  <2>3. CASE t = s BY <1>0, <1>1, <2>1, <2>2, <2>3 DEF SweepInv, Engines
  <2>4. CASE t # s BY <1>1, <2>1, <2>4 DEF SweepInv, Engines, Climbs
  <2> QED BY <2>3, <2>4
<1> QED BY <1>2, <1>4, <1>5, <1>6

----------------------------------------------------------------------------
(* The steps *)

LEMMA TimesOutKeeps ==
  ASSUME SweepInv, NEW s \in Stations, TimesOut(s), ids' = ids, calls' = calls
  PROVE  Counters'
BY SweepAssumption DEF TimesOut, Fault, SweepInv, Counters

\* A frame taken from the queue
LEMMA PopKeeps ==
  ASSUME SweepInv, NEW s \in Stations, frames[s] # << >>,
         frames' = [frames EXCEPT ![s] = Tail(frames[s])]
  PROVE  frames' \in [Stations -> Seq(FrameOf(ids))] /\ Head(frames[s]) \in FrameOf(ids)
<1> DEFINE F == FrameOf(ids)
<1>1. frames \in [Stations -> Seq(F)] BY DEF SweepInv, Path
<1> HIDE DEF F
<1>2. Tail(frames[s]) \in Seq(F) /\ Head(frames[s]) \in F BY <1>1, QueuesAre
<1>3. frames' \in [Stations -> Seq(F)] BY <1>1, <1>2
<1> QED BY <1>2, <1>3 DEF F

LEMMA AnnounceKeeps == ASSUME SweepInv, NEW s \in Stations, Announce(s) PROVE SweepInv'
<1>1. /\ TxControl(s, Frame("ANNOUNCE", id[s], mode[s])) /\ pc[s] = "announce"
      /\ pc' = [pc EXCEPT ![s] = "awaitReady"]
      /\ UNCHANGED <<id, mode, attempt, failures, served, lastSwap, results, armed, held,
                     frames, ids, calls, heard>>
  BY DEF Announce, engine, receiver, book
<1>2. /\ "ANNOUNCE" \in {"ANNOUNCE", "READY", "ASK", "SWAP", "DONE"}
      /\ id[s] \in 0 .. ids /\ mode[s] \in 0 .. Modes /\ ids \in Nat
  BY SweepAssumption DEF SweepInv, Engines, Counters
<1>3. Frame("ANNOUNCE", id[s], mode[s]) \in FrameOf(ids) BY <1>2, ControlIs
<1>4. air' \in [Stations -> Seq(FrameOf(ids))] /\ faults' \in 0 .. MaxFaults
  BY <1>1, <1>3, ControlKeeps
<1>5. Engines' BY <1>1 DEF SweepInv, Engines, Places, Walking
<1>6. Counters' BY <1>1, <1>4 DEF SweepInv, Counters
<1>7. Tallies' /\ Path' BY <1>1, <1>4 DEF SweepInv, Tallies, Path
<1>8. Drawn' /\ Climbs' /\ MeasuredOnce'
  BY <1>1, SameReport DEF SweepInv, Engines, Walking
<1> QED BY <1>5, <1>6, <1>7, <1>8 DEF SweepInv

LEMMA AskKeeps == ASSUME SweepInv, NEW s \in Stations, Ask(s) PROVE SweepInv'
<1>1. /\ TxControl(s, Frame("ASK", id[s], mode[s])) /\ pc[s] = "ask"
      /\ pc' = [pc EXCEPT ![s] = "awaitResult"]
      /\ UNCHANGED <<id, mode, attempt, failures, served, lastSwap, results, armed, held,
                     frames, ids, calls, heard>>
  BY DEF Ask, engine, receiver, book
<1>2. /\ "ASK" \in {"ANNOUNCE", "READY", "ASK", "SWAP", "DONE"}
      /\ id[s] \in 0 .. ids /\ mode[s] \in 0 .. Modes /\ ids \in Nat
  BY SweepAssumption DEF SweepInv, Engines, Counters
<1>3. Frame("ASK", id[s], mode[s]) \in FrameOf(ids) BY <1>2, ControlIs
<1>4. air' \in [Stations -> Seq(FrameOf(ids))] /\ faults' \in 0 .. MaxFaults
  BY <1>1, <1>3, ControlKeeps
<1>5. Engines' BY <1>1 DEF SweepInv, Engines, Places, Walking
<1>6. Counters' BY <1>1, <1>4 DEF SweepInv, Counters
<1>7. Tallies' /\ Path' BY <1>1, <1>4 DEF SweepInv, Tallies, Path
<1>8. Drawn' /\ Climbs' /\ MeasuredOnce'
  BY <1>1, SameReport DEF SweepInv, Engines, Walking
<1> QED BY <1>5, <1>6, <1>7, <1>8 DEF SweepInv

LEMMA HandOverKeeps == ASSUME SweepInv, NEW s \in Stations, Swap(s) \/ Bye(s) PROVE SweepInv'
<1>0. PICK f \in FrameOf(ids) : TxControl(s, f)
  <2>1. /\ {"SWAP", "DONE"} \subseteq {"ANNOUNCE", "READY", "ASK", "SWAP", "DONE"}
        /\ id[s] \in 0 .. ids /\ lastSwap[s] \in 0 .. ids /\ 0 \in 0 .. Modes /\ ids \in Nat
    BY SweepAssumption DEF SweepInv, Engines, Counters
  <2>2. Frame("SWAP", id[s], 0) \in FrameOf(ids) /\ Frame("DONE", lastSwap[s], 0) \in FrameOf(ids)
    BY <2>1, ControlIs
  <2> QED BY <2>2 DEF Swap, Bye
<1>1. /\ pc' = [pc EXCEPT ![s] = "serve"] /\ served' \in {served, [served EXCEPT ![s] = FALSE]}
      /\ UNCHANGED <<id, mode, attempt, failures, lastSwap, results, armed, held,
                     frames, ids, calls, heard>>
  BY DEF Swap, Bye, engine, receiver, book
<1>2. air' \in [Stations -> Seq(FrameOf(ids))] /\ faults' \in 0 .. MaxFaults
  BY <1>0, ControlKeeps
<1>3. Engines'
  <2>1. served' \in [Stations -> BOOLEAN] BY <1>1 DEF SweepInv, Engines
  <2> QED BY <1>1, <2>1 DEF SweepInv, Engines, Places
<1>4. Counters' BY <1>1, <1>2 DEF SweepInv, Counters
<1>5. Tallies' /\ Path' BY <1>1, <1>2 DEF SweepInv, Tallies, Path
<1>6. Drawn' /\ Climbs' /\ MeasuredOnce'
  BY <1>1, SameReport DEF SweepInv, Engines, Walking
<1> QED BY <1>3, <1>4, <1>5, <1>6 DEF SweepInv

LEMMA AnnounceTimeoutKeeps ==
  ASSUME SweepInv, NEW s \in Stations, AnnounceTimeout(s) PROVE SweepInv'
<1>1. /\ pc[s] = "awaitReady" /\ TimesOut(s)
      /\ UNCHANGED <<id, served, lastSwap, results, armed, held, frames, air, ids, calls, heard>>
  BY DEF AnnounceTimeout, receiver, book
<1>2. \/ /\ attempt' = [attempt EXCEPT ![s] = attempt[s] + 1] /\ pc' = [pc EXCEPT ![s] = "announce"]
         /\ UNCHANGED <<mode, failures>>
      \/ /\ mode' = [mode EXCEPT ![s] = 1] /\ attempt' = [attempt EXCEPT ![s] = 1]
         /\ failures' = [failures EXCEPT ![s] = 0]
         /\ \E where \in {"failed", "swap", "bye"} : pc' = [pc EXCEPT ![s] = where]
  BY DEF AnnounceTimeout, WalkOver, WalkEnds, Control
<1>3. Engines'
  <2>0. 1 \in 1 .. Modes /\ 0 \in 0 .. FailuresToStop BY SweepAssumption
  <2>1. attempt[s] + 1 \in Nat \ {0} BY DEF SweepInv, Engines
  <2>2. attempt' \in [Stations -> Nat \ {0}] BY <1>2, <2>1 DEF SweepInv, Engines
  <2>3. mode' \in [Stations -> 1 .. Modes] /\ failures' \in [Stations -> 0 .. FailuresToStop]
    BY <1>2, <2>0 DEF SweepInv, Engines
  <2>4. pc' \in [Stations -> Places] BY <1>2 DEF SweepInv, Engines, Places, Walking, Over
  <2> QED BY <1>1, <2>2, <2>3, <2>4 DEF SweepInv, Engines
<1>4. Counters' BY <1>1, TimesOutKeeps
<1>5. Tallies' /\ Path' BY <1>1 DEF SweepInv, Tallies, Path
<1>6. \A t \in Stations : pc'[t] \in Walking => pc[t] \in Walking /\ mode'[t] = mode[t]
  <2>1. ASSUME NEW t \in Stations, t # s, pc'[t] \in Walking
        PROVE  pc[t] \in Walking /\ mode'[t] = mode[t]
    BY <1>2, <2>1 DEF SweepInv, Engines
  <2>2. pc'[s] \in Walking => pc[s] \in Walking /\ mode'[s] = mode[s]
    BY <1>1, <1>2 DEF SweepInv, Engines, Walking
  <2> QED BY <2>1, <2>2
<1>7. Drawn' /\ Climbs' /\ MeasuredOnce' BY <1>1, <1>6, SameReport
<1> QED BY <1>3, <1>4, <1>5, <1>7 DEF SweepInv

LEMMA HearReadyKeeps ==
  ASSUME SweepInv, NEW s \in Stations, HearReady(s) PROVE SweepInv'
<1>1. /\ pc[s] = "awaitReady" /\ frames[s] # << >> /\ TxBurst(s)
      /\ frames' = [frames EXCEPT ![s] = Tail(frames[s])]
      /\ pc' = [pc EXCEPT ![s] = "ask"] /\ attempt' = [attempt EXCEPT ![s] = 1]
      /\ UNCHANGED <<id, mode, failures, served, lastSwap, results, armed, held,
                     ids, calls, heard>>
  BY DEF HearReady, receiver, book
<1>2. id[s] # 0 BY <1>1 DEF SweepInv, Drawn, Walking
<1>3. air' \in [Stations -> Seq(FrameOf(ids))] /\ faults' \in 0 .. MaxFaults
  BY <1>1, <1>2, BurstKeeps
<1>4. frames' \in [Stations -> Seq(FrameOf(ids))] BY <1>1, PopKeeps
<1>5. Engines' BY <1>1 DEF SweepInv, Engines, Places, Walking
<1>6. Counters' BY <1>1, <1>3 DEF SweepInv, Counters
<1>7. Tallies' /\ Path' BY <1>1, <1>3, <1>4 DEF SweepInv, Tallies, Path
<1>8. Drawn' /\ Climbs' /\ MeasuredOnce'
  BY <1>1, SameReport DEF SweepInv, Engines, Walking
<1> QED BY <1>5, <1>6, <1>7, <1>8 DEF SweepInv

\* A try of _collect spent: the request again, or a row that says nothing came.
LEMMA AskAgainKeeps ==
  ASSUME SweepInv, NEW s \in Stations, pc[s] \in Walking, AskAgain(s), ids' = ids
  PROVE  Engines' /\ Drawn' /\ Climbs' /\ MeasuredOnce'
<1>1. CASE attempt[s] < ResultRetries
  <2>1. /\ attempt' = [attempt EXCEPT ![s] = attempt[s] + 1] /\ pc' = [pc EXCEPT ![s] = "ask"]
        /\ UNCHANGED <<id, mode, failures, served, lastSwap, results>>
    BY <1>1 DEF AskAgain
  <2>2. attempt[s] + 1 \in Nat \ {0} BY DEF SweepInv, Engines
  <2>3. Engines' BY <2>1, <2>2 DEF SweepInv, Engines, Places, Walking
  <2>4. \A t \in Stations : pc'[t] \in Walking => pc[t] \in Walking /\ mode'[t] = mode[t]
    BY <2>1 DEF SweepInv, Engines, Walking
  <2> QED BY <2>1, <2>3, <2>4, SameReport
<1>2. CASE ~(attempt[s] < ResultRetries)
  <2>1. Measured(s, Row("TX", id[s], mode[s], None, FALSE)) BY <1>2 DEF AskAgain
  <2>2. None \in TallyOf(ids) BY NoneIsTally DEF SweepInv
  <2> QED BY <2>1, <2>2, MeasuredKeeps
<1> QED BY <1>1, <1>2

LEMMA AskTimeoutKeeps ==
  ASSUME SweepInv, NEW s \in Stations, AskTimeout(s) PROVE SweepInv'
<1>1. /\ pc[s] = "awaitResult" /\ TimesOut(s) /\ AskAgain(s)
      /\ UNCHANGED <<armed, held, frames, air, ids, calls, heard>>
  BY DEF AskTimeout, receiver, book
<1>2. Engines' /\ Drawn' /\ Climbs' /\ MeasuredOnce' BY <1>1, AskAgainKeeps DEF Walking
<1>3. Counters' BY <1>1, TimesOutKeeps
<1>4. Tallies' /\ Path' BY <1>1 DEF SweepInv, Tallies, Path
<1> QED BY <1>2, <1>3, <1>4 DEF SweepInv

LEMMA HearResultKeeps ==
  ASSUME SweepInv, NEW s \in Stations, HearResult(s) PROVE SweepInv'
<1> DEFINE f == Head(frames[s])
<1>1. /\ pc[s] = "awaitResult" /\ frames[s] # << >> /\ f.type = "RESULT"
      /\ frames' = [frames EXCEPT ![s] = Tail(frames[s])]
      /\ \/ Measured(s, Row("TX", id[s], mode[s], f.tally, TRUE))
         \/ AskAgain(s)
      /\ UNCHANGED <<armed, held, air, faults, ids, calls, heard>>
  BY DEF HearResult, IsResult, receiver, book
<1>2. frames' \in [Stations -> Seq(FrameOf(ids))] /\ f \in FrameOf(ids) BY <1>1, PopKeeps
<1>3. f.tally \in TallyOf(ids)
  <2>1. ids \in Nat BY DEF SweepInv, Counters
  <2> HIDE DEF f
  <2> QED BY <1>1, <1>2, <2>1, FramesAre
<1> HIDE DEF f
<1>4. pc[s] \in Walking BY <1>1 DEF Walking
<1>5. Engines' /\ Drawn' /\ Climbs' /\ MeasuredOnce'
  <2>1. CASE Measured(s, Row("TX", id[s], mode[s], f.tally, TRUE))
    BY <1>1, <1>3, <1>4, <2>1, MeasuredKeeps
  <2>2. CASE AskAgain(s) BY <1>1, <1>4, <2>2, AskAgainKeeps
  <2> QED BY <1>1, <2>1, <2>2
<1>6. Counters' /\ Tallies' /\ Path'
  BY <1>1, <1>2 DEF SweepInv, Counters, Tallies, Path
<1> QED BY <1>5, <1>6 DEF SweepInv

LEMMA HearOtherKeeps ==
  ASSUME SweepInv, NEW s \in Stations, HearOther(s) PROVE SweepInv'
<1>1. /\ frames[s] # << >> /\ frames' = [frames EXCEPT ![s] = Tail(frames[s])]
      /\ UNCHANGED <<pc, id, mode, attempt, failures, served, lastSwap, results, armed, held,
                     air, faults, ids, calls, heard>>
  BY DEF HearOther, engine, receiver, book
<1>2. frames' \in [Stations -> Seq(FrameOf(ids))] BY <1>1, PopKeeps
<1>3. Engines' /\ Counters' /\ Tallies' /\ Path'
  BY <1>1, <1>2 DEF SweepInv, Engines, Counters, Tallies, Path
<1>4. Drawn' /\ Climbs' /\ MeasuredOnce' BY <1>1, SameReport
<1> QED BY <1>3, <1>4 DEF SweepInv

LEMMA ServeTimeoutKeeps ==
  ASSUME SweepInv, NEW s \in Stations, ServeTimeout(s) PROVE SweepInv'
<1>1. /\ pc[s] = "serve" /\ TimesOut(s)
      /\ UNCHANGED <<id, mode, failures, served, lastSwap, results, armed, held,
                     frames, air, ids, calls, heard>>
      /\ \/ pc' = [pc EXCEPT ![s] = "done"] /\ UNCHANGED attempt
         \/ pc' = [pc EXCEPT ![s] = "swap"] /\ attempt' = [attempt EXCEPT ![s] = attempt[s] + 1]
  BY DEF ServeTimeout, receiver, book
<1>2. Engines'
  <2>1. attempt[s] + 1 \in Nat \ {0} BY DEF SweepInv, Engines
  <2>2. attempt' \in [Stations -> Nat \ {0}] BY <1>1, <2>1 DEF SweepInv, Engines
  <2>3. pc' \in [Stations -> Places] BY <1>1 DEF SweepInv, Engines, Places, Over
  <2> QED BY <1>1, <2>2, <2>3 DEF SweepInv, Engines
<1>3. Counters' BY <1>1, TimesOutKeeps
<1>4. Tallies' /\ Path' BY <1>1 DEF SweepInv, Tallies, Path
<1>5. \A t \in Stations : pc'[t] \in Walking => pc[t] \in Walking /\ mode'[t] = mode[t]
  BY <1>1 DEF SweepInv, Engines, Walking
<1>6. Drawn' /\ Climbs' /\ MeasuredOnce' BY <1>1, <1>5, SameReport
<1> QED BY <1>2, <1>3, <1>4, <1>6 DEF SweepInv

\* What every frame for the serve loop has in common
LEMMA ServingKeeps ==
  ASSUME SweepInv, NEW s \in Stations, NEW type, Serving(s, type)
  PROVE  /\ pc[s] = "serve" /\ pc[s] \notin Walking
         /\ Head(frames[s]) \in FrameOf(ids) /\ Head(frames[s]).type = type
         /\ Head(frames[s]).sid \in 0 .. ids /\ Head(frames[s]).mode \in 0 .. Modes
         /\ frames' \in [Stations -> Seq(FrameOf(ids))]
         /\ served' \in [Stations -> BOOLEAN]
<1>1. /\ pc[s] = "serve" /\ frames[s] # << >> /\ Head(frames[s]).type = type
      /\ frames' = [frames EXCEPT ![s] = Tail(frames[s])]
      /\ \E b \in BOOLEAN : served' = [served EXCEPT ![s] = b]
  BY DEF Serving
<1>2. served' \in [Stations -> BOOLEAN] BY <1>1 DEF SweepInv, Engines
<1>3. /\ frames' \in [Stations -> Seq(FrameOf(ids))] /\ Head(frames[s]) \in FrameOf(ids)
  BY <1>1, PopKeeps
<1>4. Head(frames[s]).sid \in 0 .. ids /\ Head(frames[s]).mode \in 0 .. Modes
  <2>1. ids \in Nat BY DEF SweepInv, Counters
  <2> QED BY <1>3, <2>1, FramesAre
<1> QED BY <1>1, <1>2, <1>3, <1>4 DEF Walking

LEMMA ServeAnnounceKeeps ==
  ASSUME SweepInv, NEW s \in Stations, ServeAnnounce(s) PROVE SweepInv'
<1> DEFINE f == Head(frames[s])
<1>1. /\ Serving(s, "ANNOUNCE") /\ Arm(s, f.sid, f.mode)
      /\ TxControl(s, Frame("READY", f.sid, f.mode))
      /\ UNCHANGED <<pc, id, mode, attempt, failures, lastSwap, results, held,
                     ids, calls, heard>>
  BY DEF ServeAnnounce, book
<1>2. /\ f.sid \in 0 .. ids /\ f.mode \in 0 .. Modes
      /\ frames' \in [Stations -> Seq(FrameOf(ids))] /\ served' \in [Stations -> BOOLEAN]
  BY <1>1, ServingKeeps
<1> HIDE DEF f
<1>3. ids \in Nat /\ "READY" \in {"ANNOUNCE", "READY", "ASK", "SWAP", "DONE"}
  BY DEF SweepInv, Counters
<1>4. Frame("READY", f.sid, f.mode) \in FrameOf(ids) BY <1>2, <1>3, ControlIs
<1>5. air' \in [Stations -> Seq(FrameOf(ids))] /\ faults' \in 0 .. MaxFaults
  BY <1>1, <1>4, ControlKeeps
<1>6. armed' \in [Stations -> TallyOf(ids)]
  <2>1. Fresh(f.sid, f.mode) \in TallyOf(ids) BY <1>2, NoneIsTally DEF SweepInv
  <2>2. armed \in [Stations -> TallyOf(ids)] BY DEF SweepInv, Tallies
  <2>3. armed' = [armed EXCEPT ![s] = Fresh(f.sid, f.mode)] \/ armed' = [armed EXCEPT ![s] = armed[s]]
    BY <1>1 DEF Arm
  <2> QED BY <2>1, <2>2, <2>3
<1>7. Engines' BY <1>1, <1>2 DEF SweepInv, Engines
<1>8. Counters' BY <1>1, <1>5 DEF SweepInv, Counters
<1>9. Tallies' /\ Path' BY <1>1, <1>2, <1>5, <1>6 DEF SweepInv, Tallies, Path
<1>10. Drawn' /\ Climbs' /\ MeasuredOnce' BY <1>1, SameReport
<1> QED BY <1>7, <1>8, <1>9, <1>10 DEF SweepInv

LEMMA DisarmKeeps ==
  ASSUME SweepInv, NEW s \in Stations, Disarm(s)
  PROVE  armed' \in [Stations -> TallyOf(ids)] /\ held' \in [Stations -> TallyOf(ids)]
<1>1. None \in TallyOf(ids) BY NoneIsTally DEF SweepInv
<1>2. armed \in [Stations -> TallyOf(ids)] /\ held \in [Stations -> TallyOf(ids)]
  BY DEF SweepInv, Tallies
<1>3. /\ armed' = [armed EXCEPT ![s] = None] /\ held' = [held EXCEPT ![s] = armed[s]]
  BY DEF Disarm
<1> QED BY <1>1, <1>2, <1>3

LEMMA ServeAskKeeps ==
  ASSUME SweepInv, NEW s \in Stations, ServeAsk(s) PROVE SweepInv'
<1> DEFINE f == Head(frames[s])
           counting == armed[s].sid = f.sid /\ armed[s].mode = f.mode
<1>1. Serving(s, "ASK") BY DEF ServeAsk
<1>2. PICK tally \in {armed[s], held[s]} :
        \/ /\ results' = [results EXCEPT ![s] =
                            IF Recorded(s, f) THEN results[s]
                            ELSE Append(results[s], Row("RX", f.sid, f.mode, tally, TRUE))]
           /\ TxControl(s, [type |-> "RESULT", sid |-> f.sid, mode |-> f.mode,
                            fate |-> "whole", tally |-> tally])
        \/ UNCHANGED <<results, air, faults>>
  BY DEF ServeAsk
<1>3. /\ UNCHANGED <<pc, id, mode, attempt, failures, lastSwap, ids, calls, heard>>
      /\ Disarm(s) \/ UNCHANGED <<armed, held>>
  BY DEF ServeAsk, receiver, book
<1>4. /\ pc[s] \notin Walking /\ f \in FrameOf(ids) /\ f.sid \in 0 .. ids /\ f.mode \in 0 .. Modes
      /\ frames' \in [Stations -> Seq(FrameOf(ids))] /\ served' \in [Stations -> BOOLEAN]
  BY <1>1, ServingKeeps
<1>5. /\ armed \in [Stations -> TallyOf(ids)] /\ held \in [Stations -> TallyOf(ids)] /\ ids \in Nat
      /\ tally \in TallyOf(ids)
  BY <1>2 DEF SweepInv, Tallies, Counters
<1>6. armed' \in [Stations -> TallyOf(ids)] /\ held' \in [Stations -> TallyOf(ids)]
  BY <1>3, <1>5, DisarmKeeps
<1> HIDE DEF f
<1>7. air' \in [Stations -> Seq(FrameOf(ids))] /\ faults' \in 0 .. MaxFaults
  <2>1. [type |-> "RESULT", sid |-> f.sid, mode |-> f.mode, fate |-> "whole",
         tally |-> tally] \in FrameOf(ids)
    BY <1>4, <1>5 DEF FrameOf, ResultOf
  <2>2. CASE UNCHANGED <<air, faults>> BY <2>2 DEF SweepInv, Path, Counters
  <2> QED BY <1>2, <2>1, <2>2, ControlKeeps
<1>8. PICK row \in RowOf(ids) :
        /\ row = Row("RX", f.sid, f.mode, tally, TRUE)
        /\ row.dir = "RX" /\ row.sid = f.sid /\ row.mode = f.mode
  <2>0. PICK sid \in 0 .. ids, m \in 0 .. Modes : sid = f.sid /\ m = f.mode BY <1>4
  <2> DEFINE row == Row("RX", sid, m, tally, TRUE)
  <2>1. \A answered \in BOOLEAN :
          LET r == Row("RX", sid, m, tally, answered)
          IN  r \in RowOf(ids) /\ r.dir = "RX" /\ r.sid = sid /\ r.mode = m
    <3>1. "RX" \in {"TX", "RX"} OBVIOUS
    <3> QED BY <1>5, <2>0, <3>1, RowIs
  <2>2. row \in RowOf(ids) /\ row.dir = "RX" /\ row.sid = sid /\ row.mode = m
    BY <2>1
  <2>3. row = Row("RX", f.sid, f.mode, tally, TRUE) BY <2>0
  <2> HIDE DEF row
  <2> QED BY <2>0, <2>2, <2>3
<1>9. CASE UNCHANGED results
  <2>1. Drawn' /\ Climbs' /\ MeasuredOnce' BY <1>3, <1>9, SameReport
  <2>2. Engines' BY <1>3, <1>4 DEF SweepInv, Engines
  <2>3. Counters' BY <1>3, <1>7 DEF SweepInv, Counters
  <2>4. Tallies' /\ Path' BY <1>3, <1>4, <1>6, <1>7 DEF SweepInv, Tallies, Path
  <2> QED BY <2>1, <2>2, <2>3, <2>4 DEF SweepInv
<1>10. CASE ~Recorded(s, f) /\ Adds(s, row)
  <2>1. NewOf(s, row) BY <1>8, <1>10 DEF NewOf, Alike, Recorded
  <2>2. results' \in [Stations -> Seq(RowOf(ids))] /\ MeasuredOnce' /\ OnlyAdded(s, row)
    BY <1>10, <2>1, AddsKeeps
  <2>3. Drawn' BY <1>3, <2>2 DEF SweepInv, Drawn
  <2>4. Climbs'
    <3> SUFFICES ASSUME NEW t \in Stations, NEW i \in DOMAIN results'[t], pc'[t] \in Walking,
                        results'[t][i].dir = "TX", results'[t][i].sid = id'[t]
                 PROVE  results'[t][i].mode < mode'[t]
      BY DEF Climbs
    <3>1. t # s BY <1>3, <1>4
    <3>2. i \in DOMAIN results[t] /\ results'[t][i] = results[t][i] BY <2>2, <3>1 DEF OnlyAdded
    <3> QED BY <1>3, <3>2 DEF SweepInv, Climbs
  <2>5. Engines' BY <1>3, <1>4 DEF SweepInv, Engines
  <2>6. Counters' BY <1>3, <1>7 DEF SweepInv, Counters
  <2>7. Tallies' /\ Path' BY <1>3, <1>4, <1>6, <1>7 DEF SweepInv, Tallies, Path
  <2> QED BY <2>2, <2>3, <2>4, <2>5, <2>6, <2>7 DEF SweepInv
<1> QED
  <2>1. results \in [Stations -> Seq(RowOf(ids))] BY DEF SweepInv, Drawn
  <2>2. UNCHANGED results \/ (~Recorded(s, f) /\ Adds(s, row))
    BY <1>2, <1>8, <2>1 DEF Adds
  <2> QED BY <1>9, <1>10, <2>2

LEMMA ServeSwapKeeps ==
  ASSUME SweepInv, NEW s \in Stations, ServeSwap(s) PROVE SweepInv'
<1> DEFINE f == Head(frames[s])
<1>1. Serving(s, "SWAP") /\ UNCHANGED <<results, armed, held, calls, heard>>
  BY DEF ServeSwap, receiver
<1>2. /\ f.sid \in 0 .. ids /\ f.mode \in 0 .. Modes
      /\ frames' \in [Stations -> Seq(FrameOf(ids))] /\ served' \in [Stations -> BOOLEAN]
  BY <1>1, ServingKeeps
<1>3. \/ /\ TxControl(s, Frame("DONE", f.sid, 0))
         /\ UNCHANGED <<pc, id, ids, mode, attempt, failures, lastSwap>>
      \/ /\ lastSwap' = [lastSwap EXCEPT ![s] = f.sid] /\ Begin(s)
         /\ UNCHANGED <<air, faults>>
  BY DEF ServeSwap
<1> HIDE DEF f
<1>4. ids \in Nat BY DEF SweepInv, Counters
<1>5. CASE TxControl(s, Frame("DONE", f.sid, 0))
           /\ UNCHANGED <<pc, id, ids, mode, attempt, failures, lastSwap>>
  <2>1. "DONE" \in {"ANNOUNCE", "READY", "ASK", "SWAP", "DONE"} /\ 0 \in 0 .. Modes
    BY SweepAssumption
  <2>2. Frame("DONE", f.sid, 0) \in FrameOf(ids) BY <1>2, <1>4, <2>1, ControlIs
  <2>3. air' \in [Stations -> Seq(FrameOf(ids))] /\ faults' \in 0 .. MaxFaults
    BY <1>5, <2>2, ControlKeeps
  <2>4. Engines' BY <1>2, <1>5 DEF SweepInv, Engines
  <2>5. Counters' BY <1>1, <1>5, <2>3 DEF SweepInv, Counters
  <2>6. Tallies' /\ Path' BY <1>1, <1>2, <1>5, <2>3 DEF SweepInv, Tallies, Path
  <2>7. Drawn' /\ Climbs' /\ MeasuredOnce' BY <1>1, <1>5, SameReport
  <2> QED BY <2>4, <2>5, <2>6, <2>7 DEF SweepInv
<1>6. CASE /\ lastSwap' = [lastSwap EXCEPT ![s] = f.sid] /\ Begin(s)
           /\ UNCHANGED <<air, faults>>
  <2>0. ids' = ids + 1 BY <1>6 DEF Begin
  <2>1. /\ TallyOf(ids) \subseteq TallyOf(ids') /\ FrameOf(ids) \subseteq FrameOf(ids')
        /\ 0 .. ids \subseteq 0 .. ids' /\ 1 .. ids \subseteq 1 .. ids'
    BY <1>4, <2>0, MoreDrawn
  <2>2. lastSwap' \in [Stations -> 0 .. ids'] BY <1>2, <1>6, <2>1 DEF SweepInv, Engines
  <2>3. results' \in [Stations -> Seq(RowOf(ids))] BY <1>1 DEF SweepInv, Drawn
  <2>4. Engines' /\ Drawn' /\ Climbs' /\ MeasuredOnce'
    BY <1>1, <1>2, <1>6, <2>2, <2>3, BeginKeeps
  <2>5. Counters' BY <1>1, <1>4, <1>6, <2>0 DEF SweepInv, Counters
  <2>6. Tallies' BY <1>1, <2>1 DEF SweepInv, Tallies
  <2>7. Path' BY <1>2, <1>6, <2>1 DEF SweepInv, Path
  <2> QED BY <2>4, <2>5, <2>6, <2>7 DEF SweepInv
<1> QED BY <1>3, <1>5, <1>6

LEMMA ServeOtherKeeps ==
  ASSUME SweepInv, NEW s \in Stations, ServeDone(s) \/ ServeStale(s) PROVE SweepInv'
<1>1. /\ \E type \in {"DONE", "READY", "RESULT"} : Serving(s, type)
      /\ pc' \in {pc, [pc EXCEPT ![s] = "done"], [pc EXCEPT ![s] = pc[s]]}
      /\ UNCHANGED <<id, mode, attempt, failures, lastSwap, results, armed, held,
                     air, faults, ids, calls, heard>>
  BY DEF ServeDone, ServeStale, receiver, book
<1>2. frames' \in [Stations -> Seq(FrameOf(ids))] /\ served' \in [Stations -> BOOLEAN]
  BY <1>1, ServingKeeps
<1>3. Engines' BY <1>1, <1>2 DEF SweepInv, Engines, Places, Over
<1>4. Counters' /\ Tallies' /\ Path' BY <1>1, <1>2 DEF SweepInv, Counters, Tallies, Path
<1>5. \A t \in Stations : pc'[t] \in Walking => pc[t] \in Walking /\ mode'[t] = mode[t]
  BY <1>1 DEF SweepInv, Engines, Walking
<1>6. Drawn' /\ Climbs' /\ MeasuredOnce' BY <1>1, <1>5, SameReport
<1> QED BY <1>3, <1>4, <1>6 DEF SweepInv

\* What a near miss does to the tally
LEMMA NotedIs ==
  ASSUME SweepInv, NEW s \in Stations, NEW f, NoteNearMiss(s, f)
  PROVE  IF armed[s].mode = KeyedAt(f) THEN armed' = [armed EXCEPT ![s].near = armed[s].near + 1]
                                       ELSE armed' = armed
<1>1. armed \in [Stations -> TallyOf(ids)] BY DEF SweepInv, Tallies
<1>2. armed[s] \in TallyOf(ids) BY <1>1
<1>3. [armed[s] EXCEPT !.near = armed[s].near] = armed[s] BY <1>2 DEF TallyOf
<1>4. armed' = [armed EXCEPT ![s] =
                 [armed[s] EXCEPT !.near = IF armed[s].mode = KeyedAt(f) THEN armed[s].near + 1
                                           ELSE armed[s].near]]
  BY DEF NoteNearMiss
<1> QED BY <1>1, <1>3, <1>4

LEMMA DecodeKeeps == ASSUME SweepInv, NEW s \in Stations, Decode(s) PROVE SweepInv'
<1> DEFINE f == Head(air[s])
<1>1. /\ air[s] # << >> /\ air' = [air EXCEPT ![s] = Tail(air[s])]
      /\ UNCHANGED <<pc, id, mode, attempt, failures, served, lastSwap, results, held,
                     faults, ids, calls>>
      /\ \/ frames' = [frames EXCEPT ![s] = Append(frames[s], f)]
         \/ UNCHANGED frames
  BY DEF Decode, engine
<1>2. /\ \/ armed' = armed
         \/ armed' = [armed EXCEPT ![s].near = armed[s].near + 1]
         \/ f.type = "DATA" /\ armed' = [armed EXCEPT ![s].decoded = @ \union {f.seq}]
      /\ \/ heard' = heard
         \/ f.type = "DATA" /\ heard' = heard \union {<<f.sid, f.mode, f.seq>>}
  <2>0. armed \in [Stations -> TallyOf(ids)] BY DEF SweepInv, Tallies
  <2>1. CASE f.fate = "near" /\ NoteNearMiss(s, f) /\ UNCHANGED heard
    BY <2>0, <2>1, NotedIs
  <2>2. CASE ~(f.fate = "near" /\ NoteNearMiss(s, f) /\ UNCHANGED heard) BY <2>2 DEF Decode
  <2> QED BY <2>1, <2>2
<1>3. air' \in [Stations -> Seq(FrameOf(ids))] /\ f \in FrameOf(ids)
  <2> DEFINE F == FrameOf(ids)
  <2>1. air \in [Stations -> Seq(F)] BY DEF SweepInv, Path
  <2> HIDE DEF F
  <2>2. Tail(air[s]) \in Seq(F) /\ Head(air[s]) \in F BY <1>1, <2>1, QueuesAre
  <2>3. air' \in [Stations -> Seq(F)] BY <1>1, <2>1, <2>2
  <2> QED BY <2>2, <2>3 DEF F
<1>4. /\ f.type = "DATA" => f \in DataOf(ids)
      /\ ids \in Nat /\ armed \in [Stations -> TallyOf(ids)] /\ armed[s] \in TallyOf(ids)
  BY <1>3, FramesAre DEF SweepInv, Counters, Tallies
<1> HIDE DEF f
<1>5. frames' \in [Stations -> Seq(FrameOf(ids))]
  <2> DEFINE F == FrameOf(ids)
  <2>1. frames \in [Stations -> Seq(F)] /\ f \in F BY <1>3 DEF SweepInv, Path
  <2> HIDE DEF F
  <2>2. Append(frames[s], f) \in Seq(F) BY <2>1
  <2>3. frames' \in [Stations -> Seq(F)] BY <1>1, <2>1, <2>2
  <2> QED BY <2>3 DEF F
<1>6. armed' \in [Stations -> TallyOf(ids)] /\ heard' \subseteq (1 .. ids) \X (1 .. Modes) \X Seqs
  <2>1. [armed[s] EXCEPT !.near = armed[s].near + 1] \in TallyOf(ids) BY <1>4 DEF TallyOf
  <2>2. f.type = "DATA" => f.seq \in Seqs /\ f.sid \in 1 .. ids /\ f.mode \in 1 .. Modes
    BY <1>4 DEF DataOf
  <2>3. f.type = "DATA" => [armed[s] EXCEPT !.decoded = @ \union {f.seq}] \in TallyOf(ids)
    BY <1>4, <2>2 DEF TallyOf
  <2>4. armed' \in [Stations -> TallyOf(ids)] BY <1>2, <1>4, <2>1, <2>3
  <2>5. heard \subseteq (1 .. ids) \X (1 .. Modes) \X Seqs BY DEF SweepInv, Tallies
  <2>6. heard' \subseteq (1 .. ids) \X (1 .. Modes) \X Seqs BY <1>2, <2>2, <2>5
  <2> QED BY <2>4, <2>6
<1>7. Engines' /\ Counters' BY <1>1 DEF SweepInv, Engines, Counters
<1>8. Tallies' /\ Path' BY <1>1, <1>3, <1>5, <1>6 DEF SweepInv, Tallies, Path
<1>9. Drawn' /\ Climbs' /\ MeasuredOnce' BY <1>1, SameReport
<1> QED BY <1>7, <1>8, <1>9 DEF SweepInv

LEMMA ExpireKeeps ==
  ASSUME SweepInv, NEW s \in Stations, Expire(s) \/ Forget(s) PROVE SweepInv'
<1>1. /\ TimesOut(s)
      /\ Disarm(s) \/ (held' = [held EXCEPT ![s] = None] /\ UNCHANGED armed)
      /\ UNCHANGED <<pc, id, mode, attempt, failures, served, lastSwap, results,
                     frames, air, ids, calls, heard>>
  BY DEF Expire, Forget, engine, book
<1>2. armed' \in [Stations -> TallyOf(ids)] /\ held' \in [Stations -> TallyOf(ids)]
  <2>1. /\ armed \in [Stations -> TallyOf(ids)] /\ held \in [Stations -> TallyOf(ids)]
        /\ None \in TallyOf(ids)
    BY NoneIsTally DEF SweepInv, Tallies
  <2>2. CASE Disarm(s) BY <2>2, DisarmKeeps
  <2>3. CASE held' = [held EXCEPT ![s] = None] /\ UNCHANGED armed BY <2>1, <2>3
  <2> QED BY <1>1, <2>2, <2>3
<1>3. Counters' BY <1>1, TimesOutKeeps
<1>4. Engines' /\ Path' BY <1>1 DEF SweepInv, Engines, Path
<1>5. Tallies' BY <1>1, <1>2 DEF SweepInv, Tallies
<1>6. Drawn' /\ Climbs' /\ MeasuredOnce' BY <1>1, SameReport
<1> QED BY <1>3, <1>4, <1>5, <1>6 DEF SweepInv

\* A station whose process ended keeps nothing.
LEMMA CleanKeeps ==
  ASSUME SweepInv, NEW s \in Stations, Clean(s)
  PROVE  /\ results' \in [Stations -> Seq(RowOf(ids))]
         /\ \A t \in Stations : results'[t] = results[t] \/ results'[t] = << >>
         /\ lastSwap' \in [Stations -> 0 .. ids] /\ served' \in [Stations -> BOOLEAN]
         /\ armed' \in [Stations -> TallyOf(ids)] /\ held' \in [Stations -> TallyOf(ids)]
         /\ frames' \in [Stations -> Seq(FrameOf(ids))]
         /\ air' \in [Stations -> Seq(FrameOf(ids))]
<1> DEFINE F == FrameOf(ids)
           R == RowOf(ids)
           T == TallyOf(ids)
<1>1. /\ frames \in [Stations -> Seq(F)] /\ air \in [Stations -> Seq(F)]
      /\ results \in [Stations -> Seq(R)] /\ ids \in Nat
      /\ armed \in [Stations -> T] /\ held \in [Stations -> T]
      /\ lastSwap \in [Stations -> 0 .. ids] /\ served \in [Stations -> BOOLEAN]
  BY DEF SweepInv, Engines, Counters, Tallies, Path, Drawn
<1>2. None \in T BY NoneIsTally DEF SweepInv
<1> HIDE DEF F, R, T
<1>3. 0 \in 0 .. ids BY <1>1
<1>4. results' \in [Stations -> Seq(R)] /\ frames' \in [Stations -> Seq(F)]
      /\ air' \in [Stations -> Seq(F)]
  BY <1>1 DEF Clean
<1>5. /\ lastSwap' \in [Stations -> 0 .. ids] /\ served' \in [Stations -> BOOLEAN]
      /\ armed' \in [Stations -> T] /\ held' \in [Stations -> T]
  BY <1>1, <1>2, <1>3 DEF Clean
<1>6. \A t \in Stations : results'[t] = results[t] \/ results'[t] = << >>
  BY <1>1 DEF Clean
<1> QED BY <1>4, <1>5, <1>6 DEF F, R, T

LEMMA StartKeeps == ASSUME SweepInv, Start PROVE SweepInv'
<1>1. /\ calls < MaxCalls /\ calls' = calls + 1 /\ Begin(Caller) /\ Clean(Caller)
      /\ UNCHANGED <<faults, heard>>
  BY DEF Start
<1>2. ids \in Nat /\ ids' = ids + 1 /\ Caller \in Stations
  BY <1>1, StationsAre DEF Begin, SweepInv, Counters
<1>3. /\ results' \in [Stations -> Seq(RowOf(ids))]
      /\ \A t \in Stations : results'[t] = results[t] \/ results'[t] = << >>
      /\ lastSwap' \in [Stations -> 0 .. ids] /\ served' \in [Stations -> BOOLEAN]
      /\ armed' \in [Stations -> TallyOf(ids)] /\ held' \in [Stations -> TallyOf(ids)]
      /\ frames' \in [Stations -> Seq(FrameOf(ids))]
      /\ air' \in [Stations -> Seq(FrameOf(ids))]
  BY <1>1, <1>2, CleanKeeps
<1>4. /\ TallyOf(ids) \subseteq TallyOf(ids') /\ FrameOf(ids) \subseteq FrameOf(ids')
      /\ 0 .. ids \subseteq 0 .. ids' /\ 1 .. ids \subseteq 1 .. ids'
  BY <1>2, MoreDrawn
<1>5. lastSwap' \in [Stations -> 0 .. ids'] BY <1>3, <1>4
<1>6. Engines' /\ Drawn' /\ Climbs' /\ MeasuredOnce'
  BY <1>1, <1>2, <1>3, <1>5, BeginKeeps
<1>7. Counters' BY <1>1, <1>2, SweepAssumption DEF SweepInv, Counters
<1>8. Tallies'
  <2>1. /\ armed' \in [Stations -> TallyOf(ids')] /\ held' \in [Stations -> TallyOf(ids')]
    BY <1>3, <1>4
  <2> QED BY <1>1, <1>4, <2>1 DEF SweepInv, Tallies
<1>9. Path' BY <1>3, <1>4 DEF Path
<1> QED BY <1>6, <1>7, <1>8, <1>9 DEF SweepInv

LEMMA VanishKeeps == ASSUME SweepInv, Vanish PROVE SweepInv'
<1>1. /\ pc' = [pc EXCEPT ![Caller] = "off"] /\ Clean(Caller) /\ Caller \in Stations
      /\ Fault(TRUE) /\ UNCHANGED <<id, mode, attempt, failures, ids, calls, heard>>
  BY StationsAre DEF Vanish, book
<1>2. /\ results' \in [Stations -> Seq(RowOf(ids))]
      /\ \A t \in Stations : results'[t] = results[t] \/ results'[t] = << >>
      /\ lastSwap' \in [Stations -> 0 .. ids] /\ served' \in [Stations -> BOOLEAN]
      /\ armed' \in [Stations -> TallyOf(ids)] /\ held' \in [Stations -> TallyOf(ids)]
      /\ frames' \in [Stations -> Seq(FrameOf(ids))]
      /\ air' \in [Stations -> Seq(FrameOf(ids))]
  BY <1>1, CleanKeeps
<1>3. Engines' BY <1>1, <1>2 DEF SweepInv, Engines, Places, Over
<1>4. Counters' BY <1>1, SweepAssumption DEF SweepInv, Counters, Fault
<1>5. Tallies' /\ Path' BY <1>1, <1>2 DEF SweepInv, Tallies, Path
<1>6. \A t \in Stations : pc'[t] \in Walking => pc[t] \in Walking
  BY <1>1 DEF SweepInv, Engines, Walking
<1>7. Drawn' BY <1>1, <1>2, <1>6 DEF SweepInv, Drawn
<1>8. Climbs' /\ MeasuredOnce'
  <2>1. \A t \in Stations : \A i \in DOMAIN results'[t] : results'[t] = results[t]
    BY <1>2, DOMAIN << >> = {}
  <2>2. Climbs' BY <1>1, <1>6, <2>1 DEF SweepInv, Climbs
  <2>3. MeasuredOnce' BY <2>1 DEF SweepInv, MeasuredOnce
  <2> QED BY <2>2, <2>3
<1> QED BY <1>3, <1>4, <1>5, <1>7, <1>8 DEF SweepInv

----------------------------------------------------------------------------
LEMMA SweepInvInit == Init => SweepInv
<1> SUFFICES ASSUME Init PROVE SweepInv OBVIOUS
<1>0. /\ ids = 0 /\ calls = 0 /\ faults = 0 /\ heard = {}
      /\ frames = [s \in Stations |-> << >>] /\ air = [s \in Stations |-> << >>]
      /\ results = [s \in Stations |-> << >>]
      /\ armed = [s \in Stations |-> None] /\ held = [s \in Stations |-> None]
  BY DEF Init
<1>1. Counters BY <1>0, SweepAssumption DEF Counters
<1>2. Engines
  <2>1. 0 \in 0 .. 0 /\ 1 \in 1 .. Modes /\ 1 \in Nat \ {0} /\ 0 \in 0 .. FailuresToStop
    BY SweepAssumption
  <2>2. pc \in [Stations -> Places] BY DEF Init, Places, Over
  <2> QED BY <2>1, <2>2 DEF Init, Engines, Control
<1>3. Tallies
  <2>1. None \in TallyOf(ids) BY <1>1, NoneIsTally
  <2> QED BY <1>0, <2>1 DEF Tallies
<1>4. Path
  <2>1. << >> \in Seq(FrameOf(ids)) OBVIOUS
  <2> QED BY <1>0, <2>1 DEF Path
<1>5. Drawn
  <2>1. << >> \in Seq(RowOf(ids)) OBVIOUS
  <2>2. \A s \in Stations : pc[s] \notin Walking BY DEF Init, Walking
  <2> QED BY <1>0, <2>1, <2>2 DEF Drawn
<1>6. Climbs /\ MeasuredOnce
  <2>1. \A s \in Stations : DOMAIN results[s] = {} BY <1>0, DOMAIN << >> = {}
  <2> QED BY <2>1 DEF Climbs, MeasuredOnce
<1> QED BY <1>1, <1>2, <1>3, <1>4, <1>5, <1>6 DEF SweepInv

LEMMA SweepInvStep == SweepInv /\ [Next]_vars => SweepInv'
<1> SUFFICES ASSUME SweepInv, [Next]_vars PROVE SweepInv' OBVIOUS
<1>1. ASSUME NEW s \in Stations, Engine(s) PROVE SweepInv'
  <2>1. CASE Announce(s) \/ AnnounceTimeout(s) \/ HearReady(s)
    BY <2>1, AnnounceKeeps, AnnounceTimeoutKeeps, HearReadyKeeps
  <2>2. CASE Ask(s) \/ AskTimeout(s) \/ HearResult(s) \/ HearOther(s)
    BY <2>2, AskKeeps, AskTimeoutKeeps, HearResultKeeps, HearOtherKeeps
  <2>3. CASE Swap(s) \/ Bye(s) \/ ServeTimeout(s)
    BY <2>3, HandOverKeeps, ServeTimeoutKeeps
  <2>4. CASE ServeAnnounce(s) \/ ServeAsk(s)
    BY <2>4, ServeAnnounceKeeps, ServeAskKeeps
  <2>5. CASE ServeSwap(s) \/ ServeDone(s) \/ ServeStale(s)
    BY <2>5, ServeSwapKeeps, ServeOtherKeeps
  <2> QED BY <1>1, <2>1, <2>2, <2>3, <2>4, <2>5 DEF Engine
<1>2. ASSUME NEW s \in Stations, Decode(s) \/ Expire(s) \/ Forget(s) PROVE SweepInv'
  BY <1>2, DecodeKeeps, ExpireKeeps
<1>3. CASE Start \/ Vanish BY <1>3, StartKeeps, VanishKeeps
<1>4. CASE UNCHANGED vars
  <2>1. UNCHANGED <<pc, id, mode, attempt, failures, served, lastSwap, results, armed, held,
                    frames, air, faults, ids, calls, heard>>
    BY <1>4 DEF vars, engine, receiver, book
  <2>2. Engines' /\ Counters' /\ Tallies' /\ Path'
    BY <2>1 DEF SweepInv, Engines, Counters, Tallies, Path
  <2>3. Drawn' /\ Climbs' /\ MeasuredOnce' BY <2>1, SameReport
  <2> QED BY <2>2, <2>3 DEF SweepInv
<1> QED BY <1>1, <1>2, <1>3, <1>4 DEF Next

LEMMA SweepInvHolds == Spec => []SweepInv
BY SweepInvInit, SweepInvStep, PTL DEF Spec

\* Every variable keeps its type, and no frame, tally or count names a sweep
\* that has not been drawn.
THEOREM SweepTypeCorrect == Spec => []TypeOK
<1>1. SweepInv => TypeOK
  <2> SUFFICES ASSUME SweepInv PROVE TypeOK OBVIOUS
  <2>1. /\ pc \in [Stations -> {"off", "announce", "awaitReady", "ask", "awaitResult",
                                "swap", "bye", "serve", "done", "failed"}]
    BY DEF SweepInv, Engines, Places, Walking, Over
  <2>2. TallyType = TallyOf(ids) BY DEF TallyType, TallyOf
  <2>3. ASSUME NEW s \in Stations, NEW q \in {frames[s], air[s]}, NEW i \in DOMAIN q
        PROVE  q[i].type \in FrameTypes /\ q[i].sid \in 0 .. ids /\ q[i].mode \in 0 .. Modes
    <3>1. q \in Seq(FrameOf(ids)) /\ ids \in Nat BY <2>3 DEF SweepInv, Path, Counters
    <3>2. q[i] \in FrameOf(ids) BY <3>1
    <3> QED BY <3>1, <3>2, FramesAre
  <2> QED BY <2>1, <2>2, <2>3 DEF TypeOK, SweepInv, Engines, Counters, Tallies
<1> QED BY <1>1, SweepInvHolds, PTL

\* A report has one row for a direction, sweep and mode, whatever was repeated:
\* the walk climbs, and the serving side looks before it records (_recorded).
THEOREM AlwaysMeasuredOnce == Spec => []MeasuredOnce
<1>1. SweepInv => MeasuredOnce BY DEF SweepInv
<1> QED BY <1>1, SweepInvHolds, PTL

----------------------------------------------------------------------------
(* What is on its way to a station, and in what order *)

In(q) == {q[i] : i \in DOMAIN q}
Pair(q, f, g) == \E i, j \in DOMAIN q : i < j /\ q[i] = f /\ q[j] = g

On(s) == In(frames[s]) \union In(air[s])
Earlier(s, f, g) ==
  \/ Pair(frames[s], f, g) \/ Pair(air[s], f, g)
  \/ f \in In(frames[s]) /\ g \in In(air[s])

LEMMA EmptyQueue == In(<< >>) = {} /\ \A f, g : ~Pair(<< >>, f, g)
BY DEF In, Pair

LEMMA SingleQueue ==
  ASSUME NEW x PROVE In(<<x>>) = {x} /\ \A f, g : ~Pair(<<x>>, f, g)
<1>1. DOMAIN <<x>> = {1} /\ <<x>>[1] = x OBVIOUS
<1> QED BY <1>1 DEF In, Pair

LEMMA TailQueue ==
  ASSUME NEW S, NEW q \in Seq(S), q # << >>
  PROVE  /\ Head(q) \in In(q) /\ In(Tail(q)) \subseteq In(q)
         /\ \A f \in In(q) : f = Head(q) \/ f \in In(Tail(q))
         /\ \A f, g : Pair(Tail(q), f, g) => Pair(q, f, g)
         /\ \A g \in In(Tail(q)) : Pair(q, Head(q), g)
<1>1. /\ Len(q) \in Nat \ {0} /\ DOMAIN q = 1 .. Len(q) /\ Head(q) = q[1]
      /\ DOMAIN Tail(q) = 1 .. Len(q) - 1
      /\ \A i \in 1 .. Len(q) - 1 : Tail(q)[i] = q[i + 1] /\ i + 1 \in 1 .. Len(q)
  OBVIOUS
<1>2. Head(q) \in In(q) /\ In(Tail(q)) \subseteq In(q) BY <1>1 DEF In
<1>3. ASSUME NEW f \in In(q), f # Head(q) PROVE f \in In(Tail(q))
  <2>1. PICK i \in 1 .. Len(q) : f = q[i] BY <1>1 DEF In
  <2>2. i - 1 \in 1 .. Len(q) - 1 /\ q[i] = q[(i - 1) + 1] BY <1>1, <1>3, <2>1
  <2>3. Tail(q)[i - 1] = f BY <1>1, <2>1, <2>2
  <2> QED BY <1>1, <2>2, <2>3 DEF In
<1>4. ASSUME NEW f, NEW g, Pair(Tail(q), f, g) PROVE Pair(q, f, g)
  <2>1. PICK i \in 1 .. Len(q) - 1, j \in 1 .. Len(q) - 1 :
          i < j /\ Tail(q)[i] = f /\ Tail(q)[j] = g
    BY <1>1, <1>4 DEF Pair
  <2>2. i + 1 \in DOMAIN q /\ j + 1 \in DOMAIN q /\ i + 1 < j + 1 BY <1>1, <2>1
  <2>3. q[i + 1] = f /\ q[j + 1] = g BY <1>1, <2>1
  <2> QED BY <2>2, <2>3 DEF Pair
<1>5. ASSUME NEW g \in In(Tail(q)) PROVE Pair(q, Head(q), g)
  <2>1. PICK i \in 1 .. Len(q) - 1 : g = Tail(q)[i] BY <1>1 DEF In
  <2>2. 1 \in DOMAIN q /\ i + 1 \in DOMAIN q /\ 1 < i + 1 /\ q[1] = Head(q) /\ q[i + 1] = g
    BY <1>1, <2>1
  <2> QED BY <2>2 DEF Pair
<1> QED BY <1>2, <1>3, <1>4, <1>5

LEMMA JoinedQueue ==
  ASSUME NEW S, NEW q \in Seq(S), NEW h \in Seq(S)
  PROVE  /\ In(q \o h) = In(q) \union In(h)
         /\ \A f, g : Pair(q \o h, f, g) =>
              Pair(q, f, g) \/ Pair(h, f, g) \/ (f \in In(q) /\ g \in In(h))
<1> DEFINE n == Len(q)
           m == Len(h)
<1>1. /\ n \in Nat /\ m \in Nat /\ DOMAIN q = 1 .. n /\ DOMAIN h = 1 .. m
      /\ DOMAIN (q \o h) = 1 .. n + m
      /\ \A i \in 1 .. n : (q \o h)[i] = q[i]
      /\ \A i \in 1 .. n + m : i > n => (q \o h)[i] = h[i - n]
  OBVIOUS
<1>2. \A i \in 1 .. n + m : i > n => i - n \in 1 .. m BY <1>1
<1>3. \A i \in 1 .. m : n + i \in 1 .. n + m /\ n + i > n /\ (n + i) - n = i BY <1>1
<1>3a. \A i \in 1 .. n : i \in 1 .. n + m BY <1>1
<1> HIDE DEF n, m
<1>4. ASSUME NEW f \in In(q \o h) PROVE f \in In(q) \/ f \in In(h)
  <2>1. PICK i \in 1 .. n + m : f = (q \o h)[i] BY <1>1 DEF In
  <2>2. CASE i > n BY <1>1, <1>2, <2>1, <2>2 DEF In
  <2>3. CASE ~(i > n)
    <3>1. i \in 1 .. n BY <1>1, <2>3
    <3> QED BY <1>1, <2>1, <3>1 DEF In
  <2> QED BY <2>2, <2>3
<1>5. ASSUME NEW f, f \in In(q) \/ f \in In(h) PROVE f \in In(q \o h)
  <2>1. CASE f \in In(q)
    <3>1. PICK i \in 1 .. n : f = q[i] BY <1>1, <2>1 DEF In
    <3>2. i \in DOMAIN (q \o h) /\ (q \o h)[i] = f BY <1>1, <1>3a, <3>1
    <3> QED BY <3>2 DEF In
  <2>2. CASE f \in In(h)
    <3>1. PICK i \in 1 .. m : f = h[i] BY <1>1, <2>2 DEF In
    <3>2. n + i \in DOMAIN (q \o h) /\ (q \o h)[n + i] = f BY <1>1, <1>3, <3>1
    <3> QED BY <3>2 DEF In
  <2> QED BY <1>5, <2>1, <2>2
<1>6. ASSUME NEW f, NEW g, Pair(q \o h, f, g)
      PROVE  Pair(q, f, g) \/ Pair(h, f, g) \/ (f \in In(q) /\ g \in In(h))
  <2>1. PICK i \in 1 .. n + m, j \in 1 .. n + m :
          i < j /\ (q \o h)[i] = f /\ (q \o h)[j] = g
    BY <1>1, <1>6 DEF Pair
  <2>2. CASE j \in 1 .. n
    <3>1. i \in 1 .. n BY <1>1, <2>1, <2>2
    <3> QED BY <1>1, <2>1, <2>2, <3>1 DEF Pair
  <2>3. CASE i \in 1 .. n /\ j > n BY <1>1, <1>2, <2>1, <2>3 DEF In
  <2>4. CASE i > n
    <3>1. j > n /\ i - n < j - n BY <1>1, <2>1, <2>4
    <3> QED BY <1>1, <1>2, <2>1, <2>4, <3>1 DEF Pair
  <2> QED BY <1>1, <2>1, <2>2, <2>3, <2>4
<1> QED BY <1>4, <1>5, <1>6

LEMMA AppendedQueue ==
  ASSUME NEW S, NEW q \in Seq(S), NEW x \in S
  PROVE  /\ In(Append(q, x)) = In(q) \union {x}
         /\ \A f, g : Pair(Append(q, x), f, g) => Pair(q, f, g) \/ (f \in In(q) /\ g = x)
<1> DEFINE h == <<x>>
<1>1. Append(q, x) = q \o h /\ h \in Seq(S) OBVIOUS
<1>2. In(h) = {x} /\ \A f, g : ~Pair(h, f, g) BY SingleQueue
<1> HIDE DEF h
<1>3. /\ In(q \o h) = In(q) \union In(h)
      /\ \A f, g : Pair(q \o h, f, g) =>
           Pair(q, f, g) \/ Pair(h, f, g) \/ (f \in In(q) /\ g \in In(h))
  BY <1>1, JoinedQueue
<1> QED BY <1>1, <1>2, <1>3

LEMMA QueueIn ==
  ASSUME NEW S, NEW q \in Seq(S) PROVE In(q) \subseteq S
BY DEF In

----------------------------------------------------------------------------
(* What makes a report exact *)

\* The frames of a walk, in the order they are keyed for one mode
Walks == {"ANNOUNCE", "DATA", "ASK"}
\* The burst of the mode in hand has been keyed.
Asking == {"ask", "awaitResult"}

Count(x, m) == {k \in Seqs : <<x, m, k>> \in heard}
NotAfter(x, m, y, n) == x < y \/ (x = y /\ m <= n)

\* How far the walk of sweep x has come, whether or not it goes on
OfWalk(q, x)    == id[q] = x /\ pc[q] \in Walking
Announced(x, m) == \A q \in Stations : OfWalk(q, x) => m <= mode[q]
Sent(x, m)      == \A q \in Stations : OfWalk(q, x) =>
                     m < mode[q] \/ (m = mode[q] /\ pc[q] \in Asking)
Passed(x, m)    == \A q \in Stations : OfWalk(q, x) => m < mode[q]

Armed(s) == armed[s].sid # 0
ArmedFor(s, x, m) == armed[s].sid = x /\ armed[s].mode = m
Names(f, type, x, m) == f.type = type /\ f.sid = x /\ f.mode = m

\* Nothing on its way, and nothing counted, is ahead of the walk it is of.
Placed ==
  /\ \A s \in Stations : \A f \in On(s) :
       /\ f.type \in Walks => f.sid # 0 /\ f.sid <= id[Peer(s)] /\ Announced(f.sid, f.mode)
       /\ f.type \in {"DATA", "ASK"} => Sent(f.sid, f.mode)
       /\ f.type = "READY" => f.sid # 0 /\ f.sid <= id[s] /\ Announced(f.sid, f.mode)
  /\ \A s \in Stations : \A f \in In(frames[s]) : f.type # "DATA"
  /\ \A s \in Stations :
       IF Armed(s)
       THEN armed[s].sid <= id[Peer(s)] /\ Announced(armed[s].sid, armed[s].mode)
       ELSE armed[s] = None
  /\ \A x \in 1 .. ids, m \in 1 .. Modes, k \in Seqs : <<x, m, k>> \in heard => Sent(x, m)

\* The sweep is one the other station drives.
Follows(s, x) == /\ x # 0
                 /\ \/ \E f \in On(s) : f.type \in Walks /\ f.sid = x
                    \/ armed[s].sid = x \/ held[s].sid = x

Owned ==
  /\ \A s \in Stations : \A x \in 1 .. ids :
       Follows(s, x) => ~Follows(Peer(s), x) /\ x # id[s]
  /\ \A s \in Stations : id[s] = id[Peer(s)] => id[s] = 0

\* Two frames of walks, the first on its way ahead of the second
InOrder(f, g) ==
  (f.type \in Walks /\ g.type \in Walks) =>
    /\ NotAfter(f.sid, f.mode, g.sid, g.mode)
    /\ (f.sid = g.sid /\ f.mode = g.mode) =>
         /\ g.type = "ANNOUNCE" => f.type = "ANNOUNCE"
         /\ (f.type = "DATA" /\ g.type = "DATA") => f.seq < g.seq

Sorted ==
  \A s \in Stations :
    /\ \A f, g \in On(s) : Earlier(s, f, g) => InOrder(f, g)
    /\ Armed(s) => \A f \in On(s) :
         f.type \in Walks => NotAfter(armed[s].sid, armed[s].mode, f.sid, f.mode)

\* A burst, and the READY that asks for it, are for what is armed, or was.
Answering ==
  \A s \in Stations :
    /\ \A f \in On(Peer(s)) : f.type = "READY" =>
         /\ Armed(s) => NotAfter(f.sid, f.mode, armed[s].sid, armed[s].mode)
         /\ \A g \in On(s) : g.type = "ANNOUNCE" => NotAfter(f.sid, f.mode, g.sid, g.mode)
    /\ \A f \in On(s) : (f.type = "DATA" /\ Armed(s)) =>
         NotAfter(f.sid, f.mode, armed[s].sid, armed[s].mode)

\* The tally in progress is all that was counted; an announcement that comes
\* again after something was counted finds that very tally.
Counted ==
  \A s \in Stations :
    /\ Armed(s) =>
         /\ armed[s].decoded = Count(armed[s].sid, armed[s].mode)
         /\ (armed[s].near # 0 /\ armed[s].mode # Control)
              => Sent(armed[s].sid, armed[s].mode)
    /\ \A f \in On(s) : (f.type = "ANNOUNCE" /\ Count(f.sid, f.mode) # {}) =>
         ArmedFor(s, f.sid, f.mode) /\ f \notin In(air[s])

\* The tally that was kept is exact unless nobody will ask for it any more.
Stale(s) == held[s].sid # 0 /\ held[s].decoded # Count(held[s].sid, held[s].mode)

Kept ==
  \A s \in Stations : Stale(s) =>
    \/ ArmedFor(s, held[s].sid, held[s].mode)
    \/ /\ Passed(held[s].sid, held[s].mode)
       /\ \A f \in On(s) : ~Names(f, "ASK", held[s].sid, held[s].mode)

\* Nothing more of this sweep and mode will be counted anywhere.
Final(x, m) ==
  /\ x # 0 /\ Sent(x, m)
  /\ \A s \in Stations :
       ~ArmedFor(s, x, m) /\ \A f \in On(s) : ~Names(f, "ANNOUNCE", x, m)

Settled ==
  \A s \in Stations :
    /\ \A f \in On(s) : f.type = "RESULT" =>
         Final(f.sid, f.mode) /\ f.tally.decoded = Count(f.sid, f.mode)
    /\ \A row \in Rows(s) : row.answered =>
         Final(row.sid, row.mode) /\ row.decoded = Count(row.sid, row.mode)

Within(t) == t.near + Cardinality(t.decoded) <= Frames

\* The frames of a burst still to come leave room for themselves, at the modes
\* where nothing but the burst can be a near miss.
Fits(t) == t.mode # Control => Within(t)

Room ==
  \A s \in Stations :
    /\ Fits(armed[s]) /\ Fits(held[s])
    /\ \A f \in On(s) : (f.type = "RESULT" /\ f.mode # Control) => Within(f.tally)
    /\ Armed(s) => \A f \in On(s) :
         (f.type = "DATA" /\ f.mode = armed[s].mode /\ f.mode # Control) =>
           armed[s].near + Cardinality(armed[s].decoded) <= f.seq

ExactInv == /\ Placed /\ Owned /\ Sorted /\ Answering /\ Counted /\ Kept /\ Settled
            /\ Room /\ CountsAddUp

----------------------------------------------------------------------------
(* What a step may do, as far as reports go *)

\* Walks begin under new identifiers and only climb.
Onward ==
  /\ ids' \in Nat /\ ids <= ids'
  /\ \A q \in Stations :
       /\ id[q] <= id'[q] /\ (id'[q] = id[q] \/ id'[q] > ids)
       /\ id'[q] # id[q] => id'[Peer(q)] = id[Peer(q)]
       /\ pc'[q] \in Walking =>
            \/ id'[q] > ids
            \/ /\ id'[q] = id[q] /\ pc[q] \in Walking /\ mode[q] <= mode'[q]
               /\ (mode'[q] = mode[q] /\ pc[q] \in Asking) => pc'[q] \in Asking

\* f is handled, and what remains came behind it.
Behind(s, f) == f \in On(s) /\ \A g \in On(s)' : Earlier(s, f, g)

\* An answer to a request: the tally told.
Tells(s, x, m, tally) ==
  /\ \E f \in On(s) : Names(f, "ASK", x, m) /\ Behind(s, f)
  /\ tally \in {armed[s], held[s]} /\ tally.sid = x /\ tally.mode = m
  /\ ArmedFor(s, x, m) => tally = armed[s]
  /\ armed'[s] = None \/ (armed'[s] = armed[s] /\ ~ArmedFor(s, x, m))
  /\ heard' = heard

\* What station s may find on its way that was not there
NewOn(s, f) ==
  LET p == Peer(s) IN
  \/ f.type = "ANNOUNCE" /\ pc[p] = "announce" /\ f.sid = id[p] /\ f.mode = mode[p]
  \/ f.type = "ASK" /\ pc[p] = "ask" /\ f.sid = id[p] /\ f.mode = mode[p]
  \/ /\ f.type = "DATA" /\ pc[p] = "awaitReady" /\ pc'[p] = "ask"
     /\ f.sid = id[p] /\ f.mode = mode[p] /\ f.seq \in Seqs
     /\ \E g \in On(p) : Names(g, "READY", f.sid, f.mode)
  \/ /\ f.type = "READY" /\ ArmedFor(p, f.sid, f.mode)'
     /\ \E g \in On(p) : Names(g, "ANNOUNCE", f.sid, f.mode) /\ Behind(p, g)
  \/ f.type = "RESULT" /\ Tells(p, f.sid, f.mode, f.tally)
  \/ f.type \in {"SWAP", "DONE"}

Moves(s) ==
  /\ \A f \in On(s)' : f \in On(s) \/ NewOn(s, f)
  /\ \A f \in In(air[s])' : f \in In(air[s]) \/ NewOn(s, f)
  /\ \A f \in In(frames[s])' : f.type # "DATA"
  /\ \A f, g \in On(s)' : Earlier(s, f, g)' =>
       \/ Earlier(s, f, g)
       \/ f \in On(s) /\ NewOn(s, g)
       \/ NewOn(s, f) /\ NewOn(s, g) /\ InOrder(f, g)

Keeps(s) == armed'[s] = armed[s] /\ held'[s] \in {held[s], None}

Drops(s) ==
  /\ armed'[s] = None /\ held'[s] \in {armed[s], None}
  /\ \/ \A f \in On(s)' : f \in In(air[s])
     \/ \E f \in On(s) : f.type = "ASK" /\ ArmedFor(s, f.sid, f.mode) /\ Behind(s, f)

Arms(s) ==
  \E f \in On(s) :
    /\ f.type = "ANNOUNCE" /\ Behind(s, f) /\ In(air[s])' = {} /\ held'[s] = held[s]
    /\ armed'[s] = IF ArmedFor(s, f.sid, f.mode) /\ armed[s].decoded # {}
                   THEN armed[s] ELSE Fresh(f.sid, f.mode)

\* A frame of a burst, the next to be decoded
Decodes(s, f) ==
  /\ f \in On(s) /\ f.type = "DATA" /\ held'[s] = held[s] /\ On(s)' \subseteq On(s)
  /\ \A g \in On(s)' : g.type # "DATA" \/ Earlier(s, f, g)
  /\ \A g \in In(air[s])' : Earlier(s, f, g)

Counts(s) ==
  \E f \in On(s) :
    /\ Decodes(s, f) /\ ArmedFor(s, f.sid, f.mode)
    /\ armed'[s] = [armed[s] EXCEPT !.decoded = @ \union {f.seq}]
    /\ heard' = heard \union {<<f.sid, f.mode, f.seq>>}

NearlyCounts(s) ==
  \E f \in On(s) :
    /\ Decodes(s, f) /\ armed[s].mode = f.mode
    /\ armed'[s] = [armed[s] EXCEPT !.near = @ + 1]

\* A control frame counted as a near miss of the burst at the control mode
Strays(s) ==
  /\ armed[s].mode = Control /\ held'[s] = held[s]
  /\ armed'[s] = [armed[s] EXCEPT !.near = @ + 1]

Tallied(s) == \/ Keeps(s) \/ Drops(s) \/ Arms(s)
              \/ Counts(s) \/ NearlyCounts(s) \/ Strays(s)

\* Where a new row comes from
Told(s, row) ==
  \E dir \in {"TX", "RX"}, tally \in TallyOf(ids), answered \in BOOLEAN :
    /\ row = Row(dir, row.sid, row.mode, tally, answered)
    /\ \/ ~answered /\ tally = None
       \/ \E f \in On(s) : Names(f, "RESULT", row.sid, row.mode) /\ tally = f.tally
       \/ Tells(s, row.sid, row.mode, tally)

Steps ==
  /\ Onward
  /\ heard' = heard \/ \E u \in Stations : Counts(u)
  /\ \A s \in Stations : Moves(s) /\ Tallied(s)
  /\ \A s \in Stations : \A row \in Rows(s)' : row \in Rows(s) \/ Told(s, row)

----------------------------------------------------------------------------
(* Every such step keeps reports exact *)

LEMMA TwoStations ==
  ASSUME NEW s \in Stations
  PROVE  Peer(s) \in Stations /\ Peer(Peer(s)) = s /\ Peer(s) # s
         /\ \A t \in Stations : t = s \/ t = Peer(s)
BY SweepAssumption DEF Stations, Peer

LEMMA OnTypes ==
  ASSUME SweepInv, NEW s \in Stations, NEW f \in On(s)
  PROVE  /\ f \in FrameOf(ids) /\ f.sid \in 0 .. ids /\ f.mode \in 0 .. Modes
         /\ f.type = "DATA" => f.seq \in Seqs /\ f.sid \in 1 .. ids /\ f.mode \in 1 .. Modes
         /\ f.type = "RESULT" => f.tally \in TallyOf(ids)
<1>1. ids \in Nat BY DEF SweepInv, Counters
<1> DEFINE F == FrameOf(ids)
<1>2. frames[s] \in Seq(F) /\ air[s] \in Seq(F) BY DEF SweepInv, Path
<1> HIDE DEF F
<1>3. f \in F BY <1>2, QueueIn DEF On
<1>4. f \in FrameOf(ids) BY <1>3 DEF F
<1>5. /\ f.sid \in 0 .. ids /\ f.mode \in 0 .. Modes
      /\ f.type = "RESULT" => f.tally \in TallyOf(ids)
      /\ f.type = "DATA" => f \in DataOf(ids)
  BY <1>1, <1>4, FramesAre
<1> QED BY <1>4, <1>5 DEF DataOf

LEMMA Numbers ==
  ASSUME SweepInv, NEW s \in Stations
  PROVE  /\ ids \in Nat /\ Modes \in Nat /\ id[s] \in 0 .. ids /\ mode[s] \in 1 .. Modes
         /\ armed[s] \in TallyOf(ids) /\ held[s] \in TallyOf(ids)
         /\ armed[s].sid \in 0 .. ids /\ armed[s].mode \in 0 .. Modes
         /\ armed[s].decoded \subseteq Seqs /\ armed[s].near \in Nat
         /\ held[s].sid \in 0 .. ids /\ held[s].mode \in 0 .. Modes
         /\ pc[s] \in Walking => id[s] # 0
<1>1. armed[s] \in TallyOf(ids) /\ held[s] \in TallyOf(ids) BY DEF SweepInv, Tallies
<1>2. /\ armed[s].sid \in 0 .. ids /\ armed[s].mode \in 0 .. Modes
      /\ armed[s].decoded \subseteq Seqs /\ armed[s].near \in Nat
      /\ held[s].sid \in 0 .. ids /\ held[s].mode \in 0 .. Modes
  BY <1>1 DEF TallyOf
<1> QED BY <1>1, <1>2, SweepAssumption DEF SweepInv, Counters, Engines, Drawn

LEMMA NoneIs == None.sid = 0 /\ None.mode = 0 /\ None.decoded = {} /\ None.near = 0
BY DEF None

LEMMA FreshIs ==
  ASSUME NEW x, NEW m
  PROVE  Fresh(x, m).sid = x /\ Fresh(x, m).mode = m /\ Fresh(x, m).decoded = {}
         /\ Fresh(x, m).near = 0
BY DEF Fresh

\* How far a walk has come is never undone.
LEMMA Reached ==
  ASSUME SweepInv, SweepInv', Onward, NEW x \in 1 .. ids, NEW m \in 0 .. Modes
  PROVE  /\ Announced(x, m) => Announced(x, m)'
         /\ Sent(x, m) => Sent(x, m)'
         /\ Passed(x, m) => Passed(x, m)'
<1>0. ids \in Nat /\ Modes \in Nat BY SweepAssumption DEF SweepInv, Counters
<1>1. ASSUME NEW q \in Stations, OfWalk(q, x)'
      PROVE  /\ OfWalk(q, x) /\ mode[q] <= mode'[q] /\ mode[q] \in Int /\ mode'[q] \in Int
             /\ (mode'[q] = mode[q] /\ pc[q] \in Asking) => pc'[q] \in Asking
  <2>1. id'[q] = x /\ pc'[q] \in Walking BY <1>1 DEF OfWalk
  <2>2. mode[q] \in Int /\ mode'[q] \in Int BY DEF SweepInv, Engines
  <2> QED BY <1>0, <2>1, <2>2 DEF Onward, OfWalk
<1>2. Announced(x, m) => Announced(x, m)' BY <1>0, <1>1 DEF Announced
<1>3. Sent(x, m) => Sent(x, m)' BY <1>0, <1>1 DEF Sent
<1>4. Passed(x, m) => Passed(x, m)' BY <1>0, <1>1 DEF Passed
<1> QED BY <1>2, <1>3, <1>4

LEMMA PassedSent ==
  ASSUME NEW x, NEW m, Passed(x, m) PROVE Sent(x, m)
BY DEF Passed, Sent

\* What a walk keys is of the mode it has reached.
LEMMA NewPlaced ==
  ASSUME SweepInv, SweepInv', ExactInv, Steps, NEW s \in Stations, NEW f, NewOn(s, f)
  PROVE  /\ f.type \in Walks =>
              /\ f.sid \in 1 .. ids /\ f.sid = id[Peer(s)] /\ f.mode = mode[Peer(s)]
              /\ f.mode \in 0 .. Modes /\ Announced(f.sid, f.mode)
              /\ pc[Peer(s)] \in Walking
         /\ f.type \in {"DATA", "ASK"} => Sent(f.sid, f.mode)'
         /\ f.type = "READY" =>
              /\ f.sid \in 1 .. ids /\ f.mode \in 0 .. Modes
              /\ f.sid <= id[s] /\ Announced(f.sid, f.mode)
<1> DEFINE p == Peer(s)
<1>0. p \in Stations /\ Peer(p) = s /\ p # s /\ \A t \in Stations : t = s \/ t = p
  BY TwoStations
<1> HIDE DEF p
<1>n. /\ ids \in Nat /\ Modes \in Nat /\ id[s] \in 0 .. ids /\ mode[s] \in 1 .. Modes
      /\ id[p] \in 0 .. ids /\ mode[p] \in 1 .. Modes
      /\ pc[p] \in Walking => id[p] # 0
      /\ pc[s] \in Walking => id[s] # 0
  BY <1>0, Numbers
<1>1. ASSUME f.type \in Walks
      PROVE  /\ f.sid \in 1 .. ids /\ f.sid = id[p] /\ f.mode = mode[p]
             /\ f.mode \in 0 .. Modes /\ Announced(f.sid, f.mode)
             /\ pc[p] \in Walking
  <2>1. pc[p] \in Walking /\ f.sid = id[p] /\ f.mode = mode[p]
    BY <1>1 DEF NewOn, Walks, Walking, p
  <2>2. ~OfWalk(s, id[p]) BY <1>0, <1>n, <2>1 DEF OfWalk, ExactInv, Owned
  <2>3. Announced(f.sid, f.mode) BY <1>0, <1>n, <2>1, <2>2 DEF Announced
  <2> QED BY <1>n, <2>1, <2>3
<1>2. ASSUME f.type \in {"DATA", "ASK"} PROVE Sent(f.sid, f.mode)'
  <2>0. f.type \in Walks BY <1>2 DEF Walks
  <2>1. /\ f.sid \in 1 .. ids /\ f.sid = id[p] /\ f.mode = mode[p] /\ pc[p] \in Walking
        /\ f.mode \in 0 .. Modes
    BY <1>1, <2>0
  <2>2. ~OfWalk(s, id[p]) BY <1>0, <1>n, <2>1 DEF OfWalk, ExactInv, Owned
  <2>3. CASE pc[p] = "ask"
    <3>1. Sent(f.sid, f.mode) BY <1>0, <1>n, <2>1, <2>2, <2>3 DEF Sent, Asking
    <3> QED BY <2>1, <3>1, Reached DEF Steps
  <2>4. CASE pc'[p] = "ask"
    <3>1. ~OfWalk(s, f.sid)'
      BY <1>0, <1>n, <2>1, <2>2 DEF OfWalk, Steps, Onward
    <3>2. OfWalk(p, f.sid)' => mode[p] <= mode'[p]
      BY <1>0, <1>n, <2>1 DEF OfWalk, Steps, Onward
    <3>3. mode'[p] \in Int BY <1>0 DEF SweepInv, Engines
    <3>4. pc'[p] \in Asking BY <2>4 DEF Asking
    <3> QED BY <1>0, <1>n, <2>1, <3>1, <3>2, <3>3, <3>4 DEF Sent
  <2> QED BY <1>2, <2>3, <2>4 DEF NewOn, p
<1>3. ASSUME f.type = "READY"
      PROVE  /\ f.sid \in 1 .. ids /\ f.mode \in 0 .. Modes
             /\ f.sid <= id[s] /\ Announced(f.sid, f.mode)
  <2>1. PICK g \in On(p) : Names(g, "ANNOUNCE", f.sid, f.mode) BY <1>3 DEF NewOn, p
  <2>2. g.sid \in 0 .. ids /\ g.mode \in 0 .. Modes BY <1>0, OnTypes
  <2>3. g.sid # 0 /\ g.sid <= id[s] /\ Announced(g.sid, g.mode)
    BY <1>0, <2>1 DEF ExactInv, Placed, Names, Walks
  <2> QED BY <1>n, <2>1, <2>2, <2>3 DEF Names
<1> QED BY <1>1, <1>2, <1>3 DEF p

LEMMA Recounted ==
  ASSUME NEW n, NEW t \in TallyOf(n), NEW x
  PROVE  /\ [t EXCEPT !.decoded = x].sid = t.sid /\ [t EXCEPT !.decoded = x].mode = t.mode
         /\ [t EXCEPT !.decoded = x].near = t.near /\ [t EXCEPT !.decoded = x].decoded = x
         /\ [t EXCEPT !.near = x].sid = t.sid /\ [t EXCEPT !.near = x].mode = t.mode
         /\ [t EXCEPT !.near = x].near = x /\ [t EXCEPT !.near = x].decoded = t.decoded
BY DEF TallyOf

\* A station stays armed, or is armed by an announcement on its way.
ArmedBy(s, f) == /\ f \in On(s) /\ f.type = "ANNOUNCE" /\ Behind(s, f) /\ In(air[s])' = {}
                 /\ armed'[s].sid = f.sid /\ armed'[s].mode = f.mode
SameArmed(s) == armed'[s].sid = armed[s].sid /\ armed'[s].mode = armed[s].mode

LEMMA ArmedMoves ==
  ASSUME SweepInv, ExactInv, NEW s \in Stations, Tallied(s)
  PROVE  /\ Armed(s)' => SameArmed(s) \/ \E f \in On(s) : ArmedBy(s, f)
         /\ ~Armed(s)' => armed'[s] = None
         /\ held'[s].sid \in {0, held[s].sid, armed[s].sid}
<1>n. /\ armed[s] \in TallyOf(ids) /\ held[s] \in TallyOf(ids) BY Numbers
<1>p. ~Armed(s) => armed[s] = None BY DEF ExactInv, Placed
<1>1. CASE Keeps(s) BY <1>1, <1>p, NoneIs DEF Keeps, SameArmed, Armed
<1>2. CASE Drops(s) BY <1>2, NoneIs DEF Drops, Armed
<1>3. CASE Arms(s)
  <2>1. PICK f \in On(s) :
          /\ f.type = "ANNOUNCE" /\ Behind(s, f) /\ In(air[s])' = {} /\ held'[s] = held[s]
          /\ armed'[s] = IF ArmedFor(s, f.sid, f.mode) /\ armed[s].decoded # {}
                         THEN armed[s] ELSE Fresh(f.sid, f.mode)
    BY <1>3 DEF Arms
  <2>2. armed'[s].sid = f.sid /\ armed'[s].mode = f.mode BY <2>1, FreshIs DEF ArmedFor
  <2>3. f.sid # 0 BY <2>1 DEF ExactInv, Placed, Walks
  <2> QED BY <2>1, <2>2, <2>3 DEF ArmedBy, Armed
<1>4. CASE Counts(s)
  <2>1. PICK f \in On(s) :
          /\ Decodes(s, f) /\ armed'[s] = [armed[s] EXCEPT !.decoded = @ \union {f.seq}]
          /\ ArmedFor(s, f.sid, f.mode)
    BY <1>4 DEF Counts
  <2>2. f.sid # 0 BY <2>1 DEF ExactInv, Placed, Walks, Decodes
  <2> QED BY <1>n, <2>1, <2>2, Recounted DEF Decodes, SameArmed, Armed, ArmedFor
<1>5. CASE NearlyCounts(s)
  <2>1. PICK f \in On(s) :
          /\ Decodes(s, f) /\ armed'[s] = [armed[s] EXCEPT !.near = @ + 1]
          /\ armed[s].mode = f.mode
    BY <1>5 DEF NearlyCounts
  <2>2. f.mode \in 1 .. Modes BY <2>1, OnTypes DEF Decodes
  <2>3. f.mode # 0 BY <2>2
  <2>4. Armed(s) BY <1>p, <2>1, <2>3, NoneIs
  <2> QED BY <1>n, <2>1, <2>4, Recounted DEF Decodes, SameArmed, Armed
<1>6. CASE Strays(s)
  <2>1. Armed(s) BY <1>6, <1>p, NoneIs DEF Strays, Control
  <2> QED BY <1>6, <1>n, <2>1, Recounted DEF Strays, SameArmed, Armed
<1> QED BY <1>1, <1>2, <1>3, <1>4, <1>5, <1>6 DEF Tallied

LEMMA PlacedKeeps ==
  ASSUME SweepInv, SweepInv', ExactInv, Steps PROVE Placed'
<1>0. /\ Onward /\ \A s \in Stations : Moves(s) /\ Tallied(s)
      /\ heard' = heard \/ \E u \in Stations : Counts(u)
  BY DEF Steps
<1>1. ASSUME NEW s \in Stations, NEW f \in On(s)'
      PROVE  /\ f.type \in Walks =>
                   f.sid # 0 /\ f.sid <= id'[Peer(s)] /\ Announced(f.sid, f.mode)'
             /\ f.type \in {"DATA", "ASK"} => Sent(f.sid, f.mode)'
             /\ f.type = "READY" => f.sid # 0 /\ f.sid <= id'[s] /\ Announced(f.sid, f.mode)'
  <2>0. Peer(s) \in Stations BY TwoStations
  <2>1. /\ id[s] \in Int /\ id'[s] \in Int /\ id[s] <= id'[s] /\ ids \in Nat
        /\ id[Peer(s)] \in Int /\ id'[Peer(s)] \in Int /\ id[Peer(s)] <= id'[Peer(s)]
    BY <1>0, <2>0 DEF Onward, SweepInv, Engines, Counters
  <2>2. CASE f \in On(s)
    <3>1. f.sid \in 0 .. ids /\ f.mode \in 0 .. Modes BY <2>2, OnTypes
    <3>2. /\ f.type \in Walks => f.sid # 0 /\ f.sid <= id[Peer(s)] /\ Announced(f.sid, f.mode)
          /\ f.type \in {"DATA", "ASK"} => Sent(f.sid, f.mode)
          /\ f.type = "READY" => f.sid # 0 /\ f.sid <= id[s] /\ Announced(f.sid, f.mode)
      BY <2>2 DEF ExactInv, Placed
    <3>3. f.type \in {"DATA", "ASK"} => f.type \in Walks BY DEF Walks
    <3>4. f.sid # 0 => f.sid \in 1 .. ids BY <2>1, <3>1
    <3>5. f.sid # 0 => /\ Announced(f.sid, f.mode) => Announced(f.sid, f.mode)'
                       /\ Sent(f.sid, f.mode) => Sent(f.sid, f.mode)'
      BY <1>0, <3>1, <3>4, Reached
    <3> QED BY <2>1, <3>1, <3>2, <3>3, <3>5
  <2>3. CASE NewOn(s, f)
    <3>1. /\ f.type \in Walks => f.sid \in 1 .. ids /\ f.sid = id[Peer(s)]
               /\ f.mode \in 0 .. Modes /\ Announced(f.sid, f.mode)
          /\ f.type \in {"DATA", "ASK"} => Sent(f.sid, f.mode)'
          /\ f.type = "READY" => f.sid \in 1 .. ids /\ f.mode \in 0 .. Modes
                                 /\ f.sid <= id[s] /\ Announced(f.sid, f.mode)
      BY <2>3, NewPlaced
    <3>2. f.type \in Walks \union {"READY"} => Announced(f.sid, f.mode)'
      BY <1>0, <3>1, Reached
    <3> QED BY <2>1, <3>1, <3>2
  <2> QED BY <1>0, <2>2, <2>3 DEF Moves
<1>2. ASSUME NEW s \in Stations
      PROVE  IF Armed(s)'
             THEN armed'[s].sid <= id'[Peer(s)] /\ Announced(armed[s].sid, armed[s].mode)'
             ELSE armed'[s] = None
  <2>0. Peer(s) \in Stations /\ Tallied(s) BY <1>0, TwoStations
  <2>1. id[Peer(s)] \in Int /\ id'[Peer(s)] \in Int /\ id[Peer(s)] <= id'[Peer(s)] /\ ids \in Nat
    BY <1>0, <2>0 DEF Onward, SweepInv, Engines, Counters
  <2>2. PICK x, m : x = armed'[s].sid /\ m = armed'[s].mode OBVIOUS
  <2>3. ASSUME Armed(s)'
        PROVE  /\ x \in 1 .. ids /\ m \in 0 .. Modes /\ x <= id[Peer(s)] /\ Announced(x, m)
    <3>0. x # 0 BY <2>2, <2>3 DEF Armed
    <3>1. CASE SameArmed(s)
      <4>1. armed[s].sid \in 0 .. ids /\ armed[s].mode \in 0 .. Modes BY Numbers
      <4>2. Armed(s) /\ x = armed[s].sid /\ m = armed[s].mode
        BY <2>2, <3>0, <3>1 DEF SameArmed, Armed
      <4> QED BY <2>1, <3>0, <4>1, <4>2 DEF ExactInv, Placed
    <3>2. ASSUME NEW f \in On(s), ArmedBy(s, f)
          PROVE  x \in 1 .. ids /\ m \in 0 .. Modes /\ x <= id[Peer(s)] /\ Announced(x, m)
      <4>1. f.sid \in 0 .. ids /\ f.mode \in 0 .. Modes BY <3>2, OnTypes
      <4>2. f.type = "ANNOUNCE" /\ x = f.sid /\ m = f.mode BY <2>2, <3>2 DEF ArmedBy
      <4> QED BY <2>1, <3>0, <4>1, <4>2 DEF ExactInv, Placed, Walks
    <3> QED BY <2>0, <2>3, <3>1, <3>2, ArmedMoves
  <2>4. Armed(s)' => x <= id'[Peer(s)] /\ Announced(x, m)'
    BY <1>0, <2>1, <2>3, Reached
  <2> QED BY <2>0, <2>2, <2>4, ArmedMoves
<1>3. ASSUME NEW x \in 1 .. ids', NEW m \in 1 .. Modes, NEW k \in Seqs, <<x, m, k>> \in heard'
      PROVE  Sent(x, m)'
  <2>0. ids \in Nat /\ ids' \in Nat BY DEF SweepInv, Counters
  <2>1. x \in 1 .. ids /\ m \in 0 .. Modes /\ Sent(x, m)
    <3>1. CASE <<x, m, k>> \in heard
      <4>1. heard \subseteq (1 .. ids) \X (1 .. Modes) \X Seqs BY DEF SweepInv, Tallies
      <4>2. x \in 1 .. ids BY <3>1, <4>1
      <4> QED BY <3>1, <4>2 DEF ExactInv, Placed
    <3>2. CASE <<x, m, k>> \notin heard
      <4>1. PICK u \in Stations : Counts(u) BY <1>0, <1>3, <3>2
      <4>2. PICK f \in On(u) : f.type = "DATA" /\ heard' = heard \union {<<f.sid, f.mode, f.seq>>}
        BY <4>1 DEF Counts, Decodes
      <4>3. x = f.sid /\ m = f.mode BY <1>3, <3>2, <4>2
      <4>4. f.sid \in 1 .. ids /\ f.mode \in 1 .. Modes BY <4>2, OnTypes
      <4> QED BY <4>2, <4>3, <4>4 DEF ExactInv, Placed
    <3> QED BY <3>1, <3>2
  <2> QED BY <1>0, <2>1, Reached
<1>4. \A s \in Stations : \A f \in In(frames[s])' : f.type # "DATA" BY <1>0 DEF Moves
<1> QED BY <1>1, <1>2, <1>3, <1>4 DEF Placed

LEMMA EarlierOn ==
  ASSUME NEW s, NEW f, NEW g, Earlier(s, f, g) PROVE f \in On(s) /\ g \in On(s)
BY DEF Earlier, On, Pair, In

LEMMA FollowsMoves ==
  ASSUME SweepInv, SweepInv', ExactInv, Steps, NEW s \in Stations, NEW x, Follows(s, x)'
  PROVE  x \in 1 .. ids /\ (Follows(s, x) \/ x = id[Peer(s)])
<1>0. /\ Moves(s) /\ Tallied(s) /\ x # 0 BY DEF Steps, Follows
<1>n. /\ ids \in Nat /\ armed[s].sid \in 0 .. ids /\ held[s].sid \in 0 .. ids BY Numbers
<1>1. ASSUME NEW f \in On(s), f.type \in Walks, f.sid = x
      PROVE  x \in 1 .. ids /\ Follows(s, x)
  <2>1. f.sid \in 0 .. ids BY OnTypes
  <2> QED BY <1>0, <1>1, <1>n, <2>1 DEF Follows
<1>2. ASSUME NEW f, NewOn(s, f), f.type \in Walks, f.sid = x
      PROVE  x \in 1 .. ids /\ x = id[Peer(s)]
  BY <1>2, NewPlaced
<1>3. CASE \E f \in On(s)' : f.type \in Walks /\ f.sid = x
  <2>1. PICK f \in On(s)' : f.type \in Walks /\ f.sid = x BY <1>3
  <2>2. f \in On(s) \/ NewOn(s, f) BY <1>0 DEF Moves
  <2> QED BY <1>1, <1>2, <2>1, <2>2
<1>4. CASE armed'[s].sid = x
  <2>1. Armed(s)' BY <1>0, <1>4 DEF Armed
  <2>2. CASE SameArmed(s)
    <3>1. armed[s].sid = x BY <1>4, <2>2 DEF SameArmed
    <3> QED BY <1>0, <1>n, <3>1 DEF Follows
  <2>3. CASE \E f \in On(s) : ArmedBy(s, f)
    <3>1. PICK f \in On(s) : ArmedBy(s, f) BY <2>3
    <3>2. f.type \in Walks /\ f.sid = x BY <1>4, <3>1 DEF ArmedBy, Walks
    <3> QED BY <1>1, <3>2
  <2> QED BY <1>0, <2>1, <2>2, <2>3, ArmedMoves
<1>5. CASE held'[s].sid = x
  <2>1. x = held[s].sid \/ x = armed[s].sid BY <1>0, <1>5, ArmedMoves
  <2> QED BY <1>0, <1>n, <2>1 DEF Follows
<1>6. (\E f \in On(s)' : f.type \in Walks /\ f.sid = x) \/ armed'[s].sid = x \/ held'[s].sid = x
  BY DEF Follows
<1> QED BY <1>3, <1>4, <1>5, <1>6

LEMMA OwnedKeeps ==
  ASSUME SweepInv, SweepInv', ExactInv, Steps PROVE Owned'
<1>1. ASSUME NEW s \in Stations, NEW x \in 1 .. ids', Follows(s, x)'
      PROVE  ~Follows(Peer(s), x)' /\ x # id'[s]
  <2> DEFINE p == Peer(s)
  <2>0. p \in Stations /\ Peer(p) = s BY TwoStations
  <2> HIDE DEF p
  <2>1. x \in 1 .. ids /\ (Follows(s, x) \/ x = id[p]) BY <1>1, FollowsMoves DEF p
  <2>2. Follows(p, x)' => Follows(p, x) \/ x = id[s] BY <2>0, FollowsMoves
  <2>3. x # id[s]
    <3>1. CASE Follows(s, x) BY <2>1, <3>1 DEF ExactInv, Owned
    <3>2. CASE x = id[p] BY <2>1, <3>2 DEF ExactInv, Owned, p
    <3> QED BY <2>1, <3>1, <3>2
  <2>4. ~Follows(p, x)
    <3>1. CASE Follows(s, x) BY <2>1, <3>1 DEF ExactInv, Owned, p
    <3>2. CASE x = id[p] BY <2>0, <2>1, <3>2 DEF ExactInv, Owned
    <3> QED BY <2>1, <3>1, <3>2
  <2>5. x # id'[s]
    <3>1. id'[s] = id[s] \/ id'[s] > ids BY DEF Steps, Onward
    <3> QED BY <2>1, <2>3, <3>1 DEF SweepInv, Counters
  <2> QED BY <2>2, <2>3, <2>4, <2>5 DEF p
<1>2. ASSUME NEW s \in Stations, id'[s] = id'[Peer(s)] PROVE id'[s] = 0
  <2> DEFINE p == Peer(s)
  <2>0. p \in Stations /\ Peer(p) = s BY TwoStations
  <2> HIDE DEF p
  <2>1. /\ id[s] \in 0 .. ids /\ id[p] \in 0 .. ids /\ ids \in Nat
        /\ id'[s] = id[s] \/ id'[s] > ids
        /\ id'[p] = id[p] \/ id'[p] > ids
        /\ id'[s] # id[s] => id'[p] = id[p]
        /\ id[s] = id[p] => id[s] = 0
        /\ id'[s] = id'[p]
    <3>1. /\ id[s] \in 0 .. ids /\ id[p] \in 0 .. ids /\ ids \in Nat BY <2>0, Numbers
    <3>2. /\ id'[s] = id[s] \/ id'[s] > ids
          /\ id'[p] = id[p] \/ id'[p] > ids
          /\ id'[s] # id[s] => id'[p] = id[p]
      BY <2>0 DEF Steps, Onward, p
    <3> QED BY <1>2, <3>1, <3>2 DEF ExactInv, Owned, p
  <2> QED BY <2>1
<1> QED BY <1>1, <1>2 DEF Owned

LEMMA NotAfterFacts ==
  ASSUME NEW x \in Int, NEW m \in Int, NEW y \in Int, NEW n \in Int
  PROVE  /\ NotAfter(x, m, x, m)
         /\ (NotAfter(x, m, y, n) /\ NotAfter(y, n, x, m)) => x = y /\ m = n
         /\ (NotAfter(x, m, y, n) /\ NotAfter(y, m, x, n)) => x = y
BY DEF NotAfter

\* Whatever is placed is not ahead of what its walk keys next.
LEMMA NotAhead ==
  ASSUME SweepInv, SweepInv', ExactInv, Steps, NEW s \in Stations, NEW g, NewOn(s, g),
         g.type \in Walks, NEW x \in 0 .. ids, NEW m, x <= id[Peer(s)], Announced(x, m)
  PROVE  /\ NotAfter(x, m, g.sid, g.mode)
         /\ (Sent(x, m) /\ x = g.sid /\ m = g.mode) => g.type = "ASK"
<1> DEFINE p == Peer(s)
<1>0. p \in Stations BY TwoStations
<1>1. g.sid = id[p] /\ g.mode = mode[p] /\ pc[p] \in Walking BY NewPlaced
<1>2. id[p] \in 0 .. ids /\ mode[p] \in 1 .. Modes /\ ids \in Nat BY <1>0, Numbers
<1>3. g.type = "ASK" \/ pc[p] \notin Asking
  BY DEF NewOn, Walks, Asking
<1> HIDE DEF p
<1>4. x = id[p] => OfWalk(p, x) BY <1>1 DEF OfWalk
<1>5. x <= id[p] BY DEF p
<1> QED BY <1>0, <1>1, <1>2, <1>3, <1>4, <1>5 DEF NotAfter, Announced, Sent

LEMMA SortedKeeps ==
  ASSUME SweepInv, SweepInv', ExactInv, Steps PROVE Sorted'
<1>0. \A s \in Stations : Moves(s) /\ Tallied(s) BY DEF Steps
<1>1. ASSUME NEW s \in Stations, NEW f \in On(s)', NEW g \in On(s)', Earlier(s, f, g)'
      PROVE  InOrder(f, g)
  <2>1. CASE Earlier(s, f, g)
    <3>1. f \in On(s) /\ g \in On(s) BY <2>1, EarlierOn
    <3> QED BY <2>1, <3>1 DEF ExactInv, Sorted
  <2>2. CASE f \in On(s) /\ NewOn(s, g)
    <3> SUFFICES ASSUME f.type \in Walks, g.type \in Walks PROVE InOrder(f, g) BY DEF InOrder
    <3>1. f.sid \in 0 .. ids /\ f.mode \in 0 .. Modes BY <2>2, OnTypes
    <3>2. /\ f.sid <= id[Peer(s)] /\ Announced(f.sid, f.mode)
          /\ f.type \in {"DATA", "ASK"} => Sent(f.sid, f.mode)
      BY <2>2 DEF ExactInv, Placed
    <3>3. /\ NotAfter(f.sid, f.mode, g.sid, g.mode)
          /\ (Sent(f.sid, f.mode) /\ f.sid = g.sid /\ f.mode = g.mode) => g.type = "ASK"
      BY <2>2, <3>1, <3>2, NotAhead
    <3> QED BY <3>2, <3>3 DEF InOrder, Walks
  <2> QED BY <1>0, <1>1, <2>1, <2>2 DEF Moves
<1>2. ASSUME NEW s \in Stations, Armed(s)', NEW f \in On(s)', f.type \in Walks
      PROVE  NotAfter(armed'[s].sid, armed'[s].mode, f.sid, f.mode)
  <2>1. CASE SameArmed(s)
    <3>1. Armed(s) BY <1>2, <2>1 DEF SameArmed, Armed
    <3>2. /\ armed[s].sid \in 0 .. ids /\ armed[s].sid <= id[Peer(s)]
          /\ Announced(armed[s].sid, armed[s].mode)
      BY <3>1, Numbers DEF ExactInv, Placed
    <3>3. CASE f \in On(s) BY <1>2, <2>1, <3>1, <3>3 DEF ExactInv, Sorted, SameArmed
    <3>4. CASE NewOn(s, f) BY <1>2, <2>1, <3>2, <3>4, NotAhead DEF SameArmed
    <3> QED BY <1>0, <3>3, <3>4 DEF Moves
  <2>2. CASE \E a \in On(s) : ArmedBy(s, a)
    <3>1. PICK a \in On(s) : ArmedBy(s, a) BY <2>2
    <3>2. Earlier(s, a, f) BY <3>1 DEF ArmedBy, Behind
    <3>3. f \in On(s) BY <3>2, EarlierOn
    <3>4. InOrder(a, f) BY <3>2, <3>3 DEF ExactInv, Sorted
    <3> QED BY <1>2, <3>1, <3>4 DEF ArmedBy, InOrder, Walks
  <2> QED BY <1>0, <1>2, <2>1, <2>2, ArmedMoves
<1> QED BY <1>1, <1>2 DEF Sorted

LEMMA AnsweringKeeps ==
  ASSUME SweepInv, SweepInv', ExactInv, Steps PROVE Answering'
<1>0. \A s \in Stations : Moves(s) /\ Tallied(s) BY DEF Steps
<1>1. ASSUME NEW s \in Stations, NEW f \in On(Peer(s))', f.type = "READY"
      PROVE  /\ Armed(s)' => NotAfter(f.sid, f.mode, armed'[s].sid, armed'[s].mode)
             /\ \A g \in On(s)' : g.type = "ANNOUNCE" => NotAfter(f.sid, f.mode, g.sid, g.mode)
  <2> DEFINE p == Peer(s)
  <2>0. p \in Stations /\ Peer(p) = s BY TwoStations
  <2>1. f \in On(p) \/ NewOn(p, f) BY <1>0, <1>1, <2>0 DEF Moves
  <2>2. CASE f \in On(p)
    <3>1. f.sid \in 0 .. ids /\ f.mode \in 0 .. Modes BY <2>0, <2>2, OnTypes
    <3>2. f.sid <= id[p] /\ Announced(f.sid, f.mode)
      BY <1>1, <2>0, <2>2 DEF ExactInv, Placed
    <3>3. /\ Armed(s) => NotAfter(f.sid, f.mode, armed[s].sid, armed[s].mode)
          /\ \A g \in On(s) : g.type = "ANNOUNCE" => NotAfter(f.sid, f.mode, g.sid, g.mode)
      BY <1>1, <2>2 DEF ExactInv, Answering
    <3>4. Armed(s)' => NotAfter(f.sid, f.mode, armed'[s].sid, armed'[s].mode)
      <4>1. CASE SameArmed(s) BY <3>3, <4>1 DEF SameArmed, Armed
      <4>2. CASE \E a \in On(s) : ArmedBy(s, a) BY <3>3, <4>2 DEF ArmedBy
      <4> QED BY <1>0, <4>1, <4>2, ArmedMoves
    <3>5. ASSUME NEW g \in On(s)', g.type = "ANNOUNCE"
          PROVE  NotAfter(f.sid, f.mode, g.sid, g.mode)
      <4>1. CASE g \in On(s) BY <3>3, <3>5, <4>1
      <4>2. CASE NewOn(s, g) BY <3>1, <3>2, <3>5, <4>2, NotAhead DEF Walks
      <4> QED BY <1>0, <4>1, <4>2 DEF Moves
    <3> QED BY <3>4, <3>5
  <2>3. CASE NewOn(p, f)
    <3>1. PICK a \in On(s) : Names(a, "ANNOUNCE", f.sid, f.mode) /\ Behind(s, a)
      BY <1>1, <2>0, <2>3 DEF NewOn
    <3>2. ArmedFor(s, f.sid, f.mode)' BY <1>1, <2>0, <2>3 DEF NewOn
    <3>3. f.sid \in 1 .. ids /\ f.mode \in 0 .. Modes BY <1>1, <2>0, <2>3, NewPlaced
    <3>4. NotAfter(f.sid, f.mode, f.sid, f.mode)
      BY <3>3, SweepAssumption DEF NotAfter, SweepInv, Counters
    <3>5. ASSUME NEW g \in On(s)', g.type = "ANNOUNCE"
          PROVE  NotAfter(f.sid, f.mode, g.sid, g.mode)
      <4>1. Earlier(s, a, g) BY <3>1 DEF Behind
      <4>2. g \in On(s) BY <4>1, EarlierOn
      <4>3. InOrder(a, g) BY <4>1, <4>2 DEF ExactInv, Sorted
      <4> QED BY <3>1, <3>5, <4>3 DEF InOrder, Names, Walks
    <3> QED BY <3>2, <3>4, <3>5 DEF ArmedFor
  <2> QED BY <2>1, <2>2, <2>3
<1>2. ASSUME NEW s \in Stations, NEW f \in On(s)', f.type = "DATA", Armed(s)'
      PROVE  NotAfter(f.sid, f.mode, armed'[s].sid, armed'[s].mode)
  <2>0. Peer(s) \in Stations BY TwoStations
  <2>1. CASE \E a \in On(s) : ArmedBy(s, a)
    <3>1. In(air[s])' = {} BY <2>1 DEF ArmedBy
    <3>2. f \in In(frames[s])' BY <1>2, <3>1 DEF On
    <3> QED BY <1>0, <1>2, <3>2 DEF Moves
  <2>2. CASE SameArmed(s)
    <3>1. Armed(s) BY <1>2, <2>2 DEF SameArmed, Armed
    <3>2. CASE f \in On(s) BY <1>2, <2>2, <3>1, <3>2 DEF ExactInv, Answering, SameArmed
    <3>3. CASE NewOn(s, f)
      <4>1. PICK g \in On(Peer(s)) : Names(g, "READY", f.sid, f.mode) BY <1>2, <3>3 DEF NewOn
      <4> QED BY <2>2, <3>1, <4>1 DEF ExactInv, Answering, SameArmed, Names
    <3> QED BY <1>0, <3>2, <3>3 DEF Moves
  <2> QED BY <1>0, <1>2, <2>1, <2>2, ArmedMoves
<1> QED BY <1>1, <1>2 DEF Answering

LEMMA CountMoves ==
  ASSUME SweepInv, Steps, NEW x, NEW m
  PROVE  Count(x, m)' = Count(x, m) \/ \E u \in Stations : Counts(u) /\ ArmedFor(u, x, m)
<1>1. CASE heard' = heard BY <1>1 DEF Count
<1>2. ASSUME NEW u \in Stations, Counts(u)
      PROVE  Count(x, m)' = Count(x, m) \/ (Counts(u) /\ ArmedFor(u, x, m))
  <2>1. PICK f \in On(u) : /\ ArmedFor(u, f.sid, f.mode)
                           /\ heard' = heard \union {<<f.sid, f.mode, f.seq>>}
    BY <1>2 DEF Counts
  <2>2. CASE f.sid = x /\ f.mode = m BY <1>2, <2>1, <2>2
  <2>3. CASE ~(f.sid = x /\ f.mode = m) BY <2>1, <2>3 DEF Count
  <2> QED BY <2>2, <2>3
<1> QED BY <1>1, <1>2 DEF Steps

\* What one station follows, only that station counts.
LEMMA CountStays ==
  ASSUME SweepInv, ExactInv, Steps, NEW s \in Stations, ~Counts(s),
         NEW x \in 1 .. ids, Follows(s, x), NEW m
  PROVE  Count(x, m)' = Count(x, m)
<1>1. ~Follows(Peer(s), x) BY DEF ExactInv, Owned
<1>2. \A u \in Stations : Counts(u) => ~ArmedFor(u, x, m)
  <2>1. \A u \in Stations : u = s \/ u = Peer(s) BY TwoStations
  <2> QED BY <1>1, <2>1 DEF Follows, ArmedFor
<1> QED BY <1>2, CountMoves

LEMMA CountsOne ==
  ASSUME SweepInv, NEW s \in Stations, NEW f \in On(s), f.type = "DATA",
         heard' = heard \union {<<f.sid, f.mode, f.seq>>}
  PROVE  Count(f.sid, f.mode)' = Count(f.sid, f.mode) \union {f.seq}
<1>1. f.seq \in Seqs BY OnTypes
<1> QED BY <1>1 DEF Count

LEMMA SameBurst ==
  ASSUME SweepInv, ExactInv, NEW s \in Stations, Armed(s), NEW f \in On(s), f.type = "DATA",
         f.mode = armed[s].mode
  PROVE  f.sid = armed[s].sid
<1>1. /\ NotAfter(armed[s].sid, armed[s].mode, f.sid, f.mode)
      /\ NotAfter(f.sid, f.mode, armed[s].sid, armed[s].mode)
  BY DEF ExactInv, Sorted, Answering, Walks
<1>2. f.sid \in Int /\ armed[s].sid \in Int /\ armed[s].mode \in Int
  <2>1. f.sid \in 0 .. ids BY OnTypes
  <2>2. armed[s].sid \in 0 .. ids /\ armed[s].mode \in 0 .. Modes BY Numbers
  <2>3. ids \in Nat /\ Modes \in Nat BY Numbers
  <2> QED BY <2>1, <2>2, <2>3
<1> QED BY <1>1, <1>2 DEF NotAfter

\* The burst, or the announcement, of a mode just keyed: none of it was counted.
LEMMA NotYetSent ==
  ASSUME SweepInv, SweepInv', ExactInv, Steps, NEW s \in Stations, NEW f, NewOn(s, f),
         f.type \in {"ANNOUNCE", "DATA"}
  PROVE  ~Sent(f.sid, f.mode) /\ Count(f.sid, f.mode) = {} /\ Count(f.sid, f.mode)' = {}
<1>0. Peer(s) \in Stations BY TwoStations
<1>1. /\ f.sid \in 1 .. ids /\ f.sid = id[Peer(s)] /\ f.mode = mode[Peer(s)]
      /\ f.mode \in 0 .. Modes /\ pc[Peer(s)] \in Walking
  BY NewPlaced DEF Walks
<1>2. pc[Peer(s)] \notin Asking BY DEF NewOn, Asking
<1>3. mode[Peer(s)] \in 1 .. Modes /\ Modes \in Nat BY <1>0, Numbers
<1>4. ~Sent(f.sid, f.mode) BY <1>0, <1>1, <1>2, <1>3 DEF Sent, OfWalk
<1>5. Count(f.sid, f.mode) = {}
  <2>1. \A k \in Seqs : <<f.sid, f.mode, k>> \notin heard
    BY <1>1, <1>3, <1>4 DEF ExactInv, Placed
  <2> QED BY <2>1 DEF Count
<1>6. Count(f.sid, f.mode)' = {}
  <2>1. ASSUME NEW u \in Stations, Counts(u), ArmedFor(u, f.sid, f.mode) PROVE FALSE
    <3>1. PICK g \in On(u) : g.type = "DATA" /\ ArmedFor(u, g.sid, g.mode)
      BY <2>1 DEF Counts, Decodes
    <3>2. Sent(g.sid, g.mode) BY <3>1 DEF ExactInv, Placed
    <3> QED BY <1>4, <2>1, <3>1, <3>2 DEF ArmedFor
  <2> QED BY <1>5, <2>1, CountMoves
<1> QED BY <1>4, <1>5, <1>6

LEMMA CountedKeeps ==
  ASSUME SweepInv, SweepInv', ExactInv, Steps PROVE Counted'
<1>0. \A s \in Stations : Moves(s) /\ Tallied(s) BY DEF Steps
<1>1. ASSUME NEW s \in Stations, Armed(s)'
      PROVE  /\ armed'[s].decoded = Count(armed[s].sid, armed[s].mode)'
             /\ (armed'[s].near # 0 /\ armed'[s].mode # Control)
                  => Sent(armed[s].sid, armed[s].mode)'
  <2>n. /\ ids \in Nat /\ armed[s] \in TallyOf(ids)
        /\ armed[s].sid \in 0 .. ids /\ armed[s].mode \in 0 .. Modes
    BY Numbers
  <2>1. PICK x, m : x = armed[s].sid /\ m = armed[s].mode OBVIOUS
  <2>2. Armed(s) => /\ x \in 1 .. ids /\ Follows(s, x)
                    /\ armed[s].decoded = Count(x, m)
                    /\ (armed[s].near # 0 /\ m # Control) => Sent(x, m)'
    <3>1. Armed(s) => x \in 1 .. ids /\ Follows(s, x) BY <2>n, <2>1 DEF Armed, Follows
    <3>2. Armed(s) => /\ armed[s].decoded = Count(x, m)
                      /\ (armed[s].near # 0 /\ m # Control) => Sent(x, m)
      BY <2>1 DEF ExactInv, Counted
    <3>3. x \in 1 .. ids => (Sent(x, m) => Sent(x, m)') BY <2>n, <2>1, Reached DEF Steps
    <3> QED BY <3>1, <3>2, <3>3
  <2>3. (Armed(s) /\ ~Counts(s)) => Count(x, m)' = Count(x, m) BY <2>2, CountStays
  <2>4. CASE armed'[s] = armed[s] /\ ~Counts(s)
    <3>1. Armed(s) BY <1>1, <2>4 DEF Armed
    <3> QED BY <2>1, <2>2, <2>3, <2>4, <3>1
  <2>5. CASE Counts(s)
    <3>1. PICK f \in On(s) :
            /\ Decodes(s, f) /\ ArmedFor(s, f.sid, f.mode)
            /\ armed'[s] = [armed[s] EXCEPT !.decoded = @ \union {f.seq}]
            /\ heard' = heard \union {<<f.sid, f.mode, f.seq>>}
      BY <2>5 DEF Counts
    <3>2. f.sid = x /\ f.mode = m BY <2>1, <3>1 DEF ArmedFor
    <3>3. Count(x, m)' = Count(x, m) \union {f.seq}
      BY <3>1, <3>2, CountsOne DEF Decodes
    <3>4. /\ armed'[s].sid = x /\ armed'[s].mode = m /\ armed'[s].near = armed[s].near
          /\ armed'[s].decoded = armed[s].decoded \union {f.seq}
      BY <2>n, <2>1, <3>1, Recounted
    <3>5. Armed(s) BY <1>1, <2>1, <3>4 DEF Armed
    <3> QED BY <2>2, <3>3, <3>4, <3>5
  <2>6. CASE NearlyCounts(s) /\ ~Counts(s)
    <3>1. PICK f \in On(s) :
            /\ Decodes(s, f) /\ armed[s].mode = f.mode
            /\ armed'[s] = [armed[s] EXCEPT !.near = @ + 1]
      BY <2>6 DEF NearlyCounts
    <3>2. /\ armed'[s].sid = x /\ armed'[s].mode = m
          /\ armed'[s].decoded = armed[s].decoded
      BY <2>n, <2>1, <3>1, Recounted
    <3>3. Armed(s) BY <1>1, <2>1, <3>2 DEF Armed
    <3>4. f.sid = x /\ f.mode = m BY <2>1, <3>1, <3>3, SameBurst DEF Decodes
    <3>5. Sent(x, m) BY <3>1, <3>4 DEF ExactInv, Placed, Decodes
    <3>6. Sent(x, m)' BY <2>n, <2>1, <2>2, <3>3, <3>5, Reached DEF Steps
    <3> QED BY <2>2, <2>3, <2>6, <3>2, <3>3, <3>6
  <2>7. CASE Arms(s) /\ ~Counts(s)
    <3>1. PICK f \in On(s) :
            /\ f.type = "ANNOUNCE"
            /\ armed'[s] = IF ArmedFor(s, f.sid, f.mode) /\ armed[s].decoded # {}
                           THEN armed[s] ELSE Fresh(f.sid, f.mode)
      BY <2>7 DEF Arms
    <3>2. CASE ArmedFor(s, f.sid, f.mode) /\ armed[s].decoded # {} BY <2>4, <2>7, <3>1, <3>2
    <3>3. CASE ~(ArmedFor(s, f.sid, f.mode) /\ armed[s].decoded # {})
      <4>1. /\ armed'[s].sid = f.sid /\ armed'[s].mode = f.mode
            /\ armed'[s].decoded = {} /\ armed'[s].near = 0
        BY <3>1, <3>3, FreshIs
      <4>2. f.sid \in 0 .. ids /\ f.sid # 0 BY <3>1, OnTypes DEF ExactInv, Placed, Walks
      <4>3. f.sid \in 1 .. ids /\ Follows(s, f.sid) BY <2>n, <3>1, <4>2 DEF Follows, Walks
      <4>4. Count(f.sid, f.mode) = {}
        <5> SUFFICES ASSUME Count(f.sid, f.mode) # {} PROVE FALSE OBVIOUS
        <5>1. ArmedFor(s, f.sid, f.mode) BY <3>1 DEF ExactInv, Counted
        <5>2. Armed(s) /\ f.sid = x /\ f.mode = m BY <2>1, <4>2, <5>1 DEF Armed, ArmedFor
        <5> QED BY <2>2, <3>3, <5>1, <5>2
      <4>5. Count(f.sid, f.mode)' = {} BY <2>7, <4>3, <4>4, CountStays
      <4> QED BY <4>1, <4>5
    <3> QED BY <3>2, <3>3
  <2>8. Drops(s) => ~Armed(s)' BY NoneIs DEF Drops, Armed
  <2>9. CASE Strays(s) /\ ~Counts(s)
    <3>1. /\ armed'[s].sid = x /\ armed'[s].mode = m /\ m = Control
          /\ armed'[s].decoded = armed[s].decoded
      BY <2>n, <2>1, <2>9, Recounted DEF Strays
    <3>2. Armed(s) BY <1>1, <2>1, <3>1 DEF Armed
    <3> QED BY <2>2, <2>3, <2>9, <3>1, <3>2
  <2> QED BY <1>0, <1>1, <2>4, <2>5, <2>6, <2>7, <2>8, <2>9 DEF Tallied, Keeps
<1>2. ASSUME NEW s \in Stations, NEW f \in On(s)', f.type = "ANNOUNCE",
             Count(f.sid, f.mode)' # {}
      PROVE  ArmedFor(s, f.sid, f.mode)' /\ f \notin In(air[s])'
  <2>1. ~NewOn(s, f) BY <1>2, NotYetSent
  <2>2. f \in On(s) BY <1>0, <2>1 DEF Moves
  <2>3. f \in In(air[s])' => f \in In(air[s]) BY <1>0, <2>1 DEF Moves
  <2>4. f.sid \in 1 .. ids /\ f.mode \in 0 .. Modes /\ Follows(s, f.sid) /\ ids \in Nat /\ f.sid # 0
    <3>1. f.sid \in 0 .. ids /\ f.mode \in 0 .. Modes /\ ids \in Nat BY <2>2, OnTypes, Numbers
    <3>2. f.sid # 0 BY <1>2, <2>2 DEF ExactInv, Placed, Walks
    <3> QED BY <1>2, <2>2, <3>1, <3>2 DEF Follows, Walks
  <2>n. armed[s] \in TallyOf(ids) BY Numbers
  <2>5. Count(f.sid, f.mode) # {} => ArmedFor(s, f.sid, f.mode) /\ f \notin In(air[s])
    BY <1>2, <2>2 DEF ExactInv, Counted
  <2>6. CASE Counts(s)
    <3>1. PICK g \in On(s) :
            /\ Decodes(s, g) /\ ArmedFor(s, g.sid, g.mode)
            /\ armed'[s] = [armed[s] EXCEPT !.decoded = @ \union {g.seq}]
            /\ heard' = heard \union {<<g.sid, g.mode, g.seq>>}
      BY <2>6 DEF Counts
    <3>2. f.sid = g.sid /\ f.mode = g.mode
      <4>1. CASE Count(f.sid, f.mode) # {} BY <2>5, <3>1, <4>1 DEF ArmedFor
      <4>2. CASE Count(f.sid, f.mode) = {} BY <1>2, <3>1, <4>2 DEF Count
      <4> QED BY <4>1, <4>2
    <3>3. ArmedFor(s, f.sid, f.mode)' BY <2>n, <3>1, <3>2, Recounted DEF ArmedFor
    <3>4. f \notin In(air[s])'
      <4> SUFFICES ASSUME f \in In(air[s])' PROVE FALSE OBVIOUS
      <4>1. Earlier(s, g, f) BY <3>1 DEF Decodes
      <4>2. InOrder(g, f) BY <2>2, <3>1, <4>1 DEF ExactInv, Sorted
      <4>3. g.type = "DATA" BY <3>1 DEF Decodes
      <4> QED BY <1>2, <3>2, <4>2, <4>3 DEF InOrder, Walks
    <3> QED BY <3>3, <3>4
  <2>7. CASE ~Counts(s)
    <3>1. ArmedFor(s, f.sid, f.mode) /\ f \notin In(air[s])
      BY <1>2, <2>4, <2>5, <2>7, CountStays
    <3>2. ArmedFor(s, f.sid, f.mode)'
      <4>1. CASE Keeps(s) BY <3>1, <4>1 DEF Keeps, ArmedFor
      <4>2. CASE NearlyCounts(s) BY <2>n, <3>1, <4>2, Recounted DEF NearlyCounts, ArmedFor
      <4>3. CASE Arms(s)
        <5>1. PICK a \in On(s) :
                /\ a.type = "ANNOUNCE" /\ Behind(s, a)
                /\ armed'[s] = IF ArmedFor(s, a.sid, a.mode) /\ armed[s].decoded # {}
                               THEN armed[s] ELSE Fresh(a.sid, a.mode)
          BY <4>3 DEF Arms
        <5>2. Armed(s) BY <2>4, <3>1 DEF Armed, ArmedFor
        <5>3. NotAfter(f.sid, f.mode, a.sid, a.mode)
          BY <3>1, <5>1, <5>2 DEF ExactInv, Sorted, ArmedFor, Walks
        <5>4. InOrder(a, f) BY <2>2, <5>1 DEF ExactInv, Sorted, Behind
        <5>5. NotAfter(a.sid, a.mode, f.sid, f.mode) BY <1>2, <5>1, <5>4 DEF InOrder, Walks
        <5>6. a.sid = f.sid /\ a.mode = f.mode
          <6>1. a.sid \in 0 .. ids /\ a.mode \in 0 .. Modes /\ Modes \in Nat
            BY <5>1, OnTypes, Numbers
          <6> QED BY <2>4, <5>3, <5>5, <6>1 DEF NotAfter
        <5> QED BY <5>1, <5>6, FreshIs DEF ArmedFor
      <4>4. CASE Drops(s)
        <5>1. ~(f \in In(air[s])) BY <3>1
        <5>2. PICK a \in On(s) : a.type = "ASK" /\ ArmedFor(s, a.sid, a.mode) /\ Behind(s, a)
          BY <1>2, <4>4, <5>1 DEF Drops
        <5>3. InOrder(a, f) BY <2>2, <5>2 DEF ExactInv, Sorted, Behind
        <5> QED BY <1>2, <3>1, <5>2, <5>3 DEF InOrder, ArmedFor, Walks
      <4>5. CASE Strays(s) BY <2>n, <3>1, <4>5, Recounted DEF Strays, ArmedFor
      <4> QED BY <1>0, <2>7, <4>1, <4>2, <4>3, <4>4, <4>5 DEF Tallied
    <3> QED BY <2>3, <3>1, <3>2
  <2> QED BY <2>6, <2>7
<1> QED BY <1>1, <1>2 DEF Counted

LEMMA KeptKeeps ==
  ASSUME SweepInv, SweepInv', ExactInv, Steps PROVE Kept'
<1> SUFFICES ASSUME NEW s \in Stations, Stale(s)'
             PROVE  \/ ArmedFor(s, held[s].sid, held[s].mode)'
                    \/ /\ Passed(held[s].sid, held[s].mode)'
                       /\ \A f \in On(s)' : ~Names(f, "ASK", held'[s].sid, held'[s].mode)
  BY DEF Kept
<1>0. Moves(s) /\ Tallied(s) BY DEF Steps
<1> DEFINE p == Peer(s)
<1>p. p \in Stations /\ Peer(p) = s /\ \A t \in Stations : t = s \/ t = p BY TwoStations
<1> HIDE DEF p
<1>n. /\ ids \in Nat /\ Modes \in Nat
      /\ armed[s] \in TallyOf(ids) /\ armed[s].sid \in 0 .. ids /\ armed[s].mode \in 0 .. Modes
      /\ held[s] \in TallyOf(ids) /\ held[s].sid \in 0 .. ids /\ held[s].mode \in 0 .. Modes
      /\ id[p] \in 0 .. ids
  BY <1>p, Numbers
<1>1. PICK h : h = held'[s] OBVIOUS
<1>2. PICK x, m : x = h.sid /\ m = h.mode OBVIOUS
<1>3. x # 0 /\ h.decoded # Count(x, m)' BY <1>1, <1>2 DEF Stale
<1> SUFFICES ArmedFor(s, x, m)' \/ (Passed(x, m)' /\ \A f \in On(s)' : ~Names(f, "ASK", x, m))
  BY <1>1, <1>2
<1>4. h # None BY <1>2, <1>3, NoneIs
<1>5. CASE h = armed[s]
  <2>1. Armed(s) /\ x \in 1 .. ids /\ Follows(s, x)
    BY <1>2, <1>3, <1>5, <1>n DEF Armed, Follows
  <2>2. h.decoded = Count(x, m) BY <1>2, <1>5, <2>1 DEF ExactInv, Counted
  <2>3. Counts(s) BY <1>3, <2>1, <2>2, CountStays
  <2> QED BY <1>2, <1>5, <1>n, <2>3, Recounted DEF Counts, ArmedFor
<1>6. CASE h = held[s] /\ h # armed[s]
  <2>1. x \in 1 .. ids /\ m \in 0 .. Modes /\ Follows(s, x)
    BY <1>2, <1>3, <1>6, <1>n DEF Follows
  <2>2. CASE Counts(s)
    <3>1. SameArmed(s) BY <1>n, <2>2, Recounted DEF Counts, SameArmed
    <3>2. CASE ArmedFor(s, x, m) BY <3>1, <3>2 DEF ArmedFor, SameArmed
    <3>3. CASE ~ArmedFor(s, x, m)
      <4>1. \A u \in Stations : Counts(u) => ~ArmedFor(u, x, m)
        <5>1. ~Follows(p, x) BY <2>1 DEF ExactInv, Owned, p
        <5> QED BY <1>3, <1>p, <3>3, <5>1 DEF Follows, ArmedFor
      <4>2. Count(x, m)' = Count(x, m) BY <4>1, CountMoves
      <4>3. Stale(s) BY <1>2, <1>3, <1>6, <4>2 DEF Stale
      <4>4. Passed(x, m) /\ \A f \in On(s) : ~Names(f, "ASK", x, m)
        BY <1>2, <1>6, <3>3, <4>3 DEF ExactInv, Kept
      <4>5. Passed(x, m)' BY <2>1, <4>4, Reached DEF Steps
      <4>6. On(s)' \subseteq On(s) BY <2>2 DEF Counts, Decodes
      <4> QED BY <4>4, <4>5, <4>6
    <3> QED BY <3>2, <3>3
  <2>3. CASE ~Counts(s)
    <3>1. Count(x, m)' = Count(x, m) BY <2>1, <2>3, CountStays
    <3>2. Stale(s) BY <1>2, <1>3, <1>6, <3>1 DEF Stale
    <3>3. ~Drops(s) BY <1>1, <1>4, <1>6 DEF Drops
    <3>4. CASE ArmedFor(s, x, m)
      <4>1. CASE Keeps(s) BY <3>4, <4>1 DEF Keeps, ArmedFor
      <4>2. CASE NearlyCounts(s) BY <1>n, <3>4, <4>2, Recounted DEF NearlyCounts, ArmedFor
      <4>3. CASE Arms(s)
        <5>1. PICK a \in On(s) :
                /\ a.type = "ANNOUNCE" /\ Behind(s, a)
                /\ armed'[s] = IF ArmedFor(s, a.sid, a.mode) /\ armed[s].decoded # {}
                               THEN armed[s] ELSE Fresh(a.sid, a.mode)
          BY <4>3 DEF Arms
        <5>2. ArmedFor(s, a.sid, a.mode)' BY <5>1, FreshIs DEF ArmedFor
        <5>3. Armed(s) BY <1>3, <3>4 DEF Armed, ArmedFor
        <5>4. NotAfter(x, m, a.sid, a.mode)
          BY <3>4, <5>1, <5>3 DEF ExactInv, Sorted, ArmedFor, Walks
        <5>5. CASE a.sid = x /\ a.mode = m BY <5>2, <5>5
        <5>6. CASE ~(a.sid = x /\ a.mode = m)
          <6>1. a.sid \in 0 .. ids /\ a.mode \in 0 .. Modes BY <5>1, OnTypes
          <6>2. a.sid <= id[p] /\ Announced(a.sid, a.mode)
            BY <5>1 DEF ExactInv, Placed, Walks, p
          <6>3. x # id[s] BY <2>1 DEF ExactInv, Owned
          <6>4. OfWalk(p, x) => m < mode[p]
            <7> SUFFICES ASSUME OfWalk(p, x) PROVE m < mode[p] OBVIOUS
            <7>1. a.sid = x
              BY <1>n, <2>1, <5>4, <6>1, <6>2 DEF OfWalk, NotAfter
            <7>2. a.mode <= mode[p] BY <1>p, <6>2, <7>1 DEF Announced
            <7>3. mode[p] \in 1 .. Modes BY <1>p, Numbers
            <7> QED BY <1>n, <2>1, <5>4, <5>6, <6>1, <7>1, <7>2, <7>3 DEF NotAfter
          <6>5. Passed(x, m) BY <1>p, <6>3, <6>4 DEF Passed, OfWalk
          <6>6. Passed(x, m)' BY <2>1, <6>5, Reached DEF Steps
          <6>7. ASSUME NEW f \in On(s)', Names(f, "ASK", x, m) PROVE FALSE
            <7>1. Earlier(s, a, f) BY <5>1 DEF Behind
            <7>2. f \in On(s) BY <7>1, EarlierOn
            <7>3. InOrder(a, f) BY <7>1, <7>2 DEF ExactInv, Sorted
            <7>4. NotAfter(a.sid, a.mode, x, m) BY <5>1, <6>7, <7>3 DEF InOrder, Names, Walks
            <7> QED BY <1>n, <2>1, <5>4, <5>6, <6>1, <7>4 DEF NotAfter
          <6> QED BY <6>6, <6>7
        <5> QED BY <5>5, <5>6
      <4>4. CASE Strays(s) BY <1>n, <3>4, <4>4, Recounted DEF Strays, ArmedFor
      <4> QED BY <1>0, <2>3, <3>3, <4>1, <4>2, <4>3, <4>4 DEF Tallied
    <3>5. CASE ~ArmedFor(s, x, m)
      <4>1. Passed(x, m) /\ \A f \in On(s) : ~Names(f, "ASK", x, m)
        BY <1>2, <1>6, <3>2, <3>5 DEF ExactInv, Kept
      <4>2. Passed(x, m)' BY <2>1, <4>1, Reached DEF Steps
      <4>3. ASSUME NEW f \in On(s)', Names(f, "ASK", x, m) PROVE FALSE
        <5>1. NewOn(s, f) BY <1>0, <4>1, <4>3 DEF Moves
        <5>2. f.sid = id[p] /\ f.mode = mode[p] /\ pc[p] \in Walking /\ f.sid = x /\ f.mode = m
          BY <4>3, <5>1, NewPlaced DEF Names, Walks, p
        <5>3. mode[p] \in 1 .. Modes BY <1>p, Numbers
        <5>4. OfWalk(p, x) /\ m = mode[p] BY <5>2 DEF OfWalk
        <5>5. m < mode[p] BY <1>p, <4>1, <5>4 DEF Passed
        <5> QED BY <1>n, <5>3, <5>4, <5>5
      <4> QED BY <4>2, <4>3
    <3> QED BY <3>4, <3>5
  <2> QED BY <2>2, <2>3
<1>7. h \in {None, armed[s], held[s]}
  BY <1>0, <1>1 DEF Tallied, Keeps, Drops, Arms, Counts, NearlyCounts, Decodes, Strays
<1> QED BY <1>4, <1>5, <1>6, <1>7

\* What is final stays so, and stays counted as it is.
LEMMA FinalStays ==
  ASSUME SweepInv, SweepInv', ExactInv, Steps, NEW x \in 0 .. ids, NEW m \in 0 .. Modes,
         Final(x, m)
  PROVE  Final(x, m)' /\ Count(x, m)' = Count(x, m)
<1>0. \A s \in Stations : Moves(s) /\ Tallied(s) BY DEF Steps
<1>1. x \in 1 .. ids /\ ids \in Nat BY DEF Final, SweepInv, Counters
<1>2. Sent(x, m)' BY <1>1, Reached DEF Final, Steps
<1>3. ASSUME NEW s \in Stations, ArmedFor(s, x, m)' PROVE FALSE
  <2>1. Armed(s)' BY <1>3, <1>1 DEF Armed, ArmedFor
  <2>2. CASE SameArmed(s) BY <1>3, <2>2 DEF SameArmed, ArmedFor, Final
  <2>3. CASE \E a \in On(s) : ArmedBy(s, a)
    <3>1. PICK a \in On(s) : ArmedBy(s, a) BY <2>3
    <3>2. Names(a, "ANNOUNCE", x, m) BY <1>3, <3>1 DEF ArmedBy, ArmedFor, Names
    <3> QED BY <3>2 DEF Final
  <2> QED BY <1>0, <2>1, <2>2, <2>3, ArmedMoves
<1>4. ASSUME NEW s \in Stations, NEW f \in On(s)', Names(f, "ANNOUNCE", x, m) PROVE FALSE
  <2>1. f \notin On(s) BY <1>4 DEF Final
  <2>2. NewOn(s, f) BY <1>0, <2>1 DEF Moves
  <2>3. ~Sent(f.sid, f.mode) BY <1>4, <2>2, NotYetSent DEF Names
  <2> QED BY <1>4, <2>3 DEF Final, Names
<1>5. Count(x, m)' = Count(x, m) BY CountMoves DEF Final
<1>6. Final(x, m)' BY <1>1, <1>2, <1>3, <1>4 DEF Final
<1> QED BY <1>5, <1>6

\* What a station tells is all that was and will be counted.
LEMMA TellsFinal ==
  ASSUME SweepInv, SweepInv', ExactInv, Steps, NEW t \in Stations, NEW x, NEW m, NEW tally,
         Tells(t, x, m, tally)
  PROVE  Final(x, m)' /\ tally.decoded = Count(x, m)' /\ (m # Control => Within(tally))
<1>0. \A s \in Stations : Moves(s) /\ Tallied(s) BY DEF Steps
<1> DEFINE p == Peer(t)
<1>p. p \in Stations /\ Peer(p) = t /\ \A s \in Stations : s = t \/ s = p BY TwoStations
<1> HIDE DEF p
<1>1. PICK f \in On(t) : Names(f, "ASK", x, m) /\ Behind(t, f) BY DEF Tells
<1>2. x \in 1 .. ids /\ m \in 0 .. Modes /\ Sent(x, m) /\ Follows(t, x) /\ ids \in Nat
  <2>1. f.sid \in 0 .. ids /\ f.mode \in 0 .. Modes BY OnTypes
  <2>2. ids \in Nat BY Numbers
  <2>3. f.sid # 0 /\ Sent(f.sid, f.mode) BY <1>1 DEF ExactInv, Placed, Names, Walks
  <2> QED BY <1>1, <2>1, <2>2, <2>3 DEF Names, Follows, Walks
<1>3. Sent(x, m)' BY <1>2, Reached DEF Steps
<1>4. ~Follows(p, x)'
  <2>1. ~Follows(p, x) /\ x # id[t] BY <1>2 DEF ExactInv, Owned, p
  <2> QED BY <1>p, <2>1, FollowsMoves
<1>5. ASSUME NEW s \in Stations PROVE ~ArmedFor(s, x, m)'
  <2>1. CASE s = t BY <1>2, <2>1, NoneIs DEF Tells, ArmedFor
  <2>2. CASE s = p BY <1>2, <1>4, <2>2 DEF ArmedFor, Follows
  <2> QED BY <1>p, <2>1, <2>2
<1>6. ASSUME NEW s \in Stations, NEW g \in On(s)', Names(g, "ANNOUNCE", x, m) PROVE FALSE
  <2>1. CASE s = t
    <3>1. Earlier(t, f, g) BY <1>1, <1>6, <2>1 DEF Behind
    <3>2. g \in On(t) BY <3>1, EarlierOn
    <3>3. InOrder(f, g) BY <3>1, <3>2 DEF ExactInv, Sorted
    <3> QED BY <1>1, <1>6, <3>3 DEF InOrder, Names, Walks
  <2>2. CASE s = p BY <1>2, <1>4, <1>6, <2>2 DEF Follows, Names, Walks
  <2> QED BY <1>p, <2>1, <2>2
<1>7. Final(x, m)' BY <1>2, <1>3, <1>5, <1>6 DEF Final
<1>8. Count(x, m)' = Count(x, m) BY DEF Tells, Count
<1>9. tally.decoded = Count(x, m)
  <2>1. CASE ArmedFor(t, x, m)
    <3>1. tally = armed[t] /\ Armed(t) BY <1>2, <2>1 DEF Tells, Armed, ArmedFor
    <3> QED BY <2>1, <3>1 DEF ExactInv, Counted, ArmedFor
  <2>2. CASE ~ArmedFor(t, x, m)
    <3>1. tally = held[t] /\ held[t].sid = x /\ held[t].mode = m
      BY <2>2 DEF Tells, ArmedFor
    <3>2. ~Stale(t) BY <1>1, <2>2, <3>1 DEF ExactInv, Kept
    <3> QED BY <1>2, <3>1, <3>2 DEF Stale
  <2> QED BY <2>1, <2>2
<1>10. m # Control => Within(tally) BY DEF Tells, ExactInv, Room, Fits
<1> QED BY <1>7, <1>8, <1>9, <1>10

LEMMA RowTypes ==
  ASSUME SweepInv, NEW s \in Stations, NEW row \in Rows(s)
  PROVE  row.sid \in 0 .. ids /\ row.mode \in 0 .. Modes
<1> DEFINE R == RowOf(ids)
<1>1. results[s] \in Seq(R) BY DEF SweepInv, Drawn
<1> HIDE DEF R
<1>2. row \in R BY <1>1 DEF Rows
<1> QED BY <1>2 DEF R, RowOf

LEMMA RowFields ==
  ASSUME NEW dir, NEW sid, NEW m, NEW tally, NEW answered
  PROVE  /\ Row(dir, sid, m, tally, answered).answered = answered
         /\ Row(dir, sid, m, tally, answered).decoded = tally.decoded
         /\ Row(dir, sid, m, tally, answered).near = tally.near
         /\ Row(dir, sid, m, tally, answered).missed =
              LET left == Frames - Cardinality(tally.decoded) - tally.near
              IN  IF left > 0 THEN left ELSE 0
BY DEF Row

LEMMA SettledKeeps ==
  ASSUME SweepInv, SweepInv', ExactInv, Steps PROVE Settled'
<1>0. \A s \in Stations : Moves(s) /\ Tallied(s) BY DEF Steps
<1>1. ASSUME NEW s \in Stations, NEW f \in On(s)', f.type = "RESULT"
      PROVE  Final(f.sid, f.mode)' /\ f.tally.decoded = Count(f.sid, f.mode)'
  <2>1. CASE f \in On(s)
    <3>1. f.sid \in 0 .. ids /\ f.mode \in 0 .. Modes BY <2>1, OnTypes
    <3>2. Final(f.sid, f.mode) /\ f.tally.decoded = Count(f.sid, f.mode)
      BY <1>1, <2>1 DEF ExactInv, Settled
    <3> QED BY <3>1, <3>2, FinalStays
  <2>2. CASE NewOn(s, f)
    <3>1. Peer(s) \in Stations BY TwoStations
    <3>2. Tells(Peer(s), f.sid, f.mode, f.tally) BY <1>1, <2>2 DEF NewOn
    <3> QED BY <3>1, <3>2, TellsFinal
  <2> QED BY <1>0, <2>1, <2>2 DEF Moves
<1>2. ASSUME NEW s \in Stations, NEW row \in Rows(s)', row.answered
      PROVE  Final(row.sid, row.mode)' /\ row.decoded = Count(row.sid, row.mode)'
  <2>1. CASE row \in Rows(s)
    <3>1. row.sid \in 0 .. ids /\ row.mode \in 0 .. Modes BY <2>1, RowTypes
    <3>2. Final(row.sid, row.mode) /\ row.decoded = Count(row.sid, row.mode)
      BY <1>2, <2>1 DEF ExactInv, Settled
    <3> QED BY <3>1, <3>2, FinalStays
  <2>2. CASE Told(s, row)
    <3>1. PICK dir \in {"TX", "RX"}, tally \in TallyOf(ids), answered \in BOOLEAN :
            /\ row = Row(dir, row.sid, row.mode, tally, answered)
            /\ \/ ~answered /\ tally = None
               \/ \E f \in On(s) : Names(f, "RESULT", row.sid, row.mode) /\ tally = f.tally
               \/ Tells(s, row.sid, row.mode, tally)
      BY <2>2 DEF Told
    <3>2. row.answered = answered /\ row.decoded = tally.decoded BY <3>1, RowFields
    <3>3. CASE \E f \in On(s) : Names(f, "RESULT", row.sid, row.mode) /\ tally = f.tally
      <4>1. PICK f \in On(s) : Names(f, "RESULT", row.sid, row.mode) /\ tally = f.tally BY <3>3
      <4>2. f.sid \in 0 .. ids /\ f.mode \in 0 .. Modes BY OnTypes
      <4>3. Final(f.sid, f.mode) /\ f.tally.decoded = Count(f.sid, f.mode)
        BY <4>1 DEF ExactInv, Settled, Names
      <4>4. Final(f.sid, f.mode)' /\ Count(f.sid, f.mode)' = Count(f.sid, f.mode)
        BY <4>2, <4>3, FinalStays
      <4> QED BY <3>2, <4>1, <4>3, <4>4 DEF Names
    <3>4. CASE Tells(s, row.sid, row.mode, tally) BY <3>2, <3>4, TellsFinal
    <3> QED BY <1>2, <3>1, <3>2, <3>3, <3>4
  <2> QED BY <2>1, <2>2 DEF Steps
<1> QED BY <1>1, <1>2 DEF Settled

LEMMA Sizes ==
  ASSUME NEW d \in SUBSET Seqs, NEW x
  PROVE  /\ Cardinality(d) \in Nat
         /\ Cardinality(d \union {x}) \in Nat
         /\ Cardinality(d \union {x}) <= Cardinality(d) + 1
         /\ Cardinality({}) = 0
<1>1. IsFiniteSet(0 .. Frames - 1) BY SweepAssumption, FS_Interval
<1>2. IsFiniteSet(d) BY <1>1, FS_Subset DEF Seqs
<1>3. Cardinality(d) \in Nat BY <1>2, FS_CardinalityType
<1>4. Cardinality({}) = 0 BY FS_EmptySet
<1>5. CASE x \in d
  <2>1. d \union {x} = d BY <1>5
  <2>2. Cardinality(d \union {x}) = Cardinality(d) BY <2>1
  <2> QED BY <1>3, <1>4, <2>2
<1>6. CASE x \notin d
  <2>1. Cardinality(d \union {x}) = Cardinality(d) + 1 BY <1>2, <1>6, FS_AddElement
  <2> QED BY <1>3, <1>4, <2>1
<1> QED BY <1>5, <1>6

LEMMA EmptyWithin ==
  /\ Within(None) /\ \A x, m : Within(Fresh(x, m))
<1>1. Cardinality({}) = 0 /\ Frames \in Nat BY FS_EmptySet, SweepAssumption
<1>2. Within(None) BY <1>1, NoneIs DEF Within
<1>3. ASSUME NEW x, NEW m PROVE Within(Fresh(x, m))
  <2>1. Fresh(x, m).decoded = {} /\ Fresh(x, m).near = 0 BY FreshIs
  <2> QED BY <1>1, <2>1 DEF Within
<1> QED BY <1>2, <1>3

LEMMA RoomKeeps ==
  ASSUME SweepInv, SweepInv', ExactInv, Steps PROVE Room'
<1>0. \A s \in Stations : Moves(s) /\ Tallied(s) BY DEF Steps
<1>1. ASSUME NEW s \in Stations PROVE Fits(armed'[s])
  <2>n. /\ armed[s] \in TallyOf(ids) /\ armed[s].near \in Nat
        /\ armed[s].decoded \in SUBSET Seqs
    BY Numbers
  <2>1. CASE Keeps(s) BY <2>1 DEF Keeps, ExactInv, Room
  <2>2. CASE Drops(s) BY <2>2, EmptyWithin DEF Drops, Fits
  <2>3. CASE Arms(s) BY <2>3, EmptyWithin DEF Arms, ExactInv, Room, Fits
  <2>4. CASE Counts(s)
    <3>1. PICK f \in On(s) :
            /\ Decodes(s, f) /\ ArmedFor(s, f.sid, f.mode)
            /\ armed'[s] = [armed[s] EXCEPT !.decoded = @ \union {f.seq}]
      BY <2>4 DEF Counts
    <3>2. Armed(s) /\ f.mode = armed[s].mode
      BY <3>1 DEF ExactInv, Placed, Decodes, Walks, Armed, ArmedFor
    <3>3. /\ f.mode # Control => armed[s].near + Cardinality(armed[s].decoded) <= f.seq
          /\ f.seq \in Seqs
      BY <3>1, <3>2, OnTypes DEF ExactInv, Room, Decodes
    <3>4. /\ armed'[s].near = armed[s].near
          /\ armed'[s].decoded = armed[s].decoded \union {f.seq}
          /\ armed'[s].mode = f.mode
      BY <2>n, <3>1, <3>2, Recounted
    <3>5. /\ Cardinality(armed[s].decoded) \in Nat /\ Cardinality(armed'[s].decoded) \in Nat
          /\ Cardinality(armed'[s].decoded) <= Cardinality(armed[s].decoded) + 1
      BY <2>n, <3>4, Sizes
    <3> QED BY <2>n, <3>3, <3>4, <3>5, SweepAssumption DEF Fits, Within, Seqs
  <2>5. CASE NearlyCounts(s)
    <3>1. PICK f \in On(s) :
            /\ Decodes(s, f) /\ armed[s].mode = f.mode
            /\ armed'[s] = [armed[s] EXCEPT !.near = @ + 1]
      BY <2>5 DEF NearlyCounts
    <3>2. Armed(s)
      <4>1. f.mode \in 1 .. Modes BY <3>1, OnTypes DEF Decodes
      <4>2. f.mode # 0 BY <4>1
      <4> QED BY <3>1, <4>2, NoneIs DEF ExactInv, Placed
    <3>3. /\ f.mode # Control => armed[s].near + Cardinality(armed[s].decoded) <= f.seq
          /\ f.seq \in Seqs
      BY <3>1, <3>2, OnTypes DEF ExactInv, Room, Decodes
    <3>4. /\ armed'[s].near = armed[s].near + 1 /\ armed'[s].decoded = armed[s].decoded
          /\ armed'[s].mode = f.mode
      BY <2>n, <3>1, Recounted
    <3>5. Cardinality(armed[s].decoded) \in Nat BY <2>n, Sizes
    <3> QED BY <2>n, <3>3, <3>4, <3>5, SweepAssumption DEF Fits, Within, Seqs
  <2>6. CASE Strays(s)
    <3>1. armed'[s].mode = Control BY <2>n, <2>6, Recounted DEF Strays
    <3> QED BY <3>1 DEF Fits
  <2> QED BY <1>0, <2>1, <2>2, <2>3, <2>4, <2>5, <2>6 DEF Tallied
<1>2. ASSUME NEW s \in Stations PROVE Fits(held'[s])
  <2>1. held'[s] \in {None, armed[s], held[s]}
    BY <1>0 DEF Tallied, Keeps, Drops, Arms, Counts, NearlyCounts, Decodes, Strays
  <2> QED BY <2>1, EmptyWithin DEF ExactInv, Room, Fits
<1>3. ASSUME NEW s \in Stations, NEW f \in On(s)', f.type = "RESULT", f.mode # Control
      PROVE  Within(f.tally)
  <2>1. CASE f \in On(s) BY <1>3, <2>1 DEF ExactInv, Room
  <2>2. CASE NewOn(s, f)
    <3>1. Peer(s) \in Stations /\ Tells(Peer(s), f.sid, f.mode, f.tally)
      BY <1>3, <2>2, TwoStations DEF NewOn
    <3>2. f.mode # Control => Within(f.tally) BY <3>1, TellsFinal
    <3> QED BY <1>3, <3>2
  <2> QED BY <1>0, <2>1, <2>2 DEF Moves
<1>4. ASSUME NEW s \in Stations, Armed(s)', NEW g \in On(s)', g.type = "DATA",
             g.mode = armed'[s].mode, g.mode # Control
      PROVE  armed'[s].near + Cardinality(armed'[s].decoded) <= g.seq
  <2>n. /\ ids \in Nat /\ Modes \in Nat /\ armed[s] \in TallyOf(ids) /\ armed[s].near \in Nat
        /\ armed[s].decoded \in SUBSET Seqs
        /\ armed[s].sid \in 0 .. ids /\ armed[s].mode \in 0 .. Modes
    BY Numbers
  <2>1. g \in In(air[s])' BY <1>0, <1>4 DEF Moves, On
  <2>2. ~Arms(s) /\ ~\E a \in On(s) : ArmedBy(s, a) BY <2>1 DEF Arms, ArmedBy
  <2>3. SameArmed(s) /\ Armed(s)
    <3>1. SameArmed(s) BY <1>0, <1>4, <2>2, ArmedMoves
    <3> QED BY <1>4, <3>1 DEF SameArmed, Armed
  <2>4. g.mode = armed[s].mode /\ ~Strays(s) BY <1>4, <2>3 DEF SameArmed, Strays
  <2>5. CASE g \in On(s)
    <3>1. armed[s].near + Cardinality(armed[s].decoded) <= g.seq /\ g.seq \in Seqs
      BY <1>4, <2>3, <2>4, <2>5, OnTypes DEF ExactInv, Room
    <3>2. ASSUME NEW f \in On(s), Decodes(s, f), f.mode = armed[s].mode
          PROVE  armed[s].near + Cardinality(armed[s].decoded) + 1 <= g.seq
      <4>1. f.sid = armed[s].sid /\ g.sid = armed[s].sid
        BY <1>4, <2>3, <2>4, <2>5, <3>2, SameBurst DEF Decodes
      <4>2. Earlier(s, f, g) BY <1>4, <3>2 DEF Decodes
      <4>3. InOrder(f, g) BY <2>5, <4>2 DEF ExactInv, Sorted
      <4>4. f.seq < g.seq
        BY <1>4, <2>4, <3>2, <4>1, <4>3 DEF InOrder, Walks, Decodes
      <4>5. armed[s].near + Cardinality(armed[s].decoded) <= f.seq /\ f.seq \in Seqs
        BY <1>4, <2>3, <2>4, <3>2, OnTypes DEF ExactInv, Room, Decodes
      <4>6. Cardinality(armed[s].decoded) \in Nat BY <2>n, Sizes
      <4> QED BY <2>n, <3>1, <4>4, <4>5, <4>6, SweepAssumption DEF Seqs
    <3>3. CASE Keeps(s) BY <3>1, <3>3 DEF Keeps
    <3>4. CASE Drops(s) BY <1>4, <3>4, NoneIs DEF Drops, Armed
    <3>5. CASE Counts(s)
      <4>1. PICK f \in On(s) :
              /\ Decodes(s, f) /\ ArmedFor(s, f.sid, f.mode)
              /\ armed'[s] = [armed[s] EXCEPT !.decoded = @ \union {f.seq}]
        BY <3>5 DEF Counts
      <4>2. armed[s].near + Cardinality(armed[s].decoded) + 1 <= g.seq
        BY <3>2, <4>1 DEF ArmedFor
      <4>3. /\ armed'[s].near = armed[s].near
            /\ armed'[s].decoded = armed[s].decoded \union {f.seq}
        BY <2>n, <4>1, Recounted
      <4>4. /\ Cardinality(armed[s].decoded) \in Nat /\ Cardinality(armed'[s].decoded) \in Nat
            /\ Cardinality(armed'[s].decoded) <= Cardinality(armed[s].decoded) + 1
        BY <2>n, <4>3, Sizes
      <4> QED BY <2>n, <3>1, <4>2, <4>3, <4>4, SweepAssumption DEF Seqs
    <3>6. CASE NearlyCounts(s)
      <4>1. PICK f \in On(s) :
              /\ Decodes(s, f) /\ armed[s].mode = f.mode
              /\ armed'[s] = [armed[s] EXCEPT !.near = @ + 1]
        BY <3>6 DEF NearlyCounts
      <4>2. armed[s].near + Cardinality(armed[s].decoded) + 1 <= g.seq BY <3>2, <4>1
      <4>3. armed'[s].near = armed[s].near + 1 /\ armed'[s].decoded = armed[s].decoded
        BY <2>n, <4>1, Recounted
      <4>4. Cardinality(armed[s].decoded) \in Nat BY <2>n, Sizes
      <4> QED BY <2>n, <3>1, <4>2, <4>3, <4>4, SweepAssumption DEF Seqs
    <3> QED BY <1>0, <2>2, <2>4, <3>3, <3>4, <3>5, <3>6 DEF Tallied
  <2>6. CASE NewOn(s, g) /\ g \notin On(s)
    <3>1. ~Sent(g.sid, g.mode) /\ Count(g.sid, g.mode) = {} BY <1>4, <2>6, NotYetSent
    <3>2. PICK r \in On(Peer(s)) : Names(r, "READY", g.sid, g.mode)
      BY <1>4, <2>6 DEF NewOn
    <3>3. NotAfter(g.sid, g.mode, armed[s].sid, armed[s].mode)
      BY <2>3, <3>2 DEF ExactInv, Answering, Names
    <3>4. NotAfter(armed[s].sid, armed[s].mode, g.sid, g.mode)
      BY <1>4, <2>3, <2>6, <2>n, NotAhead DEF ExactInv, Placed, Walks
    <3>5. g.sid = armed[s].sid
      <4>1. g.sid \in 1 .. ids BY <1>4, <2>6, NewPlaced DEF Walks
      <4> QED BY <2>4, <2>n, <3>3, <3>4, <4>1 DEF NotAfter
    <3>6. armed[s].decoded = {} /\ armed[s].near = 0
      BY <1>4, <2>3, <2>4, <3>1, <3>5 DEF ExactInv, Counted
    <3>7. armed'[s] = armed[s]
      <4>1. ~Drops(s) BY <1>4, NoneIs DEF Drops, Armed
      <4>2. ~Counts(s) /\ ~NearlyCounts(s)
        BY <1>4, <2>6 DEF Counts, NearlyCounts, Decodes
      <4> QED BY <1>0, <2>2, <2>4, <4>1, <4>2 DEF Tallied, Keeps
    <3>8. Cardinality({}) = 0 /\ g.seq \in Seqs BY <1>4, <2>6, FS_EmptySet DEF NewOn
    <3>9. armed'[s].near = 0 /\ Cardinality(armed'[s].decoded) = 0 BY <3>6, <3>7, <3>8
    <3> QED BY <3>8, <3>9, SweepAssumption DEF Seqs
  <2> QED BY <1>0, <2>5, <2>6 DEF Moves
<1> QED BY <1>1, <1>2, <1>3, <1>4 DEF Room

\* A row made of a tally that fits its burst adds up.
LEMMA RowAddsUp ==
  ASSUME NEW n, NEW dir, NEW sid, NEW m, NEW tally \in TallyOf(n), NEW answered, Within(tally),
         NEW row, row = Row(dir, sid, m, tally, answered)
  PROVE  AddsUp(row)
<1>1. tally.decoded \in SUBSET Seqs /\ tally.near \in Nat BY DEF TallyOf
<1>2. Cardinality(tally.decoded) \in Nat BY <1>1, Sizes
<1>3. /\ row.decoded = tally.decoded /\ row.near = tally.near
      /\ row.missed = LET left == Frames - Cardinality(tally.decoded) - tally.near
                      IN  IF left > 0 THEN left ELSE 0
  BY RowFields
<1> QED BY <1>1, <1>2, <1>3, SweepAssumption DEF Within, AddsUp

LEMMA AddingUpKeeps ==
  ASSUME SweepInv, SweepInv', ExactInv, Steps PROVE CountsAddUp'
<1> SUFFICES ASSUME NEW s \in Stations, NEW row \in Rows(s)', row.mode # Control
             PROVE  AddsUp(row)
  BY DEF CountsAddUp, AddsUp
<1>1. CASE row \in Rows(s) BY <1>1 DEF ExactInv, CountsAddUp
<1>2. CASE Told(s, row)
  <2>1. PICK dir \in {"TX", "RX"}, tally \in TallyOf(ids), answered \in BOOLEAN :
          /\ row = Row(dir, row.sid, row.mode, tally, answered)
          /\ \/ ~answered /\ tally = None
             \/ \E f \in On(s) : Names(f, "RESULT", row.sid, row.mode) /\ tally = f.tally
             \/ Tells(s, row.sid, row.mode, tally)
    BY <1>2 DEF Told
  <2>2. Within(tally)
    <3>1. CASE tally = None BY <3>1, EmptyWithin
    <3>2. CASE \E f \in On(s) : Names(f, "RESULT", row.sid, row.mode) /\ tally = f.tally
      BY <3>2 DEF ExactInv, Room, Names
    <3>3. CASE Tells(s, row.sid, row.mode, tally) BY <3>3, TellsFinal
    <3> QED BY <2>1, <3>1, <3>2, <3>3
  <2> QED BY <2>1, <2>2, RowAddsUp
<1> QED BY <1>1, <1>2 DEF Steps

LEMMA ExactKeeps ==
  ASSUME SweepInv, SweepInv', ExactInv, Steps PROVE ExactInv'
BY PlacedKeeps, OwnedKeeps, SortedKeeps, AnsweringKeeps, CountedKeeps, KeptKeeps,
   SettledKeeps, RoomKeeps, AddingUpKeeps DEF ExactInv

----------------------------------------------------------------------------
(* The steps are such steps *)

LEMMA QueueTypes ==
  ASSUME SweepInv, NEW s \in Stations
  PROVE  frames[s] \in Seq(FrameOf(ids)) /\ air[s] \in Seq(FrameOf(ids))
BY DEF SweepInv, Path

\* A queue that loses its head, or everything
LEMMA QueueLess ==
  ASSUME SweepInv, Placed, NEW s \in Stations,
         \/ frames'[s] \in {frames[s], << >>}
         \/ frames[s] # << >> /\ frames'[s] = Tail(frames[s]),
         air'[s] \in {air[s], << >>}
  PROVE  /\ Moves(s)
         /\ (frames[s] # << >> /\ frames'[s] = Tail(frames[s])) => Behind(s, Head(frames[s]))
<1> DEFINE F == FrameOf(ids)
<1>0. frames[s] \in Seq(F) /\ air[s] \in Seq(F) BY QueueTypes
<1> HIDE DEF F
<1>1. /\ In(frames'[s]) \subseteq In(frames[s])
      /\ \A f, g : Pair(frames'[s], f, g) => Pair(frames[s], f, g)
  BY <1>0, TailQueue, EmptyQueue
<1>2. /\ In(air'[s]) \subseteq In(air[s])
      /\ \A f, g : Pair(air'[s], f, g) => Pair(air[s], f, g)
  BY <1>0, EmptyQueue
<1>3. In(frames[s])' = In(frames'[s]) /\ In(air[s])' = In(air'[s]) OBVIOUS
<1>4. \A f \in On(s)' : f \in On(s) BY <1>1, <1>2, <1>3 DEF On
<1>5. \A f, g : Earlier(s, f, g)' => Earlier(s, f, g)
  BY <1>1, <1>2, <1>3 DEF Earlier
<1>6. \A f \in In(frames[s])' : f.type # "DATA" BY <1>1, <1>3 DEF Placed
<1>7. Moves(s) BY <1>2, <1>3, <1>4, <1>5, <1>6 DEF Moves
<1>8. ASSUME frames[s] # << >>, frames'[s] = Tail(frames[s]) PROVE Behind(s, Head(frames[s]))
  <2>1. Head(frames[s]) \in In(frames[s]) BY <1>0, <1>8, TailQueue
  <2>2. ASSUME NEW g \in On(s)' PROVE Earlier(s, Head(frames[s]), g)
    <3>1. CASE g \in In(frames[s])'
      <4>1. Pair(frames[s], Head(frames[s]), g) BY <1>0, <1>3, <1>8, <3>1, TailQueue
      <4> QED BY <4>1 DEF Earlier
    <3>2. CASE g \in In(air[s])' BY <1>2, <1>3, <2>1, <3>2 DEF Earlier
    <3> QED BY <3>1, <3>2 DEF On
  <2> QED BY <2>1, <2>2 DEF Behind, On
<1> QED BY <1>7, <1>8

\* A queue that something new joins
LEMMA QueueJoined ==
  ASSUME SweepInv, Placed, NEW s \in Stations, frames'[s] = frames[s],
         NEW h \in Seq(FrameOf(ids)), air'[s] = air[s] \o h,
         \A f \in In(h) : NewOn(s, f), \A f, g : Pair(h, f, g) => InOrder(f, g)
  PROVE  Moves(s)
<1> DEFINE F == FrameOf(ids)
<1>0. frames[s] \in Seq(F) /\ air[s] \in Seq(F) /\ h \in Seq(F) BY QueueTypes
<1> HIDE DEF F
<1>1. /\ In(air'[s]) = In(air[s]) \union In(h)
      /\ \A f, g : Pair(air'[s], f, g) =>
           Pair(air[s], f, g) \/ Pair(h, f, g) \/ (f \in In(air[s]) /\ g \in In(h))
  BY <1>0, JoinedQueue
<1>2. In(frames[s])' = In(frames[s]) /\ In(air[s])' = In(air'[s]) OBVIOUS
<1>3. \A f \in On(s)' : f \in On(s) \/ NewOn(s, f) BY <1>1, <1>2 DEF On
<1>4. \A f \in In(air[s])' : f \in In(air[s]) \/ NewOn(s, f) BY <1>1, <1>2
<1>5. ASSUME NEW f \in On(s)', NEW g \in On(s)', Earlier(s, f, g)'
      PROVE  \/ Earlier(s, f, g)
             \/ f \in On(s) /\ NewOn(s, g)
             \/ NewOn(s, f) /\ NewOn(s, g) /\ InOrder(f, g)
  <2>1. CASE Pair(frames'[s], f, g) BY <2>1 DEF Earlier
  <2>2. CASE Pair(air'[s], f, g)
    <3>1. CASE Pair(air[s], f, g) BY <3>1 DEF Earlier
    <3>2. CASE Pair(h, f, g)
      <4>1. f \in In(h) /\ g \in In(h) BY <3>2 DEF Pair, In
      <4> QED BY <3>2, <4>1
    <3>3. CASE f \in In(air[s]) /\ g \in In(h) BY <3>3 DEF On
    <3> QED BY <1>1, <2>2, <3>1, <3>2, <3>3
  <2>3. CASE f \in In(frames[s])' /\ g \in In(air[s])'
    <3>1. CASE g \in In(air[s]) BY <1>2, <2>3, <3>1 DEF Earlier
    <3>2. CASE g \in In(h) BY <1>2, <2>3, <3>2 DEF On
    <3> QED BY <1>1, <1>2, <2>3, <3>1, <3>2
  <2> QED BY <1>5, <2>1, <2>2, <2>3 DEF Earlier
<1>6. \A f \in In(frames[s])' : f.type # "DATA" BY <1>2 DEF Placed
<1> QED BY <1>3, <1>4, <1>5, <1>6 DEF Moves

LEMMA KeyMoves ==
  ASSUME SweepInv, Placed, NEW s \in Stations, NEW sent,
         NEW arrivals \in SUBSET Seq(FrameOf(ids)), Key(s, sent, arrivals),
         \/ frames' = frames
         \/ frames[s] # << >> /\ frames' = [frames EXCEPT ![s] = Tail(frames[s])],
         \A h \in arrivals : /\ \A f \in In(h) : NewOn(Peer(s), f)
                             /\ \A f, g : Pair(h, f, g) => InOrder(f, g)
  PROVE  /\ \A t \in Stations : Moves(t)
         /\ In(air[s])' = {}
         /\ frames' # frames => Behind(s, Head(frames[s]))
<1> DEFINE p == Peer(s)
<1>p. p \in Stations /\ p # s /\ \A t \in Stations : t = s \/ t = p BY TwoStations
<1>1. PICK h \in arrivals :
        air' = [air EXCEPT ![s] = << >>,
                           ![p] = IF Up(p) /\ Len(@ \o h) <= AirCap THEN @ \o h ELSE @]
  BY DEF Key
<1> HIDE DEF p
<1>2. /\ air \in [Stations -> Seq(FrameOf(ids))] /\ frames \in [Stations -> Seq(FrameOf(ids))]
  BY DEF SweepInv, Path
<1>3. /\ air'[s] = << >>
      /\ air'[p] \in {air[p], air[p] \o h}
      /\ frames'[p] = frames[p]
      /\ frames'[s] = frames[s] \/ (frames[s] # << >> /\ frames'[s] = Tail(frames[s]))
      /\ frames' # frames => frames[s] # << >> /\ frames'[s] = Tail(frames[s])
  BY <1>p, <1>1, <1>2
<1>4. /\ Moves(s)
      /\ (frames[s] # << >> /\ frames'[s] = Tail(frames[s])) => Behind(s, Head(frames[s]))
  BY <1>3, QueueLess
<1>5. Moves(p)
  <2>1. CASE air'[p] = air[p] BY <1>p, <1>3, <2>1, QueueLess
  <2>2. CASE air'[p] = air[p] \o h
    <3>1. /\ \A f \in In(h) : NewOn(p, f)
          /\ \A f, g : Pair(h, f, g) => InOrder(f, g)
      BY DEF p
    <3> QED BY <1>p, <1>3, <2>2, <3>1, QueueJoined
  <2> QED BY <1>3, <2>1, <2>2
<1>6. In(air[s])' = {} BY <1>3, EmptyQueue
<1> QED BY <1>p, <1>3, <1>4, <1>5, <1>6

LEMMA ControlMoves ==
  ASSUME SweepInv, Placed, NEW s \in Stations, NEW f \in FrameOf(ids), TxControl(s, f),
         NewOn(Peer(s), f),
         \/ frames' = frames
         \/ frames[s] # << >> /\ frames' = [frames EXCEPT ![s] = Tail(frames[s])]
  PROVE  /\ \A t \in Stations : Moves(t)
         /\ In(air[s])' = {}
         /\ frames' # frames => Behind(s, Head(frames[s]))
<1> DEFINE A == Heard(<<f>>)
<1>1. A \in SUBSET Seq(FrameOf(ids)) BY HeardControl
<1>2. ASSUME NEW e \in {"near", "whole"} PROVE NewOn(Peer(s), Fated(f, e))
  <2>1. ids \in Nat BY DEF SweepInv, Counters
  <2>2. /\ Fated(f, e).type = f.type
        /\ Fated(f, e).sid = f.sid /\ Fated(f, e).mode = f.mode
        /\ f.type = "RESULT" => Fated(f, e).tally = f.tally
        /\ f.type = "DATA" => Fated(f, e).seq = f.seq
    BY <2>1, FatedIs
  <2> QED BY <2>2 DEF NewOn
<1>3. ASSUME NEW h \in A
      PROVE  (\A g \in In(h) : NewOn(Peer(s), g)) /\ \A e, g : ~Pair(h, e, g)
  <2>1. h = << >> \/ \E e \in {"near", "whole"} : h = <<Fated(f, e)>> BY HeardOne
  <2> QED BY <1>2, <2>1, EmptyQueue, SingleQueue
<1>4. Key(s, <<f>>, A) BY DEF TxControl
<1> HIDE DEF A
<1>5. \A h \in A : /\ \A g \in In(h) : NewOn(Peer(s), g)
                   /\ \A e, g : Pair(h, e, g) => InOrder(e, g)
  BY <1>3
<1> QED BY <1>1, <1>4, <1>5, KeyMoves

LEMMA SequenceOf ==
  ASSUME NEW S, NEW n \in Nat, NEW h, h = [i \in 1 .. n |-> h[i]],
         \A i \in 1 .. n : h[i] \in S
  PROVE  h \in Seq(S)
OBVIOUS

LEMMA BurstMoves ==
  ASSUME SweepInv, Placed, NEW s \in Stations, TxBurst(s), pc[s] = "awaitReady", pc'[s] = "ask",
         frames[s] # << >>, frames' = [frames EXCEPT ![s] = Tail(frames[s])],
         IsReady(s, Head(frames[s]))
  PROVE  /\ \A t \in Stations : Moves(t)
         /\ Behind(s, Head(frames[s]))
<1> DEFINE burst == [i \in 1 .. Frames |->
                      [type |-> "DATA", sid |-> id[s], mode |-> mode[s],
                       seq |-> i - 1, fate |-> "whole"]]
<1>0. /\ id[s] \in 1 .. ids /\ mode[s] \in 1 .. Modes /\ ids \in Nat
      /\ Peer(s) \in Stations /\ Peer(Peer(s)) = s
  <2>1. pc[s] \in Walking BY DEF Walking
  <2> QED BY <2>1, Numbers, TwoStations
<1>1. DOMAIN burst = 1 .. Frames /\ Frames \in Nat BY SweepAssumption
<1>2. ASSUME NEW i \in 1 .. Frames, NEW fate \in {"near", "whole"}
      PROVE  /\ [burst[i] EXCEPT !.fate = fate] \in FrameOf(ids)
             /\ [burst[i] EXCEPT !.fate = fate].type = "DATA"
             /\ [burst[i] EXCEPT !.fate = fate].sid = id[s]
             /\ [burst[i] EXCEPT !.fate = fate].mode = mode[s]
             /\ [burst[i] EXCEPT !.fate = fate].seq = i - 1
             /\ i - 1 \in Seqs
  <2>1. i - 1 \in Seqs BY SweepAssumption DEF Seqs
  <2>2. burst[i] = [type |-> "DATA", sid |-> id[s], mode |-> mode[s],
                    seq |-> i - 1, fate |-> "whole"]
    OBVIOUS
  <2>3. [burst[i] EXCEPT !.fate = fate] \in DataOf(ids) BY <1>0, <2>1, <2>2 DEF DataOf
  <2>4. [burst[i] EXCEPT !.fate = fate] \in FrameOf(ids) BY <2>3 DEF FrameOf
  <2> QED BY <2>1, <2>2, <2>4
<1>3. Len(burst) = Frames BY <1>1
<1> HIDE DEF burst
<1>4. ASSUME NEW h \in Heard(burst)
      PROVE  /\ h \in Seq(FrameOf(ids))
             /\ \A f \in In(h) : f.type = "DATA" /\ f.sid = id[s] /\ f.mode = mode[s] /\ f.seq \in Seqs
             /\ \A f, g : Pair(h, f, g) => f.seq < g.seq
  <2>1. PICK n \in 0 .. Frames :
          \E at \in {k \in [1 .. n -> 1 .. Frames] :
                       \A i, j \in 1 .. n : i < j => k[i] < k[j]},
             fate \in [1 .. n -> {"near", "whole"}] :
            h = [i \in 1 .. n |-> [burst[at[i]] EXCEPT !.fate = fate[i]]]
    BY <1>1, <1>3 DEF Heard
  <2>2. PICK at \in [1 .. n -> 1 .. Frames], fate \in [1 .. n -> {"near", "whole"}] :
          /\ \A i, j \in 1 .. n : i < j => at[i] < at[j]
          /\ h = [i \in 1 .. n |-> [burst[at[i]] EXCEPT !.fate = fate[i]]]
    BY <2>1
  <2> DEFINE F == FrameOf(ids)
  <2>a. n \in Nat /\ DOMAIN h = 1 .. n BY <2>1, <2>2
  <2>b. \A i \in 1 .. n : at[i] \in 1 .. Frames /\ fate[i] \in {"near", "whole"} BY <2>2
  <2>c. \A i \in 1 .. n : h[i] = [burst[at[i]] EXCEPT !.fate = fate[i]] BY <2>2
  <2>d. ASSUME NEW i \in 1 .. n
        PROVE  /\ h[i] \in F /\ h[i].type = "DATA"
               /\ h[i].sid = id[s] /\ h[i].mode = mode[s]
               /\ h[i].seq = at[i] - 1 /\ at[i] - 1 \in Seqs /\ at[i] \in Int
    <3>1. at[i] \in 1 .. Frames /\ fate[i] \in {"near", "whole"} BY <2>b
    <3>2. h[i] = [burst[at[i]] EXCEPT !.fate = fate[i]] BY <2>c
    <3>3. PICK j \in 1 .. Frames, e \in {"near", "whole"} : j = at[i] /\ e = fate[i] BY <3>1
    <3>4. h[i] = [burst[j] EXCEPT !.fate = e] BY <3>2, <3>3
    <3>5. j \in Int BY <1>1
    <3> DEFINE d == [burst[j] EXCEPT !.fate = e]
    <3>6. /\ d \in F /\ d.type = "DATA" /\ d.sid = id[s] /\ d.mode = mode[s]
          /\ d.seq = j - 1 /\ j - 1 \in Seqs
      BY <1>2
    <3>7. h[i] = d BY <3>4
    <3> HIDE DEF d
    <3>8. /\ h[i] \in F /\ h[i].type = "DATA" /\ h[i].sid = id[s] /\ h[i].mode = mode[s]
          /\ h[i].seq = j - 1
      BY <3>6, <3>7
    <3>9. j = at[i] BY <3>3
    <3> HIDE DEF F
    <3> QED BY <3>5, <3>6, <3>8, <3>9
  <2> HIDE DEF F
  <2>e. h = [i \in 1 .. n |-> h[i]] BY <2>2, <2>c
  <2>f. h \in Seq(F)
    <3>1. \A i \in 1 .. n : h[i] \in F BY <2>d
    <3> QED BY <2>a, <2>e, <3>1, SequenceOf
  <2>3. \A i \in 1 .. n : /\ h[i].type = "DATA" /\ h[i].sid = id[s] /\ h[i].mode = mode[s]
                         /\ h[i].seq = at[i] - 1 /\ at[i] - 1 \in Seqs /\ at[i] \in Int
    BY <2>d
  <2>4. h \in Seq(FrameOf(ids)) BY <2>f DEF F
  <2>5. ASSUME NEW f, NEW g, Pair(h, f, g) PROVE f.seq < g.seq
    <3>1. PICK i \in 1 .. n, j \in 1 .. n : i < j /\ h[i] = f /\ h[j] = g BY <2>a, <2>5 DEF Pair
    <3>2. at[i] < at[j] BY <2>2, <3>1
    <3> QED BY <2>3, <3>1, <3>2
  <2> QED BY <2>a, <2>3, <2>4, <2>5 DEF In
<1>5. Key(s, burst, Heard(burst)) BY DEF TxBurst, burst
<1>6. Head(frames[s]) \in On(s) BY QueueTypes, TailQueue DEF On
<1>7. ASSUME NEW h \in Heard(burst)
      PROVE  /\ \A f \in In(h) : NewOn(Peer(s), f)
             /\ \A f, g : Pair(h, f, g) => InOrder(f, g)
  <2>1. ASSUME NEW f \in In(h) PROVE NewOn(Peer(s), f)
    <3>1. f.type = "DATA" /\ f.sid = id[s] /\ f.mode = mode[s] /\ f.seq \in Seqs BY <1>4
    <3>2. Names(Head(frames[s]), "READY", f.sid, f.mode) BY <3>1 DEF IsReady, Names
    <3> QED BY <1>0, <1>6, <3>1, <3>2 DEF NewOn
  <2>2. ASSUME NEW f, NEW g, Pair(h, f, g) PROVE InOrder(f, g)
    <3>1. f \in In(h) /\ g \in In(h) BY <2>2 DEF Pair, In
    <3>2. /\ f.type = "DATA" /\ f.sid = id[s] /\ f.mode = mode[s]
          /\ g.type = "DATA" /\ g.sid = id[s] /\ g.mode = mode[s] /\ f.seq < g.seq
      BY <1>4, <2>2, <3>1
    <3> QED BY <1>0, <3>2 DEF InOrder, NotAfter
  <2> QED BY <2>1, <2>2
<1>8. Heard(burst) \in SUBSET Seq(FrameOf(ids)) BY <1>4
<1>9. frames' # frames
  <2> DEFINE F == FrameOf(ids)
  <2>1. frames \in [Stations -> Seq(F)] BY DEF SweepInv, Path
  <2> HIDE DEF F
  <2>2. Tail(frames[s]) # frames[s]
    <3>1. frames[s] \in Seq(F) /\ frames[s] # << >> BY <2>1
    <3>2. Len(Tail(frames[s])) = Len(frames[s]) - 1 /\ Len(frames[s]) \in Nat BY <3>1
    <3>3. ASSUME Tail(frames[s]) = frames[s] PROVE FALSE
      <4> DEFINE n == Len(frames[s])
      <4>1. n = n - 1 /\ n \in Nat BY <3>2, <3>3
      <4> HIDE DEF n
      <4> QED BY <4>1
    <3> QED BY <3>3
  <2> QED BY <2>1, <2>2
<1> QED BY <1>5, <1>7, <1>8, <1>9, KeyMoves

\* A step that draws no identifier
LEMMA OnwardStays ==
  ASSUME SweepInv, ids' = ids, id' = id,
         \A q \in Stations : pc'[q] \in Walking =>
           /\ pc[q] \in Walking /\ mode[q] <= mode'[q]
           /\ (mode'[q] = mode[q] /\ pc[q] \in Asking) => pc'[q] \in Asking
  PROVE  Onward
<1>1. ids \in Nat /\ \A q \in Stations : id[q] \in 0 .. ids
  BY DEF SweepInv, Counters, Engines
<1>2. ids' \in Nat /\ ids <= ids' /\ \A q \in Stations : id[q] <= id'[q] /\ id'[q] = id[q]
  BY <1>1
<1> QED BY <1>2 DEF Onward

\* One that moves no engine
LEMMA OnwardSame ==
  ASSUME SweepInv, ids' = ids, id' = id, mode' = mode,
         \A q \in Stations : pc'[q] \in Walking => pc'[q] = pc[q]
  PROVE  Onward
<1>1. \A q \in Stations : mode[q] <= mode'[q] /\ mode'[q] = mode[q]
  BY DEF SweepInv, Engines
<1> QED BY <1>1, OnwardStays

LEMMA TallyStays ==
  ASSUME armed' = armed, held' = held PROVE \A s \in Stations : Tallied(s)
BY DEF Tallied, Keeps

LEMMA RowsStay ==
  ASSUME results' = results
  PROVE  \A s \in Stations : \A row \in Rows(s)' : row \in Rows(s) \/ Told(s, row)
BY DEF Rows

LEMMA RowsGrow ==
  ASSUME SweepInv, NEW s \in Stations, NEW row \in RowOf(ids), Told(s, row),
         results' = [results EXCEPT ![s] = Append(@, row)]
  PROVE  \A t \in Stations : \A r \in Rows(t)' : r \in Rows(t) \/ Told(t, r)
<1> DEFINE R == RowOf(ids)
<1>1. results \in [Stations -> Seq(R)] /\ row \in R BY DEF SweepInv, Drawn
<1> HIDE DEF R
<1>2. /\ results'[s] = Append(results[s], row) /\ results[s] \in Seq(R)
      /\ \A t \in Stations : t # s => results'[t] = results[t]
  BY <1>1
<1>3. /\ DOMAIN results[s] = 1 .. Len(results[s])
      /\ DOMAIN results'[s] = 1 .. Len(results[s]) + 1 /\ Len(results[s]) \in Nat
      /\ \A i \in 1 .. Len(results[s]) : results'[s][i] = results[s][i]
      /\ results'[s][Len(results[s]) + 1] = row
  BY <1>1, <1>2, AppendsAre
<1>4. ASSUME NEW r \in Rows(s)' PROVE r \in Rows(s) \/ r = row
  <2>1. PICK i \in 1 .. Len(results[s]) + 1 : r = results'[s][i] BY <1>3 DEF Rows
  <2>2. CASE i \in 1 .. Len(results[s]) BY <1>3, <2>1, <2>2 DEF Rows
  <2>3. CASE i = Len(results[s]) + 1 BY <1>3, <2>1, <2>3
  <2> QED BY <1>3, <2>1, <2>2, <2>3
<1>5. \A t \in Stations : t # s => \A r \in Rows(t)' : r \in Rows(t) BY <1>2 DEF Rows
<1> QED BY <1>4, <1>5

LEMMA KeyClears ==
  ASSUME SweepInv, NEW s \in Stations, NEW sent, NEW arrivals, Key(s, sent, arrivals)
  PROVE  air'[s] = << >>
<1>1. air \in [Stations -> Seq(FrameOf(ids))] BY DEF SweepInv, Path
<1> QED BY <1>1, TwoStations DEF Key

\* The head of what a station has decoded is handled.
LEMMA HeadMoves ==
  ASSUME SweepInv, Placed, NEW s \in Stations, frames[s] # << >>,
         frames' = [frames EXCEPT ![s] = Tail(frames[s])], air'[s] \in {air[s], << >>}
  PROVE  /\ Moves(s) /\ Behind(s, Head(frames[s])) /\ Head(frames[s]) \in On(s)
         /\ \A t \in Stations : (t # s /\ air'[t] = air[t]) => Moves(t)
<1>1. frames \in [Stations -> Seq(FrameOf(ids))] BY DEF SweepInv, Path
<1>2. /\ frames'[s] = Tail(frames[s])
      /\ \A t \in Stations : t # s => frames'[t] = frames[t]
  BY <1>1
<1>3. Moves(s) /\ Behind(s, Head(frames[s])) BY <1>2, QueueLess
<1>4. Head(frames[s]) \in On(s) BY <1>3 DEF Behind
<1>5. \A t \in Stations : (t # s /\ air'[t] = air[t]) => Moves(t) BY <1>2, QueueLess
<1> QED BY <1>3, <1>4, <1>5

LEMMA QueuesStay ==
  ASSUME SweepInv, Placed, frames' = frames, air' = air
  PROVE  \A s \in Stations : Moves(s)
BY QueueLess

----------------------------------------------------------------------------
(* The walk's actions *)

LEMMA AnnounceSteps ==
  ASSUME SweepInv, Placed, NEW s \in Stations, Announce(s) PROVE Steps
<1> DEFINE f == Frame("ANNOUNCE", id[s], mode[s])
<1>1. /\ TxControl(s, f) /\ pc[s] = "announce" /\ pc' = [pc EXCEPT ![s] = "awaitReady"]
      /\ UNCHANGED <<id, mode, results, armed, held, frames, ids, heard>>
  BY DEF Announce, engine, receiver, book
<1>2. id[s] \in 0 .. ids /\ mode[s] \in 0 .. Modes /\ ids \in Nat
      /\ Peer(Peer(s)) = s
  BY Numbers, TwoStations
<1>3. f \in FrameOf(ids) BY <1>2, ControlIs
<1>4. NewOn(Peer(s), f) BY <1>1, <1>2 DEF NewOn, Frame
<1> HIDE DEF f
<1>5. \A t \in Stations : Moves(t) BY <1>1, <1>3, <1>4, ControlMoves
<1>6. Onward
  <2>1. ASSUME NEW q \in Stations, pc'[q] \in Walking
        PROVE  /\ pc[q] \in Walking /\ mode[q] <= mode'[q]
               /\ (mode'[q] = mode[q] /\ pc[q] \in Asking) => pc'[q] \in Asking
    BY <1>1, <2>1 DEF SweepInv, Engines, Walking, Asking
  <2> QED BY <1>1, <2>1, OnwardStays
<1> QED BY <1>1, <1>5, <1>6, TallyStays, RowsStay DEF Steps

LEMMA AskSteps ==
  ASSUME SweepInv, Placed, NEW s \in Stations, Ask(s) PROVE Steps
<1> DEFINE f == Frame("ASK", id[s], mode[s])
<1>1. /\ TxControl(s, f) /\ pc[s] = "ask" /\ pc' = [pc EXCEPT ![s] = "awaitResult"]
      /\ UNCHANGED <<id, mode, results, armed, held, frames, ids, heard>>
  BY DEF Ask, engine, receiver, book
<1>2. id[s] \in 0 .. ids /\ mode[s] \in 0 .. Modes /\ ids \in Nat
      /\ Peer(Peer(s)) = s
  BY Numbers, TwoStations
<1>3. f \in FrameOf(ids) BY <1>2, ControlIs
<1>4. NewOn(Peer(s), f) BY <1>1, <1>2 DEF NewOn, Frame
<1> HIDE DEF f
<1>5. \A t \in Stations : Moves(t) BY <1>1, <1>3, <1>4, ControlMoves
<1>6. Onward
  <2>1. ASSUME NEW q \in Stations, pc'[q] \in Walking
        PROVE  /\ pc[q] \in Walking /\ mode[q] <= mode'[q]
               /\ (mode'[q] = mode[q] /\ pc[q] \in Asking) => pc'[q] \in Asking
    BY <1>1, <2>1 DEF SweepInv, Engines, Walking, Asking
  <2> QED BY <1>1, <2>1, OnwardStays
<1> QED BY <1>1, <1>5, <1>6, TallyStays, RowsStay DEF Steps

LEMMA HandOverSteps ==
  ASSUME SweepInv, Placed, NEW s \in Stations, Swap(s) \/ Bye(s) PROVE Steps
<1>1. PICK f \in FrameOf(ids) : TxControl(s, f) /\ f.type \in {"SWAP", "DONE"}
  <2>1. /\ {"SWAP", "DONE"} \subseteq {"ANNOUNCE", "READY", "ASK", "SWAP", "DONE"}
        /\ id[s] \in 0 .. ids /\ lastSwap[s] \in 0 .. ids /\ 0 \in 0 .. Modes /\ ids \in Nat
    BY SweepAssumption DEF SweepInv, Engines, Counters
  <2>2. /\ Frame("SWAP", id[s], 0) \in FrameOf(ids) /\ Frame("DONE", lastSwap[s], 0) \in FrameOf(ids)
        /\ Frame("SWAP", id[s], 0).type = "SWAP" /\ Frame("DONE", lastSwap[s], 0).type = "DONE"
    BY <2>1, ControlIs DEF Frame
  <2> QED BY <2>2 DEF Swap, Bye
<1>2. /\ pc' = [pc EXCEPT ![s] = "serve"]
      /\ UNCHANGED <<id, mode, results, armed, held, frames, ids, heard>>
  BY DEF Swap, Bye, engine, receiver, book
<1>3. NewOn(Peer(s), f) BY <1>1 DEF NewOn
<1>4. \A t \in Stations : Moves(t) BY <1>1, <1>2, <1>3, ControlMoves
<1>5. Onward
  <2>1. \A q \in Stations : pc'[q] \in Walking => pc'[q] = pc[q]
    BY <1>2 DEF SweepInv, Engines, Walking
  <2> QED BY <1>2, <2>1, OnwardSame
<1> QED BY <1>2, <1>4, <1>5, TallyStays, RowsStay DEF Steps

LEMMA AnnounceTimeoutSteps ==
  ASSUME SweepInv, Placed, NEW s \in Stations, AnnounceTimeout(s) PROVE Steps
<1>1. /\ pc[s] = "awaitReady"
      /\ UNCHANGED <<id, results, armed, held, frames, air, ids, heard>>
  BY DEF AnnounceTimeout, receiver, book
<1>2. \/ pc' = [pc EXCEPT ![s] = "announce"] /\ UNCHANGED mode
      \/ /\ mode' = [mode EXCEPT ![s] = 1]
         /\ \E where \in {"failed", "swap", "bye"} : pc' = [pc EXCEPT ![s] = where]
  BY DEF AnnounceTimeout, WalkOver, WalkEnds, Control
<1>3. \A q \in Stations : pc'[q] \in Walking =>
        /\ pc[q] \in Walking /\ mode[q] <= mode'[q]
        /\ (mode'[q] = mode[q] /\ pc[q] \in Asking) => pc'[q] \in Asking
  <2>1. ASSUME NEW q \in Stations, pc'[q] \in Walking, q # s
        PROVE  pc'[q] = pc[q] /\ mode'[q] = mode[q] /\ mode[q] \in Int
    BY <1>2, <2>1 DEF SweepInv, Engines
  <2>2. ASSUME pc'[s] \in Walking
        PROVE  pc[s] \in Walking /\ mode'[s] = mode[s] /\ mode[s] \in Int /\ pc[s] \notin Asking
    BY <1>1, <1>2, <2>2 DEF SweepInv, Engines, Walking, Asking
  <2> QED BY <2>1, <2>2
<1>4. Onward BY <1>1, <1>3, OnwardStays
<1> QED BY <1>1, <1>4, QueuesStay, TallyStays, RowsStay DEF Steps

LEMMA HearReadySteps ==
  ASSUME SweepInv, Placed, NEW s \in Stations, HearReady(s) PROVE Steps
<1>1. /\ pc[s] = "awaitReady" /\ frames[s] # << >> /\ TxBurst(s) /\ IsReady(s, Head(frames[s]))
      /\ frames' = [frames EXCEPT ![s] = Tail(frames[s])]
      /\ pc' = [pc EXCEPT ![s] = "ask"]
      /\ UNCHANGED <<id, mode, results, armed, held, ids, heard>>
  BY DEF HearReady, receiver, book
<1>2. pc'[s] = "ask" BY <1>1 DEF SweepInv, Engines
<1>3. \A t \in Stations : Moves(t) BY <1>1, <1>2, BurstMoves
<1>4. Onward
  <2>1. ASSUME NEW q \in Stations, pc'[q] \in Walking
        PROVE  /\ pc[q] \in Walking /\ mode[q] <= mode'[q]
               /\ (mode'[q] = mode[q] /\ pc[q] \in Asking) => pc'[q] \in Asking
    BY <1>1, <2>1 DEF SweepInv, Engines, Walking, Asking
  <2> QED BY <1>1, <2>1, OnwardStays
<1> QED BY <1>1, <1>3, <1>4, TallyStays, RowsStay DEF Steps

\* A mode has its row: the walk climbs, or is over.
LEMMA MeasuredOnward ==
  ASSUME SweepInv, NEW s \in Stations, pc[s] = "awaitResult", NEW row, Measured(s, row),
         ids' = ids
  PROVE  Onward
<1> DEFINE failed == IF row.decoded = {} THEN failures[s] + 1 ELSE 0
           over == LadderEnds(s) \/ failed >= FailuresToStop
<1>1. /\ pc' = [pc EXCEPT ![s] = IF over THEN WalkEnds(s) ELSE "announce"]
      /\ mode' = [mode EXCEPT ![s] = IF over THEN 1 ELSE mode[s] + 1]
      /\ id' = id
  <2>1. mode' = [mode EXCEPT ![s] = IF over THEN 1 ELSE mode[s] + 1]
    BY DEF Measured, WalkOver, Control
  <2> QED BY <2>1 DEF Measured
<1> HIDE DEF over
<1>2. WalkEnds(s) \notin Walking BY DEF WalkEnds, Walking
<1>3. \A q \in Stations : pc'[q] \in Walking =>
        /\ pc[q] \in Walking /\ mode[q] <= mode'[q]
        /\ (mode'[q] = mode[q] /\ pc[q] \in Asking) => pc'[q] \in Asking
  <2>1. ASSUME NEW q \in Stations, pc'[q] \in Walking, q # s
        PROVE  pc'[q] = pc[q] /\ mode'[q] = mode[q] /\ mode[q] \in Int
    BY <1>1, <2>1 DEF SweepInv, Engines
  <2>2. ASSUME pc'[s] \in Walking
        PROVE  pc[s] \in Walking /\ mode'[s] = mode[s] + 1 /\ mode[s] \in Int
    <3>1. pc'[s] = IF over THEN WalkEnds(s) ELSE "announce" BY <1>1 DEF SweepInv, Engines
    <3>2. ~over BY <1>2, <2>2, <3>1
    <3> QED BY <1>1, <3>2 DEF SweepInv, Engines, Walking
  <2>3. ASSUME pc'[s] \in Walking PROVE mode[s] <= mode'[s] /\ mode'[s] # mode[s] BY <2>2, <2>3
  <2> QED BY <2>1, <2>2, <2>3
<1> QED BY <1>1, <1>3, OnwardStays

\* A try spent: the request again, or a row that says nothing came.
LEMMA AskAgainRows ==
  ASSUME SweepInv, NEW s \in Stations, pc[s] = "awaitResult", AskAgain(s), ids' = ids
  PROVE  /\ Onward
         /\ \A t \in Stations : \A row \in Rows(t)' : row \in Rows(t) \/ Told(t, row)
<1>1. CASE attempt[s] < ResultRetries
  <2>1. pc' = [pc EXCEPT ![s] = "ask"] /\ UNCHANGED <<id, mode, results>>
    BY <1>1 DEF AskAgain
  <2>2. ASSUME NEW q \in Stations, pc'[q] \in Walking
        PROVE  /\ pc[q] \in Walking /\ mode[q] <= mode'[q]
               /\ (mode'[q] = mode[q] /\ pc[q] \in Asking) => pc'[q] \in Asking
    BY <2>1, <2>2 DEF SweepInv, Engines, Walking, Asking
  <2> QED BY <2>1, <2>2, OnwardStays, RowsStay
<1>2. CASE ~(attempt[s] < ResultRetries)
  <2>0. PICK a \in BOOLEAN : a = FALSE OBVIOUS
  <2>1. PICK row : /\ row = Row("TX", id[s], mode[s], None, a)
                   /\ Measured(s, row)
    BY <1>2, <2>0 DEF AskAgain
  <2>2. /\ ids \in Nat /\ id[s] \in 0 .. ids /\ mode[s] \in 0 .. Modes /\ "TX" \in {"TX", "RX"}
    BY Numbers
  <2>3. None \in TallyOf(ids) BY NoneIsTally DEF SweepInv
  <2>4. row \in RowOf(ids) /\ row.sid = id[s] /\ row.mode = mode[s] BY <2>1, <2>2, <2>3, RowIs
  <2>5. row = Row("TX", row.sid, row.mode, None, a) BY <2>1, <2>4
  <2>6. Told(s, row) BY <2>0, <2>2, <2>3, <2>5 DEF Told
  <2>7. results' = [results EXCEPT ![s] = Append(@, row)] BY <2>1 DEF Measured
  <2> QED BY <2>1, <2>4, <2>6, <2>7, MeasuredOnward, RowsGrow
<1> QED BY <1>1, <1>2

LEMMA AskTimeoutSteps ==
  ASSUME SweepInv, Placed, NEW s \in Stations, AskTimeout(s) PROVE Steps
<1>1. /\ pc[s] = "awaitResult" /\ AskAgain(s)
      /\ UNCHANGED <<armed, held, frames, air, ids, heard>>
  BY DEF AskTimeout, receiver, book
<1> QED BY <1>1, AskAgainRows, QueuesStay, TallyStays DEF Steps

LEMMA HearResultSteps ==
  ASSUME SweepInv, Placed, NEW s \in Stations, HearResult(s) PROVE Steps
<1> DEFINE f == Head(frames[s])
<1>1. /\ pc[s] = "awaitResult" /\ frames[s] # << >> /\ f.type = "RESULT" /\ f.sid = id[s]
      /\ frames' = [frames EXCEPT ![s] = Tail(frames[s])]
      /\ \/ f.mode = mode[s] /\ Measured(s, Row("TX", id[s], mode[s], f.tally, TRUE))
         \/ AskAgain(s)
      /\ UNCHANGED <<armed, held, air, ids, heard>>
  BY DEF HearResult, IsResult, receiver, book
<1>2. f \in On(s) /\ \A t \in Stations : Moves(t) BY <1>1, HeadMoves
<1> HIDE DEF f
<1>3. /\ Onward
      /\ \A t \in Stations : \A row \in Rows(t)' : row \in Rows(t) \/ Told(t, row)
  <2>1. CASE AskAgain(s) BY <1>1, <2>1, AskAgainRows
  <2>2. CASE f.mode = mode[s] /\ Measured(s, Row("TX", id[s], mode[s], f.tally, TRUE))
    <3>0. PICK a \in BOOLEAN : a = TRUE OBVIOUS
    <3>5. PICK row : /\ row = Row("TX", id[s], mode[s], f.tally, a)
                     /\ Measured(s, row)
      BY <2>2, <3>0
    <3>1. f.tally \in TallyOf(ids) BY <1>1, <1>2, OnTypes
    <3>2. /\ ids \in Nat /\ id[s] \in 0 .. ids /\ mode[s] \in 0 .. Modes /\ "TX" \in {"TX", "RX"}
      BY Numbers
    <3>3. row \in RowOf(ids) /\ row.sid = id[s] /\ row.mode = mode[s] BY <3>1, <3>2, <3>5, RowIs
    <3>4. row = Row("TX", row.sid, row.mode, f.tally, a) BY <3>3, <3>5
    <3>8. results' = [results EXCEPT ![s] = Append(@, row)] BY <3>5 DEF Measured
    <3>6. Names(f, "RESULT", row.sid, row.mode) BY <1>1, <2>2, <3>3 DEF Names
    <3>7. Told(s, row) BY <1>2, <3>1, <3>2, <3>4, <3>6 DEF Told
    <3> QED BY <1>1, <3>3, <3>5, <3>7, <3>8, MeasuredOnward, RowsGrow
  <2> QED BY <1>1, <2>1, <2>2
<1> QED BY <1>1, <1>2, <1>3, TallyStays DEF Steps

LEMMA HearOtherSteps ==
  ASSUME SweepInv, Placed, NEW s \in Stations, HearOther(s) PROVE Steps
<1>1. /\ frames[s] # << >> /\ frames' = [frames EXCEPT ![s] = Tail(frames[s])]
      /\ UNCHANGED <<pc, id, mode, results, armed, held, air, ids, heard>>
  BY DEF HearOther, engine, receiver, book
<1>2. \A t \in Stations : Moves(t) BY <1>1, HeadMoves
<1>3. Onward BY <1>1, OnwardSame
<1> QED BY <1>1, <1>2, <1>3, TallyStays, RowsStay DEF Steps

----------------------------------------------------------------------------
(* The serve loop's actions *)

LEMMA ServeTimeoutSteps ==
  ASSUME SweepInv, Placed, NEW s \in Stations, ServeTimeout(s) PROVE Steps
<1>1. /\ pc[s] = "serve" /\ \E where \in {"done", "swap"} : pc' = [pc EXCEPT ![s] = where]
      /\ UNCHANGED <<id, mode, results, armed, held, frames, air, ids, heard>>
  BY DEF ServeTimeout, receiver, book
<1>2. Onward
  <2>1. \A q \in Stations : pc'[q] \in Walking => pc'[q] = pc[q]
    BY <1>1 DEF SweepInv, Engines, Walking
  <2> QED BY <1>1, <2>1, OnwardSame
<1> QED BY <1>1, <1>2, QueuesStay, TallyStays, RowsStay DEF Steps

LEMMA ServeOtherSteps ==
  ASSUME SweepInv, Placed, NEW s \in Stations, ServeDone(s) \/ ServeStale(s) PROVE Steps
<1>1. /\ frames[s] # << >> /\ frames' = [frames EXCEPT ![s] = Tail(frames[s])]
      /\ pc' = pc \/ pc' = [pc EXCEPT ![s] = "done"] \/ pc' = [pc EXCEPT ![s] = pc[s]]
      /\ UNCHANGED <<id, mode, results, armed, held, air, ids, heard>>
  BY DEF ServeDone, ServeStale, Serving, receiver, book
<1>2. \A t \in Stations : Moves(t) BY <1>1, HeadMoves
<1>3. Onward
  <2>1. \A q \in Stations : pc'[q] \in Walking => pc'[q] = pc[q]
    BY <1>1 DEF SweepInv, Engines, Walking
  <2> QED BY <1>1, <2>1, OnwardSame
<1> QED BY <1>1, <1>2, <1>3, TallyStays, RowsStay DEF Steps

LEMMA ServeAnnounceSteps ==
  ASSUME SweepInv, Placed, NEW s \in Stations, ServeAnnounce(s) PROVE Steps
<1>0. PICK f, r : f = Head(frames[s]) /\ r = Frame("READY", f.sid, f.mode) OBVIOUS
<1>1. /\ frames[s] # << >> /\ f.type = "ANNOUNCE"
      /\ frames' = [frames EXCEPT ![s] = Tail(frames[s])]
      /\ Arm(s, f.sid, f.mode) /\ TxControl(s, r)
      /\ UNCHANGED <<pc, id, mode, results, held, ids, heard>>
  BY <1>0 DEF ServeAnnounce, Serving, book
<1>2. air'[s] = << >> BY <1>1, KeyClears DEF TxControl
<1>3. f \in On(s) /\ Behind(s, f) BY <1>0, <1>1, <1>2, HeadMoves
<1>4. f.sid \in 0 .. ids /\ f.mode \in 0 .. Modes /\ ids \in Nat /\ Peer(Peer(s)) = s
  BY <1>3, OnTypes, Numbers, TwoStations
<1>5. r \in FrameOf(ids) BY <1>0, <1>4, ControlIs
<1>6. /\ armed'[s] = IF ArmedFor(s, f.sid, f.mode) /\ armed[s].decoded # {}
                     THEN armed[s] ELSE Fresh(f.sid, f.mode)
      /\ \A t \in Stations : t # s => armed'[t] = armed[t]
  BY <1>1 DEF Arm, ArmedFor, SweepInv, Tallies
<1>7. ArmedFor(s, f.sid, f.mode)' BY <1>6, FreshIs DEF ArmedFor
<1>8. NewOn(Peer(s), r)
  <2>1. Names(f, "ANNOUNCE", f.sid, f.mode) BY <1>1 DEF Names
  <2>2. r.type = "READY" /\ r.sid = f.sid /\ r.mode = f.mode BY <1>0 DEF Frame
  <2> QED BY <1>3, <1>4, <1>7, <2>1, <2>2 DEF NewOn
<1>9. \A t \in Stations : Moves(t) BY <1>1, <1>5, <1>8, ControlMoves
<1>10. Onward BY <1>1, OnwardSame
<1>11. Arms(s)
  <2>1. In(air[s])' = {} BY <1>2, EmptyQueue
  <2> QED BY <1>1, <1>3, <1>6, <2>1 DEF Arms
<1>12. \A t \in Stations : Tallied(t)
  <2>1. \A t \in Stations : t # s => Keeps(t) BY <1>1, <1>6 DEF Keeps
  <2> QED BY <1>11, <2>1 DEF Tallied
<1> QED BY <1>1, <1>9, <1>10, <1>12, RowsStay DEF Steps

\* A request: what is counted is kept, and told.
LEMMA ServeAskSteps ==
  ASSUME SweepInv, Placed, NEW s \in Stations, ServeAsk(s) PROVE Steps
<1>0. PICK f : f = Head(frames[s]) OBVIOUS
<1>1. /\ frames[s] # << >> /\ f.type = "ASK"
      /\ frames' = [frames EXCEPT ![s] = Tail(frames[s])]
      /\ UNCHANGED <<pc, id, mode, ids, heard>>
  BY <1>0 DEF ServeAsk, Serving, book
<1> DEFINE counting == ArmedFor(s, f.sid, f.mode)
<1>2. PICK tally : tally = IF counting THEN armed[s] ELSE held[s] OBVIOUS
<1>3. /\ IF counting THEN Disarm(s) ELSE UNCHANGED receiver
      /\ IF tally # None /\ tally.sid = f.sid /\ tally.mode = f.mode
         THEN /\ results' = [results EXCEPT ![s] =
                              IF Recorded(s, f) THEN @
                              ELSE Append(@, Row("RX", f.sid, f.mode, tally, TRUE))]
              /\ TxControl(s, [type |-> "RESULT", sid |-> f.sid, mode |-> f.mode,
                               fate |-> "whole", tally |-> tally])
         ELSE UNCHANGED <<results, air, faults>>
  BY <1>0, <1>2 DEF ServeAsk, ArmedFor
<1>4. air'[s] \in {air[s], << >>} BY <1>3, KeyClears DEF TxControl
<1>5. f \in On(s) /\ Behind(s, f) /\ Moves(s) BY <1>0, <1>1, <1>4, HeadMoves
<1>6. /\ f.sid \in 0 .. ids /\ f.mode \in 0 .. Modes /\ ids \in Nat /\ Peer(Peer(s)) = s
      /\ tally \in TallyOf(ids) /\ tally \in {armed[s], held[s]}
  BY <1>2, <1>5, OnTypes, Numbers, TwoStations
<1>7. IF counting THEN armed'[s] = None /\ held'[s] = armed[s]
                  ELSE armed'[s] = armed[s] /\ held'[s] = held[s]
  BY <1>3 DEF Disarm, receiver, SweepInv, Tallies
<1>8. \A t \in Stations : t # s => armed'[t] = armed[t] /\ held'[t] = held[t]
  BY <1>3 DEF Disarm, receiver, SweepInv, Tallies
<1>9. \A t \in Stations : Tallied(t)
  <2>1. \A t \in Stations : t # s => Keeps(t) BY <1>8 DEF Keeps
  <2>2. CASE counting
    <3>1. Drops(s) BY <1>1, <1>5, <1>7, <2>2 DEF Drops
    <3> QED BY <2>1, <3>1 DEF Tallied
  <2>3. CASE ~counting
    <3>1. Keeps(s) BY <1>7, <2>3 DEF Keeps
    <3> QED BY <2>1, <3>1 DEF Tallied
  <2> QED BY <2>2, <2>3
<1>10. Onward BY <1>1, OnwardSame
<1>11. CASE tally # None /\ tally.sid = f.sid /\ tally.mode = f.mode
  <2>1. Names(f, "ASK", f.sid, f.mode) BY <1>1 DEF Names
  <2>2. /\ ArmedFor(s, f.sid, f.mode) => tally = armed[s]
        /\ armed'[s] = None \/ (armed'[s] = armed[s] /\ ~ArmedFor(s, f.sid, f.mode))
    BY <1>2, <1>7
  <2>3. Tells(s, f.sid, f.mode, tally)
    BY <1>1, <1>5, <1>6, <1>11, <2>1, <2>2 DEF Tells
  <2>4. PICK r : r = [type |-> "RESULT", sid |-> f.sid, mode |-> f.mode, fate |-> "whole",
                       tally |-> tally]
    OBVIOUS
  <2>5. r.type = "RESULT" /\ r.sid = f.sid /\ r.mode = f.mode /\ r.tally = tally BY <2>4
  <2>6. r \in FrameOf(ids)
    <3>1. r \in ResultOf(ids) BY <1>6, <2>4 DEF ResultOf
    <3> QED BY <3>1 DEF FrameOf
  <2>7. NewOn(Peer(s), r) BY <1>6, <2>3, <2>5 DEF NewOn
  <2>8. TxControl(s, r) BY <1>3, <1>11, <2>4
  <2>9. \A t \in Stations : Moves(t) BY <1>1, <2>6, <2>7, <2>8, ControlMoves
  <2>10. PICK a \in BOOLEAN : a = TRUE OBVIOUS
  <2>11. PICK row : row = Row("RX", f.sid, f.mode, tally, a) OBVIOUS
  <2>12. row \in RowOf(ids) /\ row.sid = f.sid /\ row.mode = f.mode
    <3>1. "RX" \in {"TX", "RX"} OBVIOUS
    <3> QED BY <1>6, <2>11, <3>1, RowIs
  <2>13. Told(s, row)
    <3>1. row = Row("RX", row.sid, row.mode, tally, a) /\ Tells(s, row.sid, row.mode, tally)
      BY <2>3, <2>11, <2>12
    <3> QED BY <1>6, <3>1 DEF Told
  <2>14. \A t \in Stations : \A q \in Rows(t)' : q \in Rows(t) \/ Told(t, q)
    <3>1. CASE Recorded(s, f)
      <4>1. results' = results BY <1>3, <1>11, <3>1 DEF SweepInv, Drawn
      <4> QED BY <4>1, RowsStay
    <3>2. CASE ~Recorded(s, f)
      <4>1. results' = [results EXCEPT ![s] = Append(@, row)] BY <1>3, <1>11, <2>10, <2>11, <3>2
      <4> QED BY <2>12, <2>13, <4>1, RowsGrow
    <3> QED BY <3>1, <3>2
  <2> QED BY <1>1, <1>9, <1>10, <2>9, <2>14 DEF Steps
<1>12. CASE ~(tally # None /\ tally.sid = f.sid /\ tally.mode = f.mode)
  <2>1. results' = results /\ air' = air BY <1>3, <1>12
  <2>2. \A t \in Stations : Moves(t) BY <1>1, <1>5, <2>1, HeadMoves
  <2> QED BY <1>1, <1>9, <1>10, <2>1, <2>2, RowsStay DEF Steps
<1> QED BY <1>11, <1>12

\* A new walk draws an identifier of its own.
LEMMA BeginOnward ==
  ASSUME SweepInv, NEW s \in Stations, Begin(s) PROVE Onward
<1>1. /\ pc' = [pc EXCEPT ![s] = "announce"] /\ id' = [id EXCEPT ![s] = ids + 1]
      /\ ids' = ids + 1 /\ mode' = [mode EXCEPT ![s] = Control]
  BY DEF Begin
<1>2. /\ ids \in Nat /\ ids' \in Nat /\ ids <= ids' /\ \A q \in Stations : id[q] \in 0 .. ids
  BY <1>1 DEF SweepInv, Counters, Engines
<1>3. /\ id'[s] = ids + 1
      /\ \A q \in Stations : q # s => /\ id'[q] = id[q]
                                      /\ pc'[q] = pc[q]
                                      /\ mode'[q] = mode[q]
                                      /\ mode[q] \in Int
  BY <1>1 DEF SweepInv, Engines
<1>4. /\ Peer(s) \in Stations /\ Peer(s) # s /\ Peer(Peer(s)) = s
      /\ \A q \in Stations : q = s \/ q = Peer(s)
  BY TwoStations
<1>5. ASSUME NEW q \in Stations, q # s
      PROVE  /\ id[q] <= id'[q] /\ id'[q] = id[q]
             /\ pc'[q] = pc[q] /\ mode[q] <= mode'[q] /\ mode'[q] = mode[q]
  BY <1>2, <1>3, <1>5
<1>6. id[s] <= id'[s] /\ id'[s] > ids BY <1>2, <1>3
<1> QED BY <1>2, <1>4, <1>5, <1>6 DEF Onward

LEMMA ServeSwapSteps ==
  ASSUME SweepInv, Placed, NEW s \in Stations, ServeSwap(s) PROVE Steps
<1>0. PICK f : f = Head(frames[s]) OBVIOUS
<1>1. /\ frames[s] # << >> /\ frames' = [frames EXCEPT ![s] = Tail(frames[s])]
      /\ UNCHANGED <<results, armed, held, heard>>
  BY DEF ServeSwap, Serving, receiver
<1>2. CASE f.sid = lastSwap[s]
  <2>1. PICK r : r = Frame("DONE", f.sid, 0) OBVIOUS
  <2>2. TxControl(s, r) /\ UNCHANGED <<pc, id, ids, mode>> BY <1>0, <1>2, <2>1 DEF ServeSwap
  <2>3. air'[s] = << >> BY <2>2, KeyClears DEF TxControl
  <2>4. f \in On(s) BY <1>0, <1>1, <2>3, HeadMoves
  <2>5. f.sid \in 0 .. ids /\ ids \in Nat /\ 0 \in 0 .. Modes
    BY <2>4, OnTypes, Numbers, SweepAssumption
  <2>6. r \in FrameOf(ids) BY <2>1, <2>5, ControlIs
  <2>7. NewOn(Peer(s), r) BY <2>1 DEF NewOn, Frame
  <2>8. \A t \in Stations : Moves(t) BY <1>1, <2>2, <2>6, <2>7, ControlMoves
  <2>9. Onward BY <2>2, OnwardSame
  <2> QED BY <1>1, <2>8, <2>9, TallyStays, RowsStay DEF Steps
<1>3. CASE f.sid # lastSwap[s]
  <2>1. Begin(s) /\ air' = air BY <1>0, <1>3 DEF ServeSwap
  <2>2. Onward BY <2>1, BeginOnward
  <2>3. \A t \in Stations : Moves(t) BY <1>1, <2>1, HeadMoves
  <2> QED BY <1>1, <2>2, <2>3, TallyStays, RowsStay DEF Steps
<1> QED BY <1>2, <1>3

----------------------------------------------------------------------------
(* The receiver's actions, and the operator's *)

LEMMA ExpireSteps ==
  ASSUME SweepInv, Placed, NEW s \in Stations, Expire(s) PROVE Steps
<1>1. /\ frames[s] = << >> /\ Disarm(s)
      /\ UNCHANGED <<pc, id, mode, results, frames, air, ids, heard>>
  BY DEF Expire, WindowPassed, engine, book
<1>2. /\ armed'[s] = None /\ held'[s] = armed[s]
      /\ \A t \in Stations : t # s => armed'[t] = armed[t] /\ held'[t] = held[t]
  BY <1>1 DEF Disarm, SweepInv, Tallies
<1>3. \A f \in On(s)' : f \in In(air[s])
  <2>1. In(frames[s]) = {} BY <1>1, EmptyQueue
  <2>2. On(s)' = On(s) BY <1>1 DEF On, In
  <2> QED BY <2>1, <2>2 DEF On
<1>4. \A t \in Stations : Tallied(t)
  <2>1. Drops(s) BY <1>2, <1>3 DEF Drops
  <2>2. \A t \in Stations : t # s => Keeps(t) BY <1>2 DEF Keeps
  <2> QED BY <2>1, <2>2 DEF Tallied
<1>5. Onward BY <1>1, OnwardSame
<1> QED BY <1>1, <1>4, <1>5, QueuesStay, RowsStay DEF Steps

LEMMA ForgetSteps ==
  ASSUME SweepInv, Placed, NEW s \in Stations, Forget(s) PROVE Steps
<1>1. /\ held' = [held EXCEPT ![s] = None]
      /\ UNCHANGED <<pc, id, mode, results, armed, frames, air, ids, heard>>
  BY DEF Forget, engine, book
<1>2. \A t \in Stations : Tallied(t)
  <2>1. \A t \in Stations : held'[t] \in {held[t], None} BY <1>1 DEF SweepInv, Tallies
  <2> QED BY <1>1, <2>1 DEF Tallied, Keeps
<1>3. Onward BY <1>1, OnwardSame
<1> QED BY <1>1, <1>2, <1>3, QueuesStay, RowsStay DEF Steps

\* Nothing is left of the caller but what its station was sent.
LEMMA CleanSteps ==
  ASSUME SweepInv, Placed, Onward, Clean(Caller), heard' = heard PROVE Steps
<1>1. Caller \in Stations BY DEF Stations
<1>2. /\ frames'[Caller] = << >> /\ air'[Caller] = << >>
      /\ armed'[Caller] = None /\ held'[Caller] = None /\ results'[Caller] = << >>
      /\ \A t \in Stations : t # Caller =>
           /\ frames'[t] = frames[t] /\ air'[t] = air[t] /\ results'[t] = results[t]
           /\ armed'[t] = armed[t] /\ held'[t] = held[t]
  <2>1. /\ frames'[Caller] = << >> /\ air'[Caller] = << >>
        /\ \A t \in Stations : t # Caller => frames'[t] = frames[t] /\ air'[t] = air[t]
    BY <1>1 DEF Clean, SweepInv, Path
  <2>2. /\ armed'[Caller] = None /\ held'[Caller] = None
        /\ \A t \in Stations : t # Caller => armed'[t] = armed[t] /\ held'[t] = held[t]
    BY <1>1 DEF Clean, SweepInv, Tallies
  <2>3. /\ results'[Caller] = << >>
        /\ \A t \in Stations : t # Caller => results'[t] = results[t]
    BY <1>1 DEF Clean, SweepInv, Drawn
  <2> QED BY <2>1, <2>2, <2>3
<1>3. \A t \in Stations : Moves(t)
  <2>1. Moves(Caller) BY <1>1, <1>2, QueueLess
  <2>2. \A t \in Stations : t # Caller => Moves(t) BY <1>2, QueueLess
  <2> QED BY <2>1, <2>2
<1>4. \A t \in Stations : Tallied(t)
  <2>1. \A f \in On(Caller)' : FALSE BY <1>2, EmptyQueue DEF On, In
  <2>2. Drops(Caller) BY <1>2, <2>1 DEF Drops
  <2>3. \A t \in Stations : t # Caller => Keeps(t) BY <1>2 DEF Keeps
  <2> QED BY <2>2, <2>3 DEF Tallied
<1>5. \A t \in Stations : \A row \in Rows(t)' : row \in Rows(t) \/ Told(t, row)
  BY <1>2 DEF Rows
<1> QED BY <1>3, <1>4, <1>5 DEF Steps

LEMMA StartSteps == ASSUME SweepInv, Placed, Start PROVE Steps
<1>1. Begin(Caller) /\ Clean(Caller) /\ heard' = heard /\ Caller \in Stations
  BY DEF Start, Stations
<1>2. Onward BY <1>1, BeginOnward
<1> QED BY <1>1, <1>2, CleanSteps

LEMMA VanishSteps == ASSUME SweepInv, Placed, Vanish PROVE Steps
<1>1. /\ pc' = [pc EXCEPT ![Caller] = "off"] /\ Clean(Caller)
      /\ UNCHANGED <<id, mode, ids, heard>>
  BY DEF Vanish, book
<1>2. Onward
  <2>1. \A q \in Stations : pc'[q] \in Walking => pc'[q] = pc[q]
    BY <1>1 DEF SweepInv, Engines, Walking
  <2> QED BY <1>1, <2>1, OnwardSame
<1> QED BY <1>1, <1>2, CleanSteps

\* The next thing captured is decoded.
LEMMA DecodeMoves ==
  ASSUME SweepInv, Placed, NEW s \in Stations, Decode(s), NEW f, f = Head(air[s])
  PROVE  /\ \A t \in Stations : Moves(t)
         /\ f \in On(s)
         /\ f.type = "DATA" => /\ On(s)' \subseteq On(s)
                               /\ \A g \in On(s)' : g.type # "DATA" \/ Earlier(s, f, g)
                               /\ \A g \in In(air[s])' : Earlier(s, f, g)
<1> DEFINE F == FrameOf(ids)
<1>1. /\ air[s] # << >> /\ air' = [air EXCEPT ![s] = Tail(air[s])]
      /\ \/ frames' = frames
         \/ f.type # "DATA" /\ frames' = [frames EXCEPT ![s] = Append(frames[s], f)]
  BY DEF Decode
<1>2. frames \in [Stations -> Seq(F)] /\ air \in [Stations -> Seq(F)] BY DEF SweepInv, Path
<1> HIDE DEF F
<1>3. /\ air'[s] = Tail(air[s]) /\ frames[s] \in Seq(F) /\ air[s] \in Seq(F)
      /\ frames'[s] = frames[s] \/ (f.type # "DATA" /\ frames'[s] = Append(frames[s], f))
      /\ \A t \in Stations : t # s => frames'[t] = frames[t] /\ air'[t] = air[t]
  BY <1>1, <1>2
<1>4. /\ f \in F /\ f \in In(air[s]) /\ In(air'[s]) \subseteq In(air[s])
      /\ \A e, g : Pair(air'[s], e, g) => Pair(air[s], e, g)
      /\ \A g \in In(air'[s]) : Pair(air[s], f, g)
  BY <1>1, <1>3, TailQueue, QueueIn
<1>5. In(frames[s])' = In(frames'[s]) /\ In(air[s])' = In(air'[s]) OBVIOUS
<1>6. \A t \in Stations : t # s => Moves(t) BY <1>3, QueueLess
<1>7. CASE f.type # "DATA" /\ frames'[s] = Append(frames[s], f)
  <2>1. frames'[s] = Append(frames[s], f) BY <1>7
  <2>2. /\ In(frames'[s]) = In(frames[s]) \union {f}
        /\ \A e, g : Pair(frames'[s], e, g) =>
             Pair(frames[s], e, g) \/ (e \in In(frames[s]) /\ g = f)
    BY <1>3, <1>4, <2>1, AppendedQueue
  <2>3. \A g \in On(s)' : g \in On(s) BY <1>4, <1>5, <2>2 DEF On
  <2>4. \A g \in In(frames[s])' : g.type # "DATA" BY <1>5, <1>7, <2>2 DEF Placed
  <2>5. ASSUME NEW e, NEW g, Earlier(s, e, g)' PROVE Earlier(s, e, g)
    <3>1. CASE Pair(frames'[s], e, g) BY <1>4, <2>2, <3>1 DEF Earlier
    <3>2. CASE Pair(air'[s], e, g) BY <1>4, <3>2 DEF Earlier
    <3>3. CASE e \in In(frames'[s]) /\ g \in In(air'[s]) BY <1>4, <2>2, <3>3 DEF Earlier
    <3> QED BY <1>5, <2>5, <3>1, <3>2, <3>3 DEF Earlier
  <2>6. Moves(s) BY <1>4, <1>5, <2>3, <2>4, <2>5 DEF Moves
  <2> QED BY <1>4, <1>6, <1>7, <2>6 DEF On
<1>8. CASE frames'[s] = frames[s]
  <2>1. frames'[s] = frames[s] BY <1>8
  <2>2. \A g \in On(s)' : g \in On(s) BY <1>4, <1>5, <2>1 DEF On
  <2>3. \A g \in In(frames[s])' : g.type # "DATA" BY <1>5, <2>1 DEF Placed
  <2>4. ASSUME NEW e, NEW g, Earlier(s, e, g)' PROVE Earlier(s, e, g)
    BY <1>4, <1>5, <2>1, <2>4 DEF Earlier
  <2>5. Moves(s) BY <1>4, <1>5, <2>2, <2>3, <2>4 DEF Moves
  <2>6. \A g \in In(air[s])' : Earlier(s, f, g) BY <1>4, <1>5 DEF Earlier
  <2>7. \A g \in On(s)' : g.type # "DATA" \/ Earlier(s, f, g) BY <2>3, <2>6 DEF On
  <2> QED BY <1>4, <1>6, <2>2, <2>5, <2>6, <2>7 DEF On
<1> QED BY <1>3, <1>7, <1>8

LEMMA DecodeSteps ==
  ASSUME SweepInv, Placed, NEW s \in Stations, Decode(s) PROVE Steps
<1>1. PICK f : f = Head(air[s]) OBVIOUS
<1>2. /\ \A t \in Stations : Moves(t)
      /\ f \in On(s)
      /\ f.type = "DATA" => /\ On(s)' \subseteq On(s)
                            /\ \A g \in On(s)' : g.type # "DATA" \/ Earlier(s, f, g)
                            /\ \A g \in In(air[s])' : Earlier(s, f, g)
  BY <1>1, DecodeMoves
<1>3. UNCHANGED <<pc, id, mode, results, held, ids>> BY DEF Decode, engine
<1>4. Onward BY <1>3, OnwardSame
<1>5. /\ heard' = heard \/ \E u \in Stations : Counts(u)
      /\ \A t \in Stations : Tallied(t)
  <2>1. CASE armed' = armed /\ heard' = heard BY <1>3, <2>1, TallyStays
  <2>2. CASE ~(armed' = armed /\ heard' = heard)
    <3>1. \/ /\ f.type = "DATA" /\ f.fate = "whole" /\ Accepts(s, f)
             /\ armed' = [armed EXCEPT ![s].decoded = @ \union {f.seq}]
             /\ heard' = heard \union {<<f.sid, f.mode, f.seq>>}
          \/ /\ f.fate = "near" /\ armed[s].mode = KeyedAt(f)
             /\ armed' = [armed EXCEPT ![s].near = armed[s].near + 1]
             /\ heard' = heard
      <4>1. CASE f.fate = "near" /\ NoteNearMiss(s, f) /\ UNCHANGED heard
        <5>1. armed' # armed BY <2>2, <4>1
        <5>2. /\ armed[s].mode = KeyedAt(f)
              /\ armed' = [armed EXCEPT ![s].near = armed[s].near + 1]
          BY <4>1, <5>1, NotedIs
        <5> QED BY <4>1, <5>2
      <4>2. CASE ~(f.fate = "near" /\ NoteNearMiss(s, f) /\ UNCHANGED heard)
        BY <1>1, <2>2, <4>2 DEF Decode
      <4> QED BY <4>1, <4>2
    <3>2. f.type = "DATA" => Decodes(s, f) BY <1>2, <1>3 DEF Decodes
    <3>3. \A t \in Stations : t # s => Keeps(t)
      BY <1>3, <3>1 DEF Keeps, SweepInv, Tallies
    <3>4. armed \in [Stations -> TallyOf(ids)] BY DEF SweepInv, Tallies
    <3>5. CASE /\ f.type = "DATA" /\ f.fate = "whole" /\ Accepts(s, f)
               /\ armed' = [armed EXCEPT ![s].decoded = @ \union {f.seq}]
               /\ heard' = heard \union {<<f.sid, f.mode, f.seq>>}
      <4>1. armed'[s] = [armed[s] EXCEPT !.decoded = @ \union {f.seq}] BY <3>4, <3>5
      <4>2. Counts(s) BY <1>2, <3>2, <3>5, <4>1 DEF Counts, Accepts, ArmedFor
      <4> QED BY <3>3, <4>2 DEF Tallied
    <3>6. CASE /\ f.fate = "near" /\ armed[s].mode = KeyedAt(f)
               /\ armed' = [armed EXCEPT ![s].near = armed[s].near + 1]
               /\ heard' = heard
      <4>1. armed'[s] = [armed[s] EXCEPT !.near = @ + 1] BY <3>4, <3>6
      <4>2. CASE f.type = "DATA"
        <5>1. NearlyCounts(s) BY <1>2, <3>2, <3>6, <4>1, <4>2 DEF NearlyCounts, KeyedAt
        <5> QED BY <3>3, <3>6, <5>1 DEF Tallied
      <4>3. CASE f.type # "DATA"
        <5>1. held'[s] = held[s] BY <1>3
        <5>2. Strays(s) BY <3>6, <4>1, <4>3, <5>1 DEF Strays, KeyedAt
        <5> QED BY <3>3, <3>6, <5>2 DEF Tallied
      <4> QED BY <4>2, <4>3
    <3> QED BY <3>1, <3>5, <3>6
  <2> QED BY <2>1, <2>2
<1> QED BY <1>2, <1>3, <1>4, <1>5, RowsStay DEF Steps

LEMMA AllSteps == ASSUME SweepInv, Placed, Next PROVE Steps
<1>1. ASSUME NEW s \in Stations, Engine(s) PROVE Steps
  BY <1>1, AnnounceSteps, AnnounceTimeoutSteps, HearReadySteps, AskSteps, AskTimeoutSteps,
     HearResultSteps, HearOtherSteps, HandOverSteps, ServeTimeoutSteps, ServeAnnounceSteps,
     ServeAskSteps, ServeSwapSteps, ServeOtherSteps
  DEF Engine
<1> QED BY <1>1, DecodeSteps, ExpireSteps, ForgetSteps, StartSteps, VanishSteps DEF Next

LEMMA StillSteps == ASSUME SweepInv, Placed, UNCHANGED vars PROVE Steps
<1>1. UNCHANGED <<pc, id, mode, results, armed, held, frames, air, ids, heard>>
  BY DEF vars, engine, receiver, book
<1> QED BY <1>1, OnwardSame, QueuesStay, TallyStays, RowsStay DEF Steps

----------------------------------------------------------------------------
(* Reports *)

LEMMA ExactInit == Init => ExactInv
<1> SUFFICES ASSUME Init PROVE ExactInv OBVIOUS
<1>1. /\ \A s \in Stations : frames[s] = << >> /\ air[s] = << >> /\ results[s] = << >>
      /\ \A s \in Stations : armed[s] = None /\ held[s] = None /\ id[s] = 0
      /\ ids = 0 /\ heard = {}
  BY DEF Init
<1>2. \A s \in Stations : On(s) = {} /\ In(frames[s]) = {} /\ In(air[s]) = {} /\ Rows(s) = {}
  BY <1>1, EmptyQueue DEF On, Rows
<1>3. \A s \in Stations : ~Armed(s) /\ held[s].sid = 0 BY <1>1, NoneIs DEF Armed
<1>4. Placed BY <1>1, <1>2, <1>3 DEF Placed
<1>5. Owned BY <1>1, TwoStations DEF Owned
<1>6. Sorted /\ Answering /\ Counted
  BY <1>2, <1>3, TwoStations DEF Sorted, Answering, Counted
<1>7. Kept /\ Settled /\ CountsAddUp BY <1>2, <1>3 DEF Kept, Stale, Settled, CountsAddUp
<1>8. Room BY <1>1, <1>2, <1>3, EmptyWithin DEF Room, Fits
<1> QED BY <1>4, <1>5, <1>6, <1>7, <1>8 DEF ExactInv

LEMMA ExactInvHolds == Spec => []ExactInv
<1>1. SweepInv /\ SweepInv' /\ ExactInv /\ [Next]_vars => ExactInv'
  <2> SUFFICES ASSUME SweepInv, SweepInv', ExactInv, [Next]_vars PROVE ExactInv' OBVIOUS
  <2>1. Placed BY DEF ExactInv
  <2>2. Steps BY <2>1, AllSteps, StillSteps
  <2> QED BY <2>2, ExactKeeps
<1> QED BY <1>1, ExactInit, SweepInvHolds, PTL DEF Spec

\* Whatever is lost, repeated or given up, and whenever a tally is disarmed,
\* an answered row of either report names the very frames that the receiving
\* station has counted of that sweep and mode (arm, _serve_ask, _collect).
THEOREM AlwaysReportedAsHeard == Spec => []ReportedAsHeard
<1>1. ExactInv => ReportedAsHeard BY DEF ExactInv, Settled, Count, ReportedAsHeard
<1> QED BY <1>1, ExactInvHolds, PTL

\* At every mode above the control mode, the frames a row counts as decoded, near
\* and missed are the burst's, whatever control frames are damaged meanwhile: no
\* frame is counted twice, and no near miss is added to a tally that has counted
\* the whole burst (Tally, ModeResult, _note_near_miss).
THEOREM AlwaysCountsAddUp == Spec => []CountsAddUp
<1>1. ExactInv => CountsAddUp BY DEF ExactInv
<1> QED BY <1>1, ExactInvHolds, PTL
=============================================================================
