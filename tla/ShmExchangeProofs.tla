------------------------- MODULE ShmExchangeProofs -------------------------
(***************************************************************************)
(* Theorems about ShmExchange, for every number of blocks and launches.    *)
(***************************************************************************)
EXTENDS ShmExchange, FiniteSetTheorems, TLAPS

(* Each half of a block can be replaced on its own.                         *)
LEMMA PairExcept ==
    ASSUME NEW S, NEW d \in S \X S, NEW v \in S
    PROVE  /\ [d EXCEPT ![1] = v] = <<v, d[2]>>
           /\ [d EXCEPT ![2] = v] = <<d[1], v>>
           /\ <<v, d[2]>> \in S \X S
           /\ <<d[1], v>> \in S \X S
OBVIOUS

(* A step up in the launches is a step up in the blocks.                    *)
LEMMA BlocksMonotone ==
    ASSUME NEW m \in Nat, NEW n \in Nat, m <= n
    PROVE  /\ m * Blocks \in Nat /\ n * Blocks \in Nat
           /\ m * Blocks <= n * Blocks
           /\ (m + 1) * Blocks = m * Blocks + Blocks
BY BoundsAssumption

(* EXCEPT on one segment of the sequence.                                   *)
LEMMA SegExcept ==
    ASSUME NEW S, NEW s \in Seq(S), NEW i \in 1 .. Len(s), NEW e \in S
    PROVE  /\ [s EXCEPT ![i] = e] \in Seq(S)
           /\ Len([s EXCEPT ![i] = e]) = Len(s)
           /\ [s EXCEPT ![i] = e][i] = e
           /\ \A j \in 1 .. Len(s) : j # i => [s EXCEPT ![i] = e][j] = s[j]
OBVIOUS

Segments == [size : {ServerSize, ClientSize}, check : {0, 1}, data : BlockIds \X BlockIds]

(* What a store into one segment leaves alone.                              *)
LEMMA StoreCheck ==
    ASSUME NEW s \in Seq(Segments), NEW i \in 1 .. Len(s), NEW c \in {0, 1},
           NEW t, t = [s EXCEPT ![i].check = c]
    PROVE  /\ t \in Seq(Segments) /\ Len(t) = Len(s)
           /\ \A j \in 1 .. Len(s) : t[j].size = s[j].size /\ t[j].data = s[j].data
<1>1. s[i] \in Segments
  OBVIOUS
<1>2. [s[i] EXCEPT !.check = c] \in Segments
  BY <1>1 DEF Segments
<1>3. t = [s EXCEPT ![i] = [s[i] EXCEPT !.check = c]]
  OBVIOUS
<1>4. t \in Seq(Segments) /\ Len(t) = Len(s)
  BY <1>2, <1>3, SegExcept
<1>5. ASSUME NEW j \in 1 .. Len(s) PROVE t[j].size = s[j].size /\ t[j].data = s[j].data
  <2>1. CASE j = i
    BY <1>1, <1>2, <1>3, <2>1, SegExcept DEF Segments
  <2>2. CASE j # i
    BY <1>2, <1>3, <2>2, SegExcept
  <2> QED BY <2>1, <2>2
<1> QED BY <1>4, <1>5

WithHalf(s, i, h, v) == [s EXCEPT ![i].data[h] = v]

OnlyHalf(s, i, h, v, t) ==
    /\ t \in Seq(Segments) /\ Len(t) = Len(s)
    /\ \A j \in 1 .. Len(s) : t[j].size = s[j].size
    /\ t[i].data[h] = v
    /\ \A j \in 1 .. Len(s), g \in {1, 2} :
          j # i \/ g # h => t[j].data[g] = s[j].data[g]

LEMMA StoreHalf ==
    ASSUME NEW s \in Seq(Segments), NEW i \in 1 .. Len(s), NEW h \in {1, 2}, NEW v \in BlockIds,
           NEW t, t = WithHalf(s, i, h, v)
    PROVE  OnlyHalf(s, i, h, v, t)
<1> DEFINE d == [s[i].data EXCEPT ![h] = v]
           e == [s[i] EXCEPT !.data = d]
<1>1. s[i] \in Segments /\ s[i].data \in BlockIds \X BlockIds
  <2>1. s[i] \in Segments
    OBVIOUS
  <2> QED BY <2>1 DEF Segments
<1>2. /\ d \in BlockIds \X BlockIds
      /\ \A g \in {1, 2} : d[g] = IF g = h THEN v ELSE s[i].data[g]
  BY <1>1, PairExcept
<1>3. e \in Segments /\ e.size = s[i].size /\ e.data = d
  BY <1>1, <1>2 DEF Segments
<1>4. t = [s EXCEPT ![i] = e]
  BY DEF WithHalf
<1> HIDE DEF d, e
<1>5. /\ t \in Seq(Segments) /\ Len(t) = Len(s) /\ t[i] = e
      /\ \A j \in 1 .. Len(s) : j # i => t[j] = s[j]
  BY <1>3, <1>4, SegExcept
<1>6. \A j \in 1 .. Len(s) : t[j].size = s[j].size
  BY <1>3, <1>5
<1>7. t[i].data[h] = v
  BY <1>2, <1>3, <1>5
<1>8. ASSUME NEW j \in 1 .. Len(s), NEW g \in {1, 2}, j # i \/ g # h
      PROVE  t[j].data[g] = s[j].data[g]
  <2>1. CASE j = i
    BY <1>2, <1>3, <1>5, <1>8, <2>1
  <2>2. CASE j # i
    BY <1>5, <2>2
  <2> QED BY <2>1, <2>2
<1> QED BY <1>5, <1>6, <1>7, <1>8 DEF OnlyHalf

(* A new segment is zeroed.                                                 *)
LEMMA NewSegment ==
    ASSUME NEW s \in Seq(Segments), NEW z \in {ServerSize, ClientSize},
           NEW t, t = Append(s, [size |-> z, check |-> 0, data |-> <<0, 0>>])
    PROVE  /\ t \in Seq(Segments) /\ Len(t) = Len(s) + 1
           /\ t[Len(t)].size = z
           /\ \A g \in {1, 2} : t[Len(t)].data[g] = 0
           /\ \A j \in 1 .. Len(s) : t[j] = s[j]
<1>1. 0 \in BlockIds
  BY BoundsAssumption, BlocksMonotone DEF BlockIds
<1> DEFINE e == [size |-> z, check |-> 0, data |-> <<0, 0>>]
<1>2. e \in Segments /\ e.size = z /\ \A g \in {1, 2} : e.data[g] = 0
  BY <1>1 DEF Segments
<1> HIDE DEF e
<1>3. t \in Seq(Segments) /\ Len(t) = Len(s) + 1 /\ t[Len(t)] = e /\ \A j \in 1 .. Len(s) : t[j] = s[j]
  BY <1>2 DEF e
<1> QED BY <1>2, <1>3

-----------------------------------------------------------------------------

(* What every step below starts from.                                       *)
LEMMA Facts ==
    ASSUME TypeOK
    PROVE  /\ segs \in Seq(Segments)
           /\ Len(segs) \in Nat
           /\ LastBlock \in Nat /\ MaxClients * Blocks \in Nat
           /\ LastBlock <= MaxClients * Blocks
           /\ BlockIds = 0 .. MaxClients * Blocks
           /\ \A i \in 1 .. Len(segs) :
                 /\ segs[i] \in Segments
                 /\ segs[i].size \in {ServerSize, ClientSize}
                 /\ \A h \in {1, 2} : segs[i].data[h] \in BlockIds
           /\ \A i \in 1 .. Len(out) : \A h \in {1, 2} : out[i][h] \in BlockIds
<1>1. segs \in Seq(Segments)
  BY DEF TypeOK, Segments
<1>2. LastBlock \in Nat /\ MaxClients * Blocks \in Nat /\ LastBlock <= MaxClients * Blocks
  BY BlocksMonotone, BoundsAssumption DEF TypeOK, LastBlock
<1>3. ASSUME NEW i \in 1 .. Len(segs)
      PROVE  /\ segs[i] \in Segments
             /\ segs[i].size \in {ServerSize, ClientSize}
             /\ \A h \in {1, 2} : segs[i].data[h] \in BlockIds
  <2>1. segs[i] \in Segments
    BY <1>1
  <2> QED BY <2>1 DEF Segments
<1>4. ASSUME NEW i \in 1 .. Len(out) PROVE \A h \in {1, 2} : out[i][h] \in BlockIds
  <2>1. out[i] \in BlockIds \X BlockIds
    BY DEF TypeOK
  <2> QED BY <2>1
<1> QED BY <1>1, <1>2, <1>3, <1>4 DEF BlockIds

(* shmget gives a segment that is there; a new one is zeroed and of the     *)
(* size asked for.                                                          *)
LEMMA ShmGetGives ==
    ASSUME TypeOK, NEW z \in {ServerSize, ClientSize}, ShmGet(z)
    PROVE  /\ segs' \in Seq(Segments) /\ Len(segs') >= Len(segs) /\ Len(segs') \in Nat
           /\ key' \in 1 .. Len(segs') /\ segs'[key'].size >= z
           /\ \A i \in 1 .. Len(segs) : segs'[i] = segs[i]
           /\ \A i \in 1 .. Len(segs'), h \in {1, 2} :
                 i \notin 1 .. Len(segs) => segs'[i].data[h] = 0
<1>1. CASE key = 0
  <2>1. segs' = Append(segs, [size |-> z, check |-> 0, data |-> <<0, 0>>]) /\ key' = Len(segs) + 1
    BY <1>1 DEF ShmGet
  <2>2. segs \in Seq(Segments) /\ Len(segs) \in Nat
    BY Facts
  <2>3. /\ segs' \in Seq(Segments) /\ Len(segs') = Len(segs) + 1
        /\ segs'[Len(segs')].size = z
        /\ \A h \in {1, 2} : segs'[Len(segs')].data[h] = 0
        /\ \A i \in 1 .. Len(segs) : segs'[i] = segs[i]
    BY <2>1, <2>2, NewSegment
  <2>4. z \in Nat
    BY DEF ServerSize, ClientSize
  <2> QED BY <2>1, <2>2, <2>3, <2>4
<1>2. CASE key # 0
  BY <1>2, Facts DEF ShmGet, Fits, TypeOK
<1> QED BY <1>1, <1>2

LEMMA FlowInit == Init => FlowOK
<1> SUFFICES ASSUME Init PROVE FlowOK
  OBVIOUS
<1>1. clients * Blocks = 0 /\ MaxClients * Blocks \in Nat
  BY BoundsAssumption, BlocksMonotone DEF Init
<1>2. TypeOK
  BY <1>1, BoundsAssumption DEF Init, TypeOK, BlockIds
<1> QED BY <1>1, <1>2 DEF Init, FlowOK, BlocksBehind, CopiedBehind, ServerFits, InOrder, LastBlock

LEMMA ClientStartStep == FlowOK /\ ClientStart => FlowOK'
<1> SUFFICES ASSUME FlowOK, ClientStart PROVE FlowOK'
  OBVIOUS
<1>1. TypeOK
  BY DEF FlowOK
<1>2. /\ segs' \in Seq(Segments) /\ Len(segs') >= Len(segs) /\ Len(segs') \in Nat
      /\ key' \in 1 .. Len(segs')
      /\ \A i \in 1 .. Len(segs) : segs'[i] = segs[i]
      /\ \A i \in 1 .. Len(segs'), h \in {1, 2} :
            i \notin 1 .. Len(segs) => segs'[i].data[h] = 0
  BY <1>1, ShmGetGives DEF ClientStart
<1>3. clients \in Nat /\ clients + 1 <= MaxClients /\ clients' = clients + 1
  BY <1>1, BoundsAssumption DEF ClientStart, TypeOK
<1>4. /\ LastBlock' = LastBlock + Blocks /\ LastBlock' <= MaxClients * Blocks
      /\ next' = LastBlock + 1 /\ LastBlock' \in Nat
  BY <1>3, BlocksMonotone, BoundsAssumption DEF LastBlock, ClientStart
<1>5. TypeOK'
  <2>1. next' \in BlockIds \cup {MaxClients * Blocks + 1}
    BY <1>1, <1>4, Facts, BoundsAssumption
  <2>2. cseg' \in 0 .. Len(segs') /\ (cpc' # "off" => cseg' # 0) /\ cpc' = "set"
    BY <1>2 DEF ClientStart
  <2>3. sseg' \in 0 .. Len(segs')
    BY <1>1, <1>2 DEF ClientStart, serverVars, TypeOK
  <2> QED BY <1>1, <1>2, <1>3, <2>1, <2>2, <2>3, BoundsAssumption
         DEF TypeOK, Segments, ClientStart, serverVars
<1>6. BlocksBehind'
  <2>1. \A i \in 1 .. Len(segs), h \in {1, 2} : segs[i].data[h] <= LastBlock /\ segs[i].data[h] \in Nat
    BY <1>1, Facts DEF FlowOK, BlocksBehind
  <2>2. \A i \in 1 .. Len(segs'), h \in {1, 2} : segs'[i].data[h] <= LastBlock
    BY <1>1, <1>2, <2>1, Facts
  <2>3. \A i \in 1 .. Len(segs'), h \in {1, 2} : segs'[i].data[h] \in Nat
    BY <1>1, <1>2, <2>1, Facts
  <2> QED BY <1>1, <1>4, <2>2, <2>3, Facts, BoundsAssumption DEF BlocksBehind
<1>7. sseg' = sseg /\ (sseg # 0 => segs'[sseg] = segs[sseg])
  BY <1>1, <1>2 DEF ClientStart, serverVars, TypeOK
<1>8. CopiedBehind' /\ ServerFits' /\ InOrder'
  BY <1>1, <1>7 DEF FlowOK, CopiedBehind, ServerFits, InOrder, ClientStart, serverVars, TypeOK
<1> QED BY <1>5, <1>6, <1>8 DEF FlowOK

(* A store of the flag.                                                     *)
LEMMA CheckStep ==
    ASSUME FlowOK, NEW i \in 1 .. Len(segs), NEW c \in {0, 1},
           segs' = [segs EXCEPT ![i].check = c],
           UNCHANGED <<key, cseg, clients, next, sseg, servers, half, out>>,
           cpc' = cpc \/ (cpc # "off" /\ cpc' = "poll"),
           spc' = spc \/ (spc # "off" /\ spc' \in {"poll", "remove"}),
           posted' \subseteq BlockIds
    PROVE  FlowOK'
<1>1. TypeOK
  BY DEF FlowOK
<1>2. /\ segs' \in Seq(Segments) /\ Len(segs') = Len(segs)
      /\ \A j \in 1 .. Len(segs) : segs'[j].size = segs[j].size /\ segs'[j].data = segs[j].data
  <2>1. segs \in Seq(Segments)
    BY <1>1, Facts
  <2> QED BY <2>1, StoreCheck
<1>3. TypeOK'
  BY <1>1, <1>2 DEF TypeOK, Segments
<1>4. BlocksBehind'
  BY <1>2 DEF FlowOK, BlocksBehind, LastBlock
<1>5. CopiedBehind' /\ ServerFits' /\ InOrder'
  BY <1>1, <1>2 DEF FlowOK, CopiedBehind, ServerFits, InOrder, TypeOK
<1> QED BY <1>3, <1>4, <1>5 DEF FlowOK

(* A fill of one half: fread gives nothing older than what is there.        *)
LEMMA FillStep ==
    ASSUME FlowOK, cpc \in {"fill1", "fill2"}, NEW h \in {1, 2},
           segs' = [segs EXCEPT ![cseg].data[h] = Fread(h)],
           UNCHANGED <<key, cseg, clients, serverVars, posted>>,
           cpc' \in {"fill2", "post"},
           next' = next \/ (next <= LastBlock /\ next' = next + 1)
    PROVE  FlowOK'
<1>1. TypeOK /\ cseg \in 1 .. Len(segs)
  BY DEF FlowOK, TypeOK
<1>2. LastBlock' = LastBlock /\ LastBlock \in Nat /\ LastBlock <= MaxClients * Blocks
  BY <1>1, Facts DEF LastBlock
<1>3. /\ next \in 1 .. LastBlock + 1
      /\ \A i \in 1 .. Len(segs), g \in {1, 2} :
            segs[i].data[g] \in Nat /\ segs[i].data[g] <= next /\ segs[i].data[g] <= LastBlock
  BY <1>1, Facts DEF FlowOK, BlocksBehind
<1>4. /\ Fread(h) \in BlockIds /\ Fread(h) <= next /\ Fread(h) <= LastBlock
      /\ segs[cseg].data[h] <= Fread(h)
  <2>1. CASE next > LastBlock
    BY <1>1, <1>3, <2>1, Facts DEF Fread
  <2>2. CASE ~(next > LastBlock)
    BY <1>1, <1>2, <1>3, <2>2, Facts DEF Fread
  <2> QED BY <2>1, <2>2
<1>5. /\ segs' \in Seq(Segments) /\ Len(segs') = Len(segs)
      /\ \A j \in 1 .. Len(segs) : segs'[j].size = segs[j].size
      /\ segs'[cseg].data[h] = Fread(h)
      /\ \A j \in 1 .. Len(segs), g \in {1, 2} :
            j # cseg \/ g # h => segs'[j].data[g] = segs[j].data[g]
  <2>1. segs \in Seq(Segments)
    BY <1>1, Facts
  <2>2. PICK v \in BlockIds : v = Fread(h)
    BY <1>4
  <2>3. segs' = WithHalf(segs, cseg, h, v)
    BY <2>2 DEF WithHalf
  <2>4. OnlyHalf(segs, cseg, h, v, segs')
    BY <1>1, <2>1, <2>3, StoreHalf
  <2> QED BY <2>2, <2>4 DEF OnlyHalf
<1>6. next' \in 1 .. LastBlock + 1 /\ next <= next'
  BY <1>2, <1>3
<1>7. TypeOK'
  <2>1. next' \in BlockIds \cup {MaxClients * Blocks + 1}
    BY <1>1, <1>2, <1>6, Facts
  <2> QED BY <1>1, <1>5, <2>1 DEF TypeOK, Segments, serverVars
<1>8. \A j \in 1 .. Len(segs), g \in {1, 2} :
         segs[j].data[g] <= segs'[j].data[g] /\ segs'[j].data[g] \in BlockIds
  BY <1>1, <1>3, <1>4, <1>5, Facts
<1>9. BlocksBehind'
  BY <1>1, <1>2, <1>3, <1>4, <1>5, <1>6, <1>8, Facts DEF BlocksBehind
<1>10. CopiedBehind'
  <2>1. sseg \in 0 .. Len(segs) /\ half \in BlockIds /\ (spc = "copy2" => sseg # 0)
    BY <1>1 DEF TypeOK
  <2>2. ASSUME sseg # 0, out # <<>>
        PROVE  \A g \in {1, 2} : out[Len(out)][g] <= segs'[sseg].data[g]
    <3>1. \A g \in {1, 2} : out[Len(out)][g] <= segs[sseg].data[g]
      BY <2>2 DEF FlowOK, CopiedBehind
    <3>2. Len(out) \in 1 .. Len(out)
      BY <1>1, <2>2 DEF TypeOK
    <3>3. \A g \in {1, 2} : out[Len(out)][g] \in BlockIds
      BY <1>1, <3>2, Facts
    <3> QED BY <1>1, <1>3, <1>8, <2>1, <2>2, <3>1, <3>3, Facts
  <2>3. ASSUME spc = "copy2" PROVE half <= segs'[sseg].data[1]
    BY <1>1, <1>3, <1>8, <2>1, <2>3, Facts DEF FlowOK, CopiedBehind
  <2> QED BY <2>2, <2>3 DEF FlowOK, CopiedBehind, serverVars
<1>11. ServerFits' /\ InOrder'
  BY <1>1, <1>5 DEF FlowOK, ServerFits, InOrder, serverVars, TypeOK
<1> QED BY <1>7, <1>9, <1>10, <1>11 DEF FlowOK

LEMMA ClientStep == FlowOK /\ (Client \/ ClientKilled) => FlowOK'
<1> SUFFICES ASSUME FlowOK, Client \/ ClientKilled PROVE FlowOK'
  OBVIOUS
<1>1. TypeOK /\ (cpc # "off" => cseg \in 1 .. Len(segs))
  BY DEF FlowOK, TypeOK
<1>2. CASE ClientSet
  BY <1>1, <1>2, CheckStep DEF ClientSet, serverVars, TypeOK
<1>3. CASE ClientPoll
  BY <1>1, <1>3 DEF ClientPoll, FlowOK, TypeOK, BlocksBehind, CopiedBehind, ServerFits, InOrder, LastBlock, serverVars
<1>4. CASE ClientFill1
  BY <1>1, <1>4, FillStep DEF ClientFill1
<1>5. CASE ClientFill2
  <2>1. next' = next \/ (next <= LastBlock /\ next' = next + 1)
    BY <1>1, <1>5, Facts DEF ClientFill2, FlowOK, BlocksBehind
  <2> QED BY <1>1, <1>5, <2>1, FillStep DEF ClientFill2
<1>6. CASE ClientPost
  <2>1. next - 1 \in BlockIds
    BY <1>1, Facts DEF FlowOK, BlocksBehind
  <2>2. posted' \subseteq BlockIds
    BY <1>1, <1>6, <2>1 DEF ClientPost, TypeOK
  <2> QED BY <1>1, <1>6, <2>2, CheckStep DEF ClientPost, PostedFlag, serverVars
<1>7. CASE ClientKilled
  BY <1>1, <1>7 DEF ClientKilled, FlowOK, TypeOK, BlocksBehind, CopiedBehind, ServerFits, InOrder, LastBlock, serverVars
<1> QED BY <1>2, <1>3, <1>4, <1>5, <1>6, <1>7 DEF Client

LEMMA ServerStartStep == FlowOK /\ ServerStart => FlowOK'
<1> SUFFICES ASSUME FlowOK, ServerStart PROVE FlowOK'
  OBVIOUS
<1>1. TypeOK
  BY DEF FlowOK
<1>2. /\ segs' \in Seq(Segments) /\ Len(segs') >= Len(segs) /\ Len(segs') \in Nat
      /\ key' \in 1 .. Len(segs') /\ segs'[key'].size >= ServerSize
      /\ \A i \in 1 .. Len(segs) : segs'[i] = segs[i]
      /\ \A i \in 1 .. Len(segs'), h \in {1, 2} :
            i \notin 1 .. Len(segs) => segs'[i].data[h] = 0
  BY <1>1, ShmGetGives DEF ServerStart
<1>3. segs'[key'].size = ServerSize
  <2>1. segs'[key'] \in Segments
    BY <1>2
  <2> QED BY <1>2, <2>1 DEF Segments, ServerSize, ClientSize
<1>4. TypeOK'
  BY <1>1, <1>2, BoundsAssumption DEF TypeOK, Segments, ServerStart, clientVars
<1>5. BlocksBehind'
  <2>1. \A i \in 1 .. Len(segs), h \in {1, 2} :
           segs[i].data[h] <= LastBlock /\ segs[i].data[h] <= next
    BY DEF FlowOK, BlocksBehind
  <2>2. 0 <= next /\ 0 <= LastBlock
    BY <1>1, Facts DEF FlowOK, BlocksBehind
  <2> QED BY <1>1, <1>2, <2>1, <2>2, Facts
         DEF FlowOK, BlocksBehind, LastBlock, ServerStart, clientVars
<1>6. CopiedBehind' /\ ServerFits' /\ InOrder'
  BY <1>3 DEF CopiedBehind, ServerFits, InOrder, ServerStart
<1> QED BY <1>4, <1>5, <1>6 DEF FlowOK

LEMMA ServerCopy2Step == FlowOK /\ ServerCopy2 => FlowOK'
<1> SUFFICES ASSUME FlowOK, ServerCopy2 PROVE FlowOK'
  OBVIOUS
<1>1. TypeOK /\ sseg \in 1 .. Len(segs) /\ Len(out) < MaxOut /\ half \in BlockIds
  BY DEF FlowOK, TypeOK, ServerFits, ServerCopy2
<1>2. BlocksBehind'
  BY DEF FlowOK, BlocksBehind, LastBlock, ServerCopy2, clientVars
<1>3. 0 \in BlockIds /\ segs[sseg].data[1] \in BlockIds /\ segs[sseg].data[2] \in BlockIds
  BY <1>1, Facts
<1>4. CASE UNCHANGED out /\ spc' = "lastack"
  BY <1>1, <1>2, <1>3, <1>4
     DEF FlowOK, TypeOK, CopiedBehind, ServerFits, InOrder, ServerCopy2, clientVars
<1>5. CASE out' = Append(out, <<half, segs[sseg].data[2]>>) /\ spc' = "ack"
  <2> DEFINE block == <<half, segs[sseg].data[2]>>
  <2>1. /\ out \in Seq(BlockIds \X BlockIds) /\ block \in BlockIds \X BlockIds
        /\ block[1] = half /\ block[2] = segs[sseg].data[2]
    BY <1>1, <1>3 DEF TypeOK
  <2> HIDE DEF block
  <2>2. /\ out' \in Seq(BlockIds \X BlockIds) /\ Len(out') = Len(out) + 1 /\ Len(out) \in Nat
        /\ out'[Len(out')] = block /\ \A i \in 1 .. Len(out) : out'[i] = out[i]
    BY <1>5, <2>1 DEF block
  <2>3. Len(out') <= MaxOut
    BY <1>1, <2>2, BoundsAssumption
  <2>4. TypeOK'
    BY <1>1, <1>3, <1>5, <2>2, <2>3 DEF TypeOK, ServerCopy2, clientVars
  <2>5. half <= segs[sseg].data[1] /\ (out # <<>> => \A h \in {1, 2} : out[Len(out)][h] <= block[h])
    BY <1>1, <2>1 DEF FlowOK, CopiedBehind, ServerCopy2
  <2>6. \A h \in {1, 2} : block[h] <= segs[sseg].data[h]
    BY <1>3, <2>1, <2>5, Facts, <1>1
  <2>7. CopiedBehind'
    BY <1>5, <2>2, <2>6 DEF CopiedBehind, ServerCopy2
  <2>8. InOrder'
    <3>1. SUFFICES ASSUME NEW i \in 1 .. Len(out), NEW h \in {1, 2}
                   PROVE  out'[i][h] <= out'[i + 1][h]
      BY <2>2 DEF InOrder
    <3>2. CASE i = Len(out)
      BY <2>1, <2>2, <2>5, <3>2
    <3>3. CASE i # Len(out)
      BY <2>2, <3>3 DEF FlowOK, InOrder
    <3> QED BY <3>2, <3>3
  <2>9. ServerFits'
    BY <1>5 DEF FlowOK, ServerFits, ServerCopy2
  <2> QED BY <1>2, <2>4, <2>7, <2>8, <2>9 DEF FlowOK
<1> QED BY <1>4, <1>5 DEF ServerCopy2

LEMMA ServerStep == FlowOK /\ (Server \/ ServerStartFails \/ ServerKilled) => FlowOK'
<1> SUFFICES ASSUME FlowOK, Server \/ ServerStartFails \/ ServerKilled PROVE FlowOK'
  OBVIOUS
<1>1. TypeOK /\ (spc # "off" => sseg \in 1 .. Len(segs))
  BY DEF FlowOK, TypeOK
<1>2. CASE ServerPoll
  BY <1>1, <1>2 DEF ServerPoll, FlowOK, TypeOK, BlocksBehind, CopiedBehind, ServerFits, InOrder, LastBlock, clientVars
<1>3. CASE ServerCopy1
  <2>1. sseg \in 1 .. Len(segs) /\ segs[sseg].data[1] \in BlockIds
    BY <1>1, <1>3, Facts DEF ServerCopy1
  <2>2. TypeOK' /\ BlocksBehind'
    BY <1>1, <1>3, <2>1 DEF ServerCopy1, FlowOK, TypeOK, BlocksBehind, LastBlock, clientVars
  <2>3. CopiedBehind'
    BY <1>3, <2>1, Facts, <1>1 DEF ServerCopy1, FlowOK, CopiedBehind
  <2>4. ServerFits' /\ InOrder'
    BY <1>3 DEF ServerCopy1, FlowOK, ServerFits, InOrder
  <2> QED BY <2>2, <2>3, <2>4 DEF FlowOK
<1>4. CASE ServerCopy2
  BY <1>4, ServerCopy2Step
<1>5. CASE ServerAck
  <2>1. sseg \in 1 .. Len(segs) /\ 1 \in {0, 1} /\ posted' \subseteq BlockIds
    BY <1>1, <1>5 DEF ServerAck, TypeOK
  <2>2. /\ segs' = [segs EXCEPT ![sseg].check = 1]
        /\ UNCHANGED <<key, cseg, clients, next, sseg, servers, half, out>>
        /\ cpc' = cpc /\ spc # "off" /\ spc' \in {"poll", "remove"}
    BY <1>5 DEF ServerAck, clientVars
  <2> QED BY <2>1, <2>2, CheckStep
<1>6. CASE ServerRemove
  BY <1>1, <1>6 DEF ServerRemove, FlowOK, TypeOK, BlocksBehind, CopiedBehind, ServerFits, InOrder, LastBlock, clientVars
<1>7. CASE ServerStartFails
  BY <1>1, <1>7, BoundsAssumption
     DEF ServerStartFails, FlowOK, TypeOK, BlocksBehind, CopiedBehind, ServerFits, InOrder, LastBlock, clientVars
<1>8. CASE ServerKilled
  <2>1. 0 \in BlockIds
    BY <1>1, Facts
  <2>2. TypeOK'
    BY <1>1, <1>8, <2>1 DEF ServerKilled, TypeOK, clientVars
  <2> QED BY <1>8, <2>2
         DEF ServerKilled, FlowOK, BlocksBehind, CopiedBehind, ServerFits, InOrder, LastBlock, clientVars
<1> QED BY <1>2, <1>3, <1>4, <1>5, <1>6, <1>7, <1>8 DEF Server

-----------------------------------------------------------------------------

(* A fill leaves the flags alone.                                           *)
LEMMA StoreHalfFlags ==
    ASSUME NEW s \in Seq(Segments), NEW i \in 1 .. Len(s), NEW h \in {1, 2}, NEW v \in BlockIds,
           NEW t, t = WithHalf(s, i, h, v)
    PROVE  \A j \in 1 .. Len(s) : t[j].check = s[j].check
<1> DEFINE d == [s[i].data EXCEPT ![h] = v]
           e == [s[i] EXCEPT !.data = d]
<1>1. s[i] \in Segments /\ s[i].data \in BlockIds \X BlockIds
  <2>1. s[i] \in Segments
    OBVIOUS
  <2> QED BY <2>1 DEF Segments
<1>2. e \in Segments /\ e.check = s[i].check
  <2>1. d \in BlockIds \X BlockIds
    BY <1>1, PairExcept
  <2> HIDE DEF d
  <2> QED BY <1>1, <2>1 DEF Segments
<1>3. t = [s EXCEPT ![i] = e]
  BY DEF WithHalf
<1> HIDE DEF e
<1> QED BY <1>2, <1>3, SegExcept

(* The memory after a fill of one half.                                     *)
FillGives(h) ==
    /\ Fread(h) \in BlockIds
    /\ Len(segs') = Len(segs)
    /\ segs'[cseg].data[h] = Fread(h)
    /\ \A j \in 1 .. Len(segs), g \in {1, 2} :
          j # cseg \/ g # h => segs'[j].data[g] = segs[j].data[g]
    /\ \A j \in 1 .. Len(segs) : segs'[j].check = segs[j].check

LEMMA FillEffect ==
    ASSUME FlowOK, cseg \in 1 .. Len(segs), NEW h \in {1, 2},
           segs' = [segs EXCEPT ![cseg].data[h] = Fread(h)]
    PROVE  FillGives(h)
<1>1. TypeOK
  BY DEF FlowOK
<1>2. /\ next \in 1 .. LastBlock + 1 /\ LastBlock \in Nat
      /\ segs \in Seq(Segments)
      /\ segs[cseg].data[h] \in BlockIds /\ LastBlock <= MaxClients * Blocks
      /\ BlockIds = 0 .. MaxClients * Blocks
  BY <1>1, Facts DEF FlowOK, BlocksBehind
<1>3. Fread(h) \in BlockIds
  <2>1. CASE next > LastBlock
    BY <1>2, <2>1 DEF Fread
  <2>2. CASE ~(next > LastBlock)
    BY <1>2, <2>2, BoundsAssumption, BlocksMonotone DEF Fread
  <2> QED BY <2>1, <2>2
<1>4. PICK v \in BlockIds : v = Fread(h)
  BY <1>3
<1>5. segs' = WithHalf(segs, cseg, h, v)
  BY <1>4 DEF WithHalf
<1>6. OnlyHalf(segs, cseg, h, v, segs')
  BY <1>2, <1>5, StoreHalf
<1>7. \A j \in 1 .. Len(segs) : segs'[j].check = segs[j].check
  BY <1>2, <1>5, StoreHalfFlags
<1> QED BY <1>3, <1>4, <1>6, <1>7 DEF OnlyHalf, FillGives

LEMMA FlowStep == FlowOK /\ [Next]_vars => FlowOK'
<1>1. FlowOK /\ UNCHANGED vars => FlowOK'
  BY DEF FlowOK, TypeOK, BlocksBehind, CopiedBehind, ServerFits, InOrder, LastBlock,
         vars, clientVars, serverVars
<1> QED BY <1>1, ClientStartStep, ClientStep, ServerStartStep, ServerStep DEF Next

(* The parts behind the two halves.                                         *)
LEMMA RestKept ==
    ASSUME RestOK, UNCHANGED <<rests, out, outRests>>, Len(segs') = Len(segs),
           \A i \in 1 .. Len(segs) : segs'[i].data[2] = segs[i].data[2]
    PROVE  RestOK'
BY DEF RestOK, EndOfFile

LEMMA RestInit == Init => RestOK
BY DEF Init, RestOK

(* A new segment is zeroed to its end.                                      *)
LEMMA RestShmGet ==
    ASSUME FlowOK, RestOK, NEW z \in {ServerSize, ClientSize}, ShmGet(z)
    PROVE  /\ rests' \in Seq(BlockIds) /\ Len(rests') = Len(segs')
           /\ \A i \in 1 .. Len(segs') : rests'[i] = segs'[i].data[2] \/ EndOfFile(segs'[i].data[2])
<1>1. CASE key # 0
  BY <1>1 DEF ShmGet, RestOK
<1>2. CASE key = 0
  <2>1. segs \in Seq(Segments) /\ Len(segs) \in Nat /\ 0 \in BlockIds
    BY Facts DEF FlowOK
  <2>2. segs' = Append(segs, [size |-> z, check |-> 0, data |-> <<0, 0>>]) /\ rests' = Append(rests, 0)
    BY <1>2 DEF ShmGet
  <2>3. /\ Len(segs') = Len(segs) + 1 /\ segs'[Len(segs')].data[2] = 0
        /\ \A i \in 1 .. Len(segs) : segs'[i] = segs[i]
    BY <2>1, <2>2, NewSegment
  <2>4. /\ rests \in Seq(BlockIds) /\ Len(rests) = Len(segs)
        /\ \A i \in 1 .. Len(segs) : rests[i] = segs[i].data[2] \/ EndOfFile(segs[i].data[2])
    BY DEF RestOK
  <2>5. /\ rests' \in Seq(BlockIds) /\ Len(rests') = Len(segs) + 1 /\ rests'[Len(segs) + 1] = 0
        /\ \A i \in 1 .. Len(segs) : rests'[i] = rests[i]
    BY <2>1, <2>2, <2>4
  <2>6. ASSUME NEW i \in 1 .. Len(segs') PROVE rests'[i] = segs'[i].data[2] \/ EndOfFile(segs'[i].data[2])
    <3>1. CASE i \in 1 .. Len(segs)
      BY <2>3, <2>4, <2>5, <3>1
    <3>2. CASE i = Len(segs) + 1
      BY <2>3, <2>5, <3>2
    <3> QED BY <2>1, <2>3, <3>1, <3>2
  <2> QED BY <2>3, <2>5, <2>6
<1> QED BY <1>1, <1>2

(* A fill to its end leaves a rest only behind a short last block.          *)
LEMMA RestFill2 == FlowOK /\ RestOK /\ ClientFill2 => RestOK'
<1> SUFFICES ASSUME FlowOK, RestOK, ClientFill2 PROVE RestOK'
  OBVIOUS
<1>1. TypeOK /\ cseg \in 1 .. Len(segs)
  BY DEF FlowOK, TypeOK, ClientFill2
<1>2. FillGives(2)
  BY <1>1, FillEffect DEF ClientFill2
<1>3. rests \in Seq(BlockIds) /\ Len(rests) = Len(segs) /\ Len(segs) \in Nat
  BY <1>1, Facts DEF RestOK
<1>4. rests[cseg] \in BlockIds /\ FreadRest \in BlockIds
  BY <1>1, <1>2, <1>3 DEF FillGives, Fread, FreadRest
<1>5. /\ rests' \in Seq(BlockIds) /\ Len(rests') = Len(rests) /\ rests'[cseg] = FreadRest
      /\ \A i \in 1 .. Len(segs) : i # cseg => rests'[i] = rests[i]
  BY <1>1, <1>3, <1>4 DEF ClientFill2
<1>6. rests'[cseg] = segs'[cseg].data[2] \/ EndOfFile(segs'[cseg].data[2])
  <2>1. CASE next > LastBlock
    BY <1>1, <1>2, <1>5, <2>1 DEF FillGives, Fread, FreadRest, RestOK
  <2>2. CASE ~(next > LastBlock) /\ Short /\ next = LastBlock
    <3>1. clients \in 1 .. MaxClients
      <4>1. clients # 0
        <5>1. clients = 0 => LastBlock = 0
          BY BoundsAssumption DEF LastBlock
        <5> QED BY <1>1, <2>2, <5>1 DEF FlowOK, BlocksBehind
      <4> QED BY <1>1, <4>1, BoundsAssumption DEF TypeOK
    <3> QED BY <1>2, <2>2, <3>1 DEF FillGives, Fread, EndOfFile, LastBlock
  <2>3. CASE ~(next > LastBlock) /\ ~(Short /\ next = LastBlock)
    BY <1>2, <1>5, <2>3 DEF FillGives, Fread, FreadRest
  <2> QED BY <2>1, <2>2, <2>3
<1>7. \A i \in 1 .. Len(segs') : rests'[i] = segs'[i].data[2] \/ EndOfFile(segs'[i].data[2])
  BY <1>1, <1>2, <1>3, <1>5, <1>6 DEF FillGives, RestOK
<1>8. UNCHANGED <<out, outRests>>
  BY DEF ClientFill2, serverVars
<1> QED BY <1>2, <1>3, <1>5, <1>7, <1>8 DEF FillGives, RestOK, EndOfFile

LEMMA RestCopy2 == FlowOK /\ RestOK /\ ServerCopy2 => RestOK'
<1> SUFFICES ASSUME FlowOK, RestOK, ServerCopy2 PROVE RestOK'
  OBVIOUS
<1>1. TypeOK /\ sseg \in 1 .. Len(segs) /\ half \in BlockIds
  BY DEF FlowOK, TypeOK, ServerCopy2
<1>2. UNCHANGED <<segs, rests>>
  BY DEF ServerCopy2
<1>3. CASE UNCHANGED <<out, outRests>>
  BY <1>2, <1>3, RestKept
<1>4. CASE /\ out' = Append(out, <<half, segs[sseg].data[2]>>)
           /\ outRests' = Append(outRests, rests[sseg])
  <2> DEFINE block == <<half, segs[sseg].data[2]>>
  <2>1. /\ out \in Seq(BlockIds \X BlockIds) /\ block \in BlockIds \X BlockIds
        /\ block[2] = segs[sseg].data[2]
    BY <1>1, Facts DEF TypeOK
  <2> HIDE DEF block
  <2>2. /\ Len(out') = Len(out) + 1 /\ Len(out) \in Nat /\ out'[Len(out) + 1] = block
        /\ \A i \in 1 .. Len(out) : out'[i] = out[i]
    BY <1>4, <2>1 DEF block
  <2>3. /\ outRests \in Seq(BlockIds) /\ Len(outRests) = Len(out) /\ rests[sseg] \in BlockIds
    BY <1>1 DEF RestOK
  <2>4. /\ outRests' \in Seq(BlockIds) /\ Len(outRests') = Len(out) + 1
        /\ outRests'[Len(out) + 1] = rests[sseg]
        /\ \A i \in 1 .. Len(out) : outRests'[i] = outRests[i]
    BY <1>4, <2>3
  <2>5. ASSUME NEW i \in 1 .. Len(out') PROVE outRests'[i] = out'[i][2] \/ EndOfFile(out'[i][2])
    <3>1. CASE i \in 1 .. Len(out)
      BY <2>2, <2>4, <3>1 DEF RestOK
    <3>2. CASE i = Len(out) + 1
      BY <1>1, <2>1, <2>2, <2>4, <3>2 DEF RestOK
    <3> QED BY <2>2, <3>1, <3>2
  <2> QED BY <1>2, <2>2, <2>4, <2>5 DEF RestOK, EndOfFile
<1> QED BY <1>3, <1>4 DEF ServerCopy2

LEMMA RestStep == FlowOK /\ RestOK /\ [Next]_vars => RestOK'
<1> SUFFICES ASSUME FlowOK, RestOK, [Next]_vars PROVE RestOK'
  OBVIOUS
<1>1. TypeOK /\ segs \in Seq(Segments)
  BY Facts DEF FlowOK
<1>2. CASE ClientStart
  BY <1>2, RestShmGet DEF ClientStart, serverVars, RestOK, EndOfFile
<1>3. CASE ServerStart
  <2>1. out' = <<>> /\ outRests' = <<>>
    BY <1>3 DEF ServerStart
  <2>2. /\ rests' \in Seq(BlockIds) /\ Len(rests') = Len(segs')
        /\ \A i \in 1 .. Len(segs') : rests'[i] = segs'[i].data[2] \/ EndOfFile(segs'[i].data[2])
    BY <1>3, RestShmGet DEF ServerStart
  <2> QED BY <2>1, <2>2 DEF RestOK, EndOfFile
<1>4. CASE ClientFill2
  BY <1>4, RestFill2
<1>5. CASE ServerCopy2
  BY <1>5, RestCopy2
<1>6. CASE ClientFill1
  <2>1. cseg \in 1 .. Len(segs)
    BY <1>1, <1>6 DEF ClientFill1, TypeOK
  <2>2. FillGives(1)
    BY <1>6, <2>1, FillEffect DEF ClientFill1
  <2>3. UNCHANGED <<rests, out, outRests>>
    BY <1>6 DEF ClientFill1, serverVars
  <2> QED BY <2>2, <2>3, RestKept DEF FillGives
<1>7. CASE ClientSet \/ ClientPost \/ ServerAck
  <2>1. UNCHANGED <<rests, out, outRests>>
    BY <1>7 DEF ClientSet, ClientPost, ServerAck, serverVars
  <2>2. \E i \in 1 .. Len(segs), c \in {0, 1} : segs' = [segs EXCEPT ![i].check = c]
    BY <1>1, <1>7 DEF ClientSet, ClientPost, ServerAck, PostedFlag, TypeOK
  <2>3. Len(segs') = Len(segs) /\ \A j \in 1 .. Len(segs) : segs'[j].data = segs[j].data
    BY <1>1, <2>2, StoreCheck
  <2> QED BY <2>1, <2>3, RestKept
<1>8. CASE UNCHANGED <<segs, rests, out, outRests>>
  BY <1>8, RestKept
<1>9. ASSUME \/ ClientPoll \/ ClientKilled \/ ServerPoll \/ ServerCopy1 \/ ServerRemove
             \/ ServerStartFails \/ ServerKilled \/ UNCHANGED vars
      PROVE  UNCHANGED <<segs, rests, out, outRests>>
  BY <1>9 DEF ClientPoll, ClientKilled, ServerPoll, ServerCopy1, ServerRemove, ServerStartFails,
              ServerKilled, vars, clientVars, serverVars
<1> QED BY <1>2, <1>3, <1>4, <1>5, <1>6, <1>7, <1>8, <1>9 DEF Next, Client, Server

(* Types, what lies behind what, and what is behind a short last block, in  *)
(* every reachable state, however often either program is killed and        *)
(* launched again.                                                          *)
THEOREM ExchangeConsistent == Spec => []Inductive
<1>1. Init => Inductive
  BY FlowInit, RestInit DEF Inductive
<1>2. Inductive /\ [Next]_vars => Inductive'
  BY FlowStep, RestStep DEF Inductive
<1> QED BY <1>1, <1>2, PTL DEF Spec

LEMMA FlowHolds == Spec => []FlowOK
<1>1. Inductive => FlowOK
  BY DEF Inductive
<1> QED BY <1>1, ExchangeConsistent, PTL

(* The server's file never goes back.                                       *)
THEOREM FileInOrder == Spec => []InOrder
<1>1. FlowOK => InOrder
  BY DEF FlowOK
<1> QED BY <1>1, FlowHolds, PTL

(* A segment the client made keeps its key for ever, and no server attaches *)
(* to it.                                                                   *)
THEOREM LockedOut == Spec => ClientFirstLocksOut
<1>1. FlowOK /\ [Next]_vars =>
         [key # 0 /\ segs[key].size = ClientSize => key' = key /\ sseg' \in {sseg, 0}]_vars
  <2> SUFFICES ASSUME FlowOK, Next, key # 0, segs[key].size = ClientSize
               PROVE  key' = key /\ sseg' \in {sseg, 0}
    BY DEF vars
  <2>1. CASE Client \/ ClientKilled
    BY <2>1 DEF Client, ClientSet, ClientPoll, ClientFill1, ClientFill2, ClientPost, ClientKilled, serverVars
  <2>2. CASE ClientStart
    BY <2>2 DEF ClientStart, ShmGet, serverVars
  <2>3. CASE ServerStart
    BY <2>3 DEF ServerStart, ShmGet, Fits, ServerSize, ClientSize
  <2>4. CASE ServerRemove
    BY <2>4 DEF ServerRemove, FlowOK, ServerFits, ServerSize, ClientSize
  <2>5. CASE ServerPoll \/ ServerCopy1 \/ ServerCopy2 \/ ServerAck \/ ServerStartFails \/ ServerKilled
    BY <2>5 DEF ServerPoll, ServerCopy1, ServerCopy2, ServerAck, ServerStartFails, ServerKilled
  <2> QED BY <2>1, <2>2, <2>3, <2>4, <2>5 DEF Next, Server
<1> QED BY <1>1, FlowHolds, PTL DEF Spec, ClientFirstLocksOut

-----------------------------------------------------------------------------
(* How many blocks of the server's file can be torn, and how many can be    *)
(* lost, for every number of blocks and launches.  The flag keeps fill and  *)
(* copy apart, except for the store before a client's loop, and each launch *)
(* has one such store: Torn and Losing count it as long as it is to come,   *)
(* and then what it exposes.                                                *)

(* What makes TornBound so: the client fills only while the flag is 1, and  *)
(* what is there while it is 0 is whole; so a copy is exposed only when a   *)
(* store of 1 has come after its start, and each launch has one such store. *)
Whole(i) == segs[i].data[1] = segs[i].data[2]

FlagKeepsWhole ==
    /\ cpc \in {"fill1", "fill2", "post"} => segs[cseg].check = 1
    /\ cpc = "fill2" => next > LastBlock \/ segs[cseg].data[1] = next
    /\ cpc = "post" \/ (cpc # "off" /\ next > LastBlock) => Whole(cseg)
    /\ \A i \in 1 .. Len(segs) : segs[i].check = 0 => Whole(i)

(* The blocks whose halves differ: RestOK says that these are all.           *)
Halved == {i \in 1 .. Len(out) : out[i][1] # out[i][2]}

Exposed ==
    \/ spc \in {"copy1", "copy2"} /\ segs[sseg].check = 1
    \/ spc = "copy2" /\ half # segs[sseg].data[1]

TornCredit ==
    Cardinality(Halved) + (IF cpc = "set" THEN 1 ELSE 0) + (IF Exposed THEN 1 ELSE 0) <= clients

(* What makes LostBound so.  MemoryIs: what the client's segment holds, and *)
(* that its next block is in no segment before it fills it.  NotPassed:     *)
(* what is in memory is as late as all of the server's file, or in it.      *)
MemoryIs ==
    /\ cpc # "off" => \A i \in 1 .. Len(segs), h \in {1, 2} :
          segs[i].data[h] < next \/ (cpc = "fill2" /\ i = cseg /\ h = 1)
    /\ cpc = "post" => \A h \in {1, 2} : segs[cseg].data[h] = next - 1
    /\ cpc # "off" /\ next > LastBlock => \A h \in {1, 2} : segs[cseg].data[h] = LastBlock

InFile(b) == \E i \in 1 .. Len(out) : b \in {out[i][1], out[i][2]}

NotPassed ==
    /\ sseg # 0 => \A i \in 1 .. Len(out), h \in {1, 2} : out[i][h] <= segs[sseg].data[h]
    /\ sseg # 0 => \/ InFile(segs[sseg].data[2])
                  \/ \A i \in 1 .. Len(out) : out[i][1] <= segs[sseg].data[2]
    /\ spc = "copy2" => \A i \in 1 .. Len(out) : out[i][1] <= half
    /\ spc \in {"copy1", "copy2"} /\ cpc = "fill2" /\ cseg = sseg /\ next <= LastBlock =>
          ~InFile(next)

(* The block being filled for the server; what of it and of the posted ones *)
(* the file lacks; and the blocks the server is about to read, of which one *)
(* that the file lacks is not lost.                                         *)
Coming ==
    IF cseg = sseg /\ cpc \in {"fill1", "fill2", "post"}
    THEN {IF cpc = "post" \/ next > LastBlock THEN next - 1 ELSE next}
    ELSE {}

Unread == {b \in posted \cup Coming : ~InFile(b)}

Due ==
    CASE spc = "copy1" -> {segs[sseg].data[1], segs[sseg].data[2]}
      [] spc = "copy2" -> {half, segs[sseg].data[2]}
      [] spc = "poll" /\ segs[sseg].check = 0 -> {segs[sseg].data[1]}
      [] spc = "poll" /\ segs[sseg].check = 1 -> Coming \ posted
      [] OTHER -> {}

Expected == Due \cap Unread # {}

(* The client may fill while the server copies or has yet to acknowledge.   *)
Overtaking ==
    cpc = "poll" /\ cseg = sseg /\ segs[sseg].check = 1 /\ spc \in {"copy1", "copy2", "ack"}

LossCredit ==
    spc \in {"poll", "copy1", "copy2", "ack"} =>
        Cardinality(Unread) + (IF cpc = "set" THEN 1 ELSE 0) + (IF Overtaking THEN 1 ELSE 0)
            <= clients + (IF Expected THEN 1 ELSE 0)

(* A server that has left its loop adds nothing to its file.                *)
ServerEnds == spc \in {"lastack", "remove", "off"} => LostBound

Losing == MemoryIs /\ NotPassed /\ LossCredit /\ ServerEnds

Torn == FlagKeepsWhole /\ TornCredit

(* The flags after a store of one of them.                                  *)
LEMMA StoreCheckFlags ==
    ASSUME NEW s \in Seq(Segments), NEW i \in 1 .. Len(s), NEW c \in {0, 1},
           NEW t, t = [s EXCEPT ![i].check = c]
    PROVE  \A j \in 1 .. Len(s) : t[j].check = IF j = i THEN c ELSE s[j].check
<1>1. s[i] \in Segments
  OBVIOUS
<1>2. [s[i] EXCEPT !.check = c] \in Segments /\ [s[i] EXCEPT !.check = c].check = c
  BY <1>1 DEF Segments
<1>3. t = [s EXCEPT ![i] = [s[i] EXCEPT !.check = c]]
  OBVIOUS
<1> QED BY <1>2, <1>3, SegExcept

LEMMA CountTorn ==
    ASSUME TypeOK
    PROVE  IsFiniteSet(Halved) /\ Cardinality(Halved) \in Nat
<1>1. IsFiniteSet(1 .. Len(out))
  BY FS_Interval DEF TypeOK
<1>2. Halved \subseteq 1 .. Len(out)
  BY DEF Halved
<1> QED BY <1>1, <1>2, FS_Subset, FS_CardinalityType

(* A block more in the file is at most one torn block more.                 *)
LEMMA AppendTorn ==
    ASSUME TypeOK, NEW a \in BlockIds, NEW b \in BlockIds, out' = Append(out, <<a, b>>)
    PROVE  /\ Cardinality(Halved') \in Nat
           /\ Cardinality(Halved') <= Cardinality(Halved) + 1
           /\ a = b => Halved' = Halved
<1> DEFINE block == <<a, b>>
<1>1. /\ out \in Seq(BlockIds \X BlockIds) /\ block \in BlockIds \X BlockIds
      /\ block[1] = a /\ block[2] = b
  BY DEF TypeOK
<1> HIDE DEF block
<1>2. /\ Len(out') = Len(out) + 1 /\ Len(out) \in Nat /\ out'[Len(out) + 1] = block
      /\ \A i \in 1 .. Len(out) : out'[i] = out[i]
  BY <1>1 DEF block
<1>3. Halved' = Halved \cup (IF a = b THEN {} ELSE {Len(out) + 1})
  BY <1>1, <1>2 DEF Halved
<1>4. CASE a = b
  BY <1>3, <1>4, CountTorn
<1>5. CASE a # b
  <2>1. Halved' = Halved \cup {Len(out) + 1}
    BY <1>3, <1>5
  <2>2. /\ IsFiniteSet(Halved) /\ Cardinality(Halved) \in Nat
    BY CountTorn
  <2>3. Cardinality(Halved \cup {Len(out) + 1}) \in {Cardinality(Halved), Cardinality(Halved) + 1}
    BY <2>2, FS_AddElement
  <2> QED BY <1>5, <2>1, <2>2, <2>3
<1> QED BY <1>4, <1>5

-----------------------------------------------------------------------------

(* The credit after a step: what is counted does not grow.                  *)
Owed == (IF cpc = "set" THEN 1 ELSE 0) + (IF Exposed THEN 1 ELSE 0)

LEMMA SameFile ==
    ASSUME TypeOK, TornCredit, UNCHANGED <<out, clients>>, Owed' <= Owed
    PROVE  TornCredit'
<1>1. Owed \in {0, 1, 2} /\ Owed' \in {0, 1, 2}
  BY DEF Owed
<1>2. Halved' = Halved /\ clients' = clients
  BY DEF Halved
<1>3. Cardinality(Halved) + Owed <= clients
  BY CountTorn DEF TornCredit, Owed
<1>4. clients \in Nat
  BY DEF TypeOK
<1>5. Cardinality(Halved') + Owed' <= clients'
  BY <1>1, <1>2, <1>3, <1>4, CountTorn
<1> QED BY <1>5, <1>1, <1>2, CountTorn DEF TornCredit, Owed

LEMMA TornInit == Init => Torn
<1> SUFFICES ASSUME Init PROVE Torn
  OBVIOUS
<1>1. Halved = {} /\ ~Exposed
  BY DEF Init, Halved, Exposed
<1>2. Cardinality({}) = 0
  BY FS_EmptySet
<1> QED BY <1>1, <1>2 DEF Init, Torn, FlagKeepsWhole, TornCredit

-----------------------------------------------------------------------------
(* The client                                                               *)

(* The client's store of 0: the block it has filled is whole.                *)
LEMMA FlagAfterPost ==
    ASSUME TypeOK, FlagKeepsWhole, cseg \in 1 .. Len(segs), Whole(cseg),
           segs' = [segs EXCEPT ![cseg].check = 0], cpc' = "poll",
           UNCHANGED <<cseg, clients, next>>, cpc = "post"
    PROVE  /\ FlagKeepsWhole'
           /\ Len(segs') = Len(segs)
           /\ \A j \in 1 .. Len(segs) : /\ segs'[j].data = segs[j].data
                                        /\ segs'[j].check = IF j = cseg THEN 0 ELSE segs[j].check
<1>1. segs \in Seq(Segments)
  BY Facts
<1>2. /\ Len(segs') = Len(segs)
      /\ \A j \in 1 .. Len(segs) : segs'[j].data = segs[j].data
  BY <1>1, StoreCheck
<1>3. \A j \in 1 .. Len(segs) : segs'[j].check = IF j = cseg THEN 0 ELSE segs[j].check
  BY <1>1, StoreCheckFlags
<1>4. \A j \in 1 .. Len(segs) : Whole(j)' <=> Whole(j)
  BY <1>2 DEF Whole
<1>5. cpc # "off" => cseg \in 1 .. Len(segs)
  BY DEF TypeOK
<1> QED BY <1>2, <1>3, <1>4, <1>5 DEF FlagKeepsWhole, LastBlock, TypeOK

(* The store of 1, the client's before its loop or the server's.             *)
LEMMA FlagAfterOne ==
    ASSUME TypeOK, FlagKeepsWhole, NEW i \in 1 .. Len(segs),
           segs' = [segs EXCEPT ![i].check = 1],
           UNCHANGED <<cseg, clients, next>>,
           cpc' = cpc \/ (cpc \notin {"fill1", "fill2", "off"} /\ cpc' = "poll")
    PROVE  FlagKeepsWhole'
<1>1. segs \in Seq(Segments)
  BY Facts
<1>2. segs[i] \in Segments
  BY <1>1
<1> DEFINE e == [segs[i] EXCEPT !.check = 1]
<1>3. e \in Segments /\ e.check = 1 /\ e.data = segs[i].data
  BY <1>2 DEF Segments
<1>4. segs' = [segs EXCEPT ![i] = e]
  OBVIOUS
<1> HIDE DEF e
<1>5. /\ Len(segs') = Len(segs)
      /\ \A j \in 1 .. Len(segs) : /\ segs'[j].check = IF j = i THEN 1 ELSE segs[j].check
                                   /\ segs'[j].data = segs[j].data
  BY <1>1, <1>3, <1>4, SegExcept
<1>6. \A j \in 1 .. Len(segs) : Whole(j)' <=> Whole(j)
  BY <1>5 DEF Whole
<1>7. cpc # "off" => cseg \in 1 .. Len(segs)
  BY DEF TypeOK
<1> QED BY <1>5, <1>6, <1>7 DEF FlagKeepsWhole, LastBlock, TypeOK

LEMMA ClientFillTorn ==
    ASSUME FlowOK, Torn, cpc \in {"fill1", "fill2"}, NEW h \in {1, 2},
           segs' = [segs EXCEPT ![cseg].data[h] = Fread(h)],
           UNCHANGED <<cseg, clients, serverVars>>,
           \/ h = 1 /\ cpc = "fill1" /\ cpc' = "fill2" /\ next' = next
           \/ /\ h = 2 /\ cpc = "fill2" /\ cpc' = "post"
              /\ next' = IF next > LastBlock THEN next ELSE next + 1
    PROVE  Torn'
<1>1. TypeOK /\ cseg \in 1 .. Len(segs) /\ segs[cseg].check = 1
  BY DEF FlowOK, TypeOK, Torn, FlagKeepsWhole
<1>2. /\ next \in 1 .. LastBlock + 1 /\ LastBlock \in Nat
      /\ segs \in Seq(Segments)
      /\ segs[cseg].data[h] \in BlockIds /\ LastBlock <= MaxClients * Blocks
      /\ BlockIds = 0 .. MaxClients * Blocks
  BY <1>1, Facts DEF FlowOK, BlocksBehind
<1>4. FillGives(h)
  BY <1>1, FillEffect
<1>5. \A j \in 1 .. Len(segs) : j # cseg => (Whole(j)' <=> Whole(j))
  BY <1>4 DEF Whole, FillGives
<1>6. LastBlock' = LastBlock
  BY DEF LastBlock
<1>7. FlagKeepsWhole'
  <2>1. CASE next > LastBlock
    <3>1. Whole(cseg) /\ Fread(h) = segs[cseg].data[h]
      BY <1>1, <2>1 DEF Torn, FlagKeepsWhole, Fread
    <3>2. Whole(cseg)'
      BY <1>1, <1>4, <3>1 DEF Whole, FillGives
    <3> QED BY <1>1, <1>4, <1>5, <1>6, <2>1, <3>2 DEF Torn, FlagKeepsWhole, FillGives
  <2>2. CASE ~(next > LastBlock) /\ h = 1
    BY <1>1, <1>2, <1>4, <1>5, <1>6, <2>2 DEF Torn, FlagKeepsWhole, Fread, FillGives
  <2>3. CASE ~(next > LastBlock) /\ h = 2
    <3>1. segs[cseg].data[1] = next /\ Fread(h) = next
      BY <2>3 DEF Torn, FlagKeepsWhole, Fread
    <3>2. Whole(cseg)'
      BY <1>1, <1>4, <2>3, <3>1 DEF Whole, FillGives
    <3> QED BY <1>1, <1>4, <1>5, <1>6, <2>3, <3>2 DEF Torn, FlagKeepsWhole, FillGives
  <2> QED BY <2>1, <2>2, <2>3
<1>8. Exposed' => Exposed
  BY <1>1, <1>4 DEF Exposed, serverVars, TypeOK, FillGives
<1>9. Owed' <= Owed
  BY <1>8 DEF Owed
<1> QED BY <1>1, <1>7, <1>9, SameFile DEF Torn, serverVars

LEMMA ClientTorn == FlowOK /\ Torn /\ (Client \/ ClientKilled) => Torn'
<1> SUFFICES ASSUME FlowOK, Torn, Client \/ ClientKilled PROVE Torn'
  OBVIOUS
<1>1. TypeOK /\ FlagKeepsWhole /\ TornCredit /\ (cpc # "off" => cseg \in 1 .. Len(segs))
  BY DEF FlowOK, TypeOK, Torn
<1>2. CASE ClientSet
  <2>2. FlagKeepsWhole'
    <3>1. /\ cseg \in 1 .. Len(segs) /\ 1 \in {0, 1}
          /\ segs' = [segs EXCEPT ![cseg].check = 1]
          /\ UNCHANGED <<cseg, clients, next>>
          /\ cpc \notin {"fill1", "fill2", "off"} /\ cpc' = "poll"
      BY <1>1, <1>2 DEF ClientSet
    <3> QED BY <1>1, <3>1, FlagAfterOne
  <2>3. Owed' <= Owed
    BY <1>2 DEF ClientSet, Owed
  <2> QED BY <1>1, <1>2, <2>2, <2>3, SameFile DEF ClientSet, serverVars, Torn
<1>3. CASE ClientPoll
  <2>1. FlagKeepsWhole'
    BY <1>1, <1>3 DEF ClientPoll, ClientTurn, FlagKeepsWhole, Whole, LastBlock
  <2>2. Owed' <= Owed
    BY <1>3 DEF ClientPoll, Owed, Exposed, serverVars
  <2> QED BY <1>1, <1>3, <2>1, <2>2, SameFile DEF ClientPoll, serverVars, Torn
<1>4. CASE ClientFill1
  BY <1>4, ClientFillTorn DEF ClientFill1
<1>5. CASE ClientFill2
  BY <1>5, ClientFillTorn DEF ClientFill2
<1>6. CASE ClientPost
  <2>1. /\ FlagKeepsWhole' /\ Len(segs') = Len(segs)
        /\ \A j \in 1 .. Len(segs) : /\ segs'[j].data = segs[j].data
                                     /\ segs'[j].check = IF j = cseg THEN 0 ELSE segs[j].check
    BY <1>1, <1>6, FlagAfterPost DEF ClientPost, PostedFlag, FlagKeepsWhole
  <2>2. Exposed' => Exposed
    BY <1>1, <1>6, <2>1 DEF Exposed, ClientPost, serverVars, TypeOK
  <2>3. Owed' <= Owed
    BY <1>6, <2>2 DEF ClientPost, Owed
  <2> QED BY <1>1, <1>6, <2>1, <2>3, SameFile DEF ClientPost, serverVars, Torn
<1>7. CASE ClientKilled
  <2>1. FlagKeepsWhole'
    BY <1>1, <1>7 DEF ClientKilled, FlagKeepsWhole, Whole, LastBlock
  <2>2. Owed' <= Owed
    BY <1>7 DEF ClientKilled, Owed, Exposed, serverVars
  <2> QED BY <1>1, <1>7, <2>1, <2>2, SameFile DEF ClientKilled, serverVars, Torn
<1> QED BY <1>2, <1>3, <1>4, <1>5, <1>6, <1>7 DEF Client

(* A launch adds a store that is to come.                                   *)
LEMMA ClientStartTorn == FlowOK /\ Torn /\ ClientStart => Torn'
<1> SUFFICES ASSUME FlowOK, Torn, ClientStart PROVE Torn'
  OBVIOUS
<1>1. TypeOK /\ FlagKeepsWhole /\ TornCredit
  BY DEF FlowOK, Torn
<1>2. /\ Len(segs') \in Nat /\ Len(segs') >= Len(segs)
      /\ \A i \in 1 .. Len(segs) : segs'[i] = segs[i]
      /\ \A i \in 1 .. Len(segs'), h \in {1, 2} :
            i \notin 1 .. Len(segs) => segs'[i].data[h] = 0
  BY <1>1, ShmGetGives DEF ClientStart
<1>3. next' <= LastBlock' /\ cpc' = "set"
  <2>1. clients \in Nat /\ clients' = clients + 1
    BY <1>1 DEF ClientStart, TypeOK
  <2> QED BY <2>1, BlocksMonotone, BoundsAssumption DEF ClientStart, LastBlock
<1>4. \A i \in 1 .. Len(segs') : segs'[i].check = 0 => Whole(i)'
  BY <1>1, <1>2, Facts DEF Whole, FlagKeepsWhole
<1>5. FlagKeepsWhole'
  <2> DEFINE c == clients
  <2>1. c \in Nat /\ clients' = c + 1 /\ next' = c * Blocks + 1
    BY <1>1 DEF ClientStart, TypeOK
  <2>2. c * Blocks \in Nat /\ (c + 1) * Blocks \in Nat
    BY <2>1, BlocksMonotone
  <2>3. next' \in Nat /\ LastBlock' \in Nat
    BY <2>1, <2>2 DEF LastBlock
  <2> QED BY <1>3, <1>4, <2>3 DEF FlagKeepsWhole
<1>6. Exposed' => Exposed
  <2>1. UNCHANGED <<spc, sseg, half>>
    BY DEF ClientStart, serverVars
  <2>2. spc \in {"copy1", "copy2"} => sseg \in 1 .. Len(segs)
    BY <1>1 DEF TypeOK
  <2>3. spc \in {"copy1", "copy2"} => segs'[sseg] = segs[sseg]
    BY <1>2, <2>2
  <2> QED BY <2>1, <2>3 DEF Exposed
<1>7. TornCredit'
  <2>1. Halved' = Halved /\ clients' = clients + 1 /\ clients \in Nat /\ cpc = "off"
    BY <1>1 DEF ClientStart, serverVars, Halved, TypeOK
  <2> QED BY <1>1, <1>3, <1>6, <2>1, CountTorn DEF TornCredit
<1> QED BY <1>5, <1>7 DEF Torn

-----------------------------------------------------------------------------
(* The server                                                               *)

LEMMA ServerStartTorn == FlowOK /\ Torn /\ ServerStart => Torn'
<1> SUFFICES ASSUME FlowOK, Torn, ServerStart PROVE Torn'
  OBVIOUS
<1>1. TypeOK /\ FlagKeepsWhole /\ TornCredit
  BY DEF FlowOK, Torn
<1>2. /\ Len(segs') \in Nat /\ Len(segs') >= Len(segs)
      /\ \A i \in 1 .. Len(segs) : segs'[i] = segs[i]
      /\ \A i \in 1 .. Len(segs'), h \in {1, 2} :
            i \notin 1 .. Len(segs) => segs'[i].data[h] = 0
  BY <1>1, ShmGetGives DEF ServerStart
<1>3. \A i \in 1 .. Len(segs') : segs'[i].check = 0 => Whole(i)'
  BY <1>1, <1>2, Facts DEF Whole, FlagKeepsWhole
<1>4. FlagKeepsWhole'
  BY <1>1, <1>2, <1>3 DEF FlagKeepsWhole, Whole, LastBlock, ServerStart, clientVars, TypeOK
<1>5. Halved' = {} /\ ~Exposed'
  BY DEF ServerStart, Halved, Exposed
<1>6. Cardinality({}) = 0
  BY FS_EmptySet
<1>7. cpc' = cpc /\ clients' = clients /\ clients \in Nat /\ (cpc = "set" => 1 <= clients)
  <2>1. cpc = "set" => Cardinality(Halved) + 1 + (IF Exposed THEN 1 ELSE 0) <= clients
    BY <1>1 DEF TornCredit
  <2> QED BY <1>1, <2>1, CountTorn DEF ServerStart, clientVars, TypeOK
<1>8. TornCredit'
  BY <1>5, <1>6, <1>7 DEF TornCredit
<1> QED BY <1>4, <1>8 DEF Torn

(* A copy that was not exposed is whole.                                    *)
LEMMA ServerCopy2Torn == FlowOK /\ Torn /\ ServerCopy2 => Torn'
<1> SUFFICES ASSUME FlowOK, Torn, ServerCopy2 PROVE Torn'
  OBVIOUS
<1>1. TypeOK /\ FlagKeepsWhole /\ TornCredit /\ sseg \in 1 .. Len(segs) /\ half \in BlockIds
  BY DEF FlowOK, Torn, TypeOK, ServerCopy2
<1>2. segs[sseg].data[2] \in BlockIds /\ segs[sseg].check \in {0, 1}
  <2>1. segs[sseg] \in Segments
    BY <1>1, Facts
  <2> QED BY <1>1, <2>1, Facts DEF Segments
<1>3. FlagKeepsWhole'
  BY <1>1 DEF ServerCopy2, FlagKeepsWhole, Whole, LastBlock, clientVars
<1>4. ~Exposed' /\ cpc' = cpc /\ clients' = clients /\ clients \in Nat
  BY <1>1 DEF ServerCopy2, Exposed, clientVars, TypeOK
<1>5. CASE UNCHANGED out
  <2>1. Owed' <= Owed
    BY <1>4 DEF Owed
  <2> QED BY <1>1, <1>3, <1>4, <1>5, <2>1, SameFile DEF Torn
<1>6. CASE out' = Append(out, <<half, segs[sseg].data[2]>>)
  <2>1. /\ Cardinality(Halved') \in Nat /\ Cardinality(Halved) \in Nat
        /\ Cardinality(Halved') <= Cardinality(Halved) + 1
        /\ half = segs[sseg].data[2] => Halved' = Halved
    BY <1>1, <1>2, <1>6, AppendTorn, CountTorn
  <2>2. ~Exposed => half = segs[sseg].data[2]
    BY <1>1, <1>2 DEF Exposed, ServerCopy2, FlagKeepsWhole, Whole
  <2>3. TornCredit'
    BY <1>1, <1>4, <2>1, <2>2 DEF TornCredit
  <2> QED BY <1>3, <2>3 DEF Torn
<1> QED BY <1>5, <1>6 DEF ServerCopy2

LEMMA ServerTorn == FlowOK /\ Torn /\ (Server \/ ServerStartFails \/ ServerKilled) => Torn'
<1> SUFFICES ASSUME FlowOK, Torn, Server \/ ServerStartFails \/ ServerKilled PROVE Torn'
  OBVIOUS
<1>1. TypeOK /\ FlagKeepsWhole /\ TornCredit /\ (spc # "off" => sseg \in 1 .. Len(segs))
  BY DEF FlowOK, TypeOK, Torn
<1>2. CASE ServerPoll \/ ServerCopy1 \/ ServerRemove \/ ServerStartFails \/ ServerKilled
  <2>1. UNCHANGED <<segs, out, cpc, cseg, clients, next>>
    BY <1>2 DEF ServerPoll, ServerCopy1, ServerRemove, ServerStartFails, ServerKilled, clientVars
  <2>2. FlagKeepsWhole'
    BY <1>1, <2>1 DEF FlagKeepsWhole, Whole, LastBlock
  <2>3. Exposed' => Exposed
    BY <1>2, <2>1 DEF Exposed, ServerPoll, ServerCopy1, ServerRemove, ServerStartFails, ServerKilled
  <2>4. Owed' <= Owed
    BY <2>1, <2>3 DEF Owed
  <2> QED BY <1>1, <2>1, <2>2, <2>4, SameFile DEF Torn
<1>3. CASE ServerCopy2
  BY <1>3, ServerCopy2Torn
<1>4. CASE ServerAck
  <2>1. /\ sseg \in 1 .. Len(segs) /\ 1 \in {0, 1}
        /\ segs' = [segs EXCEPT ![sseg].check = 1]
        /\ UNCHANGED <<cseg, clients, next>> /\ cpc' = cpc
    BY <1>1, <1>4 DEF ServerAck, clientVars
  <2>2. FlagKeepsWhole'
    BY <1>1, <2>1, FlagAfterOne
  <2>3. Owed' <= Owed
    BY <1>4 DEF Owed, Exposed, ServerAck, clientVars
  <2> QED BY <1>1, <1>4, <2>2, <2>3, SameFile DEF Torn, ServerAck, clientVars
<1> QED BY <1>2, <1>3, <1>4 DEF Server

-----------------------------------------------------------------------------

LEMMA TornStep == FlowOK /\ Torn /\ [Next]_vars => Torn'
<1>1. FlowOK /\ Torn /\ UNCHANGED vars => Torn'
  BY DEF Torn, FlagKeepsWhole, TornCredit, Halved, Exposed, Whole, LastBlock, vars, clientVars, serverVars
<1> QED BY <1>1, ClientStartTorn, ClientTorn, ServerStartTorn, ServerTorn DEF Next

(* However many blocks are sent, and in whatever order both programs run    *)
(* and are killed, each launch of the client tears at most one block, apart *)
(* from what is behind a short last one.                                    *)
THEOREM FewTorn == Spec => []TornBound
<1>1. Spec => []Torn
  BY TornInit, TornStep, FlowHolds, PTL DEF Spec
<1>2. Inductive => TornBlocks = Halved
  BY DEF Inductive, RestOK, TornBlocks, Halved
<1>3. Inductive /\ Torn => TornBound
  <2> SUFFICES ASSUME Inductive, Torn PROVE TornBound
    OBVIOUS
  <2>1. Cardinality(Halved) <= clients
    BY CountTorn DEF Inductive, FlowOK, Torn, TornCredit, TypeOK
  <2> QED BY <1>2, <2>1 DEF TornBound
<1> QED BY <1>1, <1>3, ExchangeConsistent, PTL

-----------------------------------------------------------------------------
(* Lost blocks                                                              *)

(* Counting a set against a finite one.                                     *)
LEMMA CountSubset ==
    ASSUME NEW B, IsFiniteSet(B), NEW A, A \subseteq B
    PROVE  /\ IsFiniteSet(A) /\ Cardinality(A) \in Nat /\ Cardinality(B) \in Nat
           /\ Cardinality(A) <= Cardinality(B)
           /\ A # B => Cardinality(A) + 1 <= Cardinality(B)
<1>1. /\ IsFiniteSet(A) /\ Cardinality(A) \in Nat /\ Cardinality(B) \in Nat
      /\ Cardinality(A) <= Cardinality(B)
      /\ Cardinality(A) = Cardinality(B) => A = B
  BY FS_Subset, FS_CardinalityType
<1> QED BY <1>1

LEMMA CountOneMore ==
    ASSUME NEW B, IsFiniteSet(B), NEW x, NEW A, A \subseteq B \cup {x}
    PROVE  /\ Cardinality(A) \in Nat /\ Cardinality(B) \in Nat
           /\ Cardinality(A) <= Cardinality(B) + 1
<1>1. /\ IsFiniteSet(B \cup {x})
      /\ Cardinality(B \cup {x}) \in {Cardinality(B), Cardinality(B) + 1}
      /\ Cardinality(B) \in Nat
  BY FS_AddElement, FS_CardinalityType
<1>2. Cardinality(A) \in Nat /\ Cardinality(A) <= Cardinality(B \cup {x})
  BY <1>1, CountSubset
<1> QED BY <1>1, <1>2

LEMMA UnreadCounted ==
    ASSUME TypeOK
    PROVE  /\ IsFiniteSet(Unread) /\ Cardinality(Unread) \in Nat
           /\ IsFiniteSet(posted)
<1>1. posted \subseteq BlockIds /\ IsFiniteSet(BlockIds)
  <2>1. BlockIds = 0 .. MaxClients * Blocks /\ MaxClients * Blocks \in Int /\ 0 \in Int
    BY Facts
  <2>2. IsFiniteSet(BlockIds)
    BY ONLY <2>1, FS_Interval
  <2> QED BY <2>2 DEF TypeOK
<1>2. IsFiniteSet(posted)
  BY <1>1, CountSubset
<1>3. PICK c : Coming \subseteq {c}
  BY DEF Coming
<1>4. IsFiniteSet(posted \cup {c})
  BY <1>2, FS_AddElement
<1>5. Unread \subseteq posted \cup {c}
  BY <1>3 DEF Unread
<1> QED BY <1>2, <1>4, <1>5, CountSubset

Reading == spc \in {"poll", "copy1", "copy2", "ack"}

(* A step that makes no block unread keeps the credit, unless an expected   *)
(* one stays unread.                                                        *)
LEMMA CreditKept ==
    ASSUME TypeOK, LossCredit, Reading,
           Unread' \subseteq Unread,
           \/ clients' = clients /\ (cpc' = "set" => cpc = "set")
           \/ clients' = clients + 1,
           Overtaking' => Overtaking,
           Expected => Expected' \/ Unread' # Unread
    PROVE  LossCredit'
<1>1. IsFiniteSet(Unread) /\ clients \in Nat
  BY UnreadCounted DEF TypeOK
<1>2. /\ Cardinality(Unread') \in Nat /\ Cardinality(Unread) \in Nat
      /\ Cardinality(Unread') <= Cardinality(Unread)
      /\ Unread' # Unread => Cardinality(Unread') + 1 <= Cardinality(Unread)
  BY <1>1, CountSubset
<1>3. Cardinality(Unread) + (IF cpc = "set" THEN 1 ELSE 0) + (IF Overtaking THEN 1 ELSE 0)
         <= clients + (IF Expected THEN 1 ELSE 0)
  BY DEF LossCredit, Reading
<1>4. Cardinality(Unread') + (IF cpc' = "set" THEN 1 ELSE 0) + (IF Overtaking' THEN 1 ELSE 0)
         <= clients' + (IF Expected' THEN 1 ELSE 0)
  BY <1>1, <1>2, <1>3
<1> QED BY <1>4 DEF LossCredit

(* A block is lost only when the file holds a later one, and what a server  *)
(* expects is none of those.                                                *)
LEMMA LostFromCredit ==
    ASSUME FlowOK, FlagKeepsWhole, MemoryIs, NotPassed, LossCredit, Reading
    PROVE  LostBound
<1>1. TypeOK /\ IsFiniteSet(Unread) /\ clients \in Nat /\ sseg \in 1 .. Len(segs)
  BY UnreadCounted DEF FlowOK, TypeOK, Reading
<1>2. LostBlocks \subseteq Unread
  BY DEF LostBlocks, Unread, InFile
<1>3. Cardinality(Unread) <= clients + (IF Expected THEN 1 ELSE 0)
  BY <1>1, UnreadCounted DEF LossCredit, Reading
<1>4. CASE ~Expected
  BY <1>1, <1>2, <1>3, <1>4, CountSubset DEF LostBound
<1>5. CASE Expected
  <2>1. PICK d \in Due \cap Unread : TRUE
    BY <1>5 DEF Expected
  <2>2. \A i \in 1 .. Len(out) : out[i][1] <= d
    <3>1. CASE d = segs[sseg].data[1] \/ (spc = "copy2" /\ d = half)
      BY <1>1, <3>1 DEF NotPassed
    <3>2. CASE d = segs[sseg].data[2]
      BY <1>1, <2>1, <3>2 DEF NotPassed, Unread
    <3>3. CASE d \in Coming
      <4>1. cseg = sseg /\ cpc \in {"fill1", "fill2", "post"}
        BY <3>3 DEF Coming
      <4>2. segs[sseg].data[1] \in Nat /\ next \in Nat /\ LastBlock \in Nat
        BY <1>1, Facts DEF FlowOK, BlocksBehind
      <4>3. segs[sseg].data[1] <= d /\ d \in Int
        <5>1. CASE cpc = "post"
          BY <1>1, <3>3, <4>1, <4>2, <5>1 DEF Coming, MemoryIs
        <5>2. CASE cpc # "post" /\ next > LastBlock
          BY <1>1, <3>3, <4>1, <4>2, <5>2 DEF Coming, FlowOK, BlocksBehind
        <5>3. CASE cpc # "post" /\ ~(next > LastBlock)
          BY <1>1, <3>3, <4>1, <4>2, <5>3 DEF Coming, FlowOK, BlocksBehind
        <5> QED BY <5>1, <5>2, <5>3
      <4>4. \A i \in 1 .. Len(out) : out[i][1] <= segs[sseg].data[1] /\ out[i][1] \in Nat
        BY <1>1, Facts DEF NotPassed
      <4> QED BY <4>2, <4>3, <4>4
    <3> QED BY <2>1, <3>1, <3>2, <3>3 DEF Due
  <2>3. d \in Int /\ \A i \in 1 .. Len(out) : out[i][1] \in Nat
    <3>1. next \in Nat
      BY <1>1, Facts DEF FlowOK, BlocksBehind
    <3>2. posted \subseteq Int /\ Coming \subseteq Int
      BY <1>1, <3>1, Facts DEF Coming, TypeOK
    <3>3. d \in Int
      BY <2>1, <3>2 DEF Unread
    <3>4. \A i \in 1 .. Len(out) : out[i][1] \in BlockIds
      BY <1>1, Facts
    <3> QED BY <1>1, <3>3, <3>4, Facts
  <2>4. d \notin LostBlocks
    BY <2>2, <2>3 DEF LostBlocks
  <2>5. LostBlocks # Unread
    BY <2>1, <2>4
  <2> QED BY <1>1, <1>2, <1>3, <2>5, CountSubset DEF LostBound
<1> QED BY <1>4, <1>5

LEMMA LosingInit == Init => Losing
<1> SUFFICES ASSUME Init PROVE Losing
  OBVIOUS
<1>1. LostBlocks = {} /\ Cardinality({}) = 0
  BY FS_EmptySet DEF Init, LostBlocks
<1> QED BY <1>1 DEF Init, Losing, MemoryIs, NotPassed, LossCredit, ServerEnds, LostBound

(* A server that leaves its loop leaves its file and what is posted as they *)
(* are; and what a client posts later is not passed by any of the file.     *)
LEMMA EndsKept ==
    ASSUME FlowOK, FlagKeepsWhole, Losing, out' = out, clients' \in {clients, clients + 1},
           \/ posted' = posted
           \/ ClientPost
    PROVE  ServerEnds'
<1>1. TypeOK /\ clients \in Nat
  BY DEF FlowOK, TypeOK
<1>2. LostBound
  BY LostFromCredit DEF Losing, Reading, ServerEnds, TypeOK, FlowOK
<1>3. LostBlocks' \subseteq LostBlocks
  <2>1. CASE posted' = posted
    BY <2>1 DEF LostBlocks
  <2>2. CASE ClientPost
    <3>1. CASE cseg # sseg
      BY <2>2, <3>1 DEF ClientPost, LostBlocks
    <3>2. CASE cseg = sseg
      <4>1. sseg \in 1 .. Len(segs) /\ segs[sseg].data[1] = next - 1
        BY <1>1, <2>2, <3>2 DEF ClientPost, TypeOK, Losing, MemoryIs
      <4>2. \A i \in 1 .. Len(out) : out[i][1] <= next - 1 /\ out[i][1] \in Nat
        BY <1>1, <4>1, Facts DEF Losing, NotPassed
      <4>3. next - 1 \in Int
        BY <1>1, Facts DEF FlowOK, BlocksBehind
      <4>4. posted' = posted \cup {next - 1}
        BY <2>2, <3>2 DEF ClientPost
      <4>5. ASSUME NEW b \in LostBlocks' PROVE b \in LostBlocks
        <5>1. b # next - 1
          BY <4>2, <4>3, <4>5 DEF LostBlocks
        <5> QED BY <4>4, <4>5, <5>1 DEF LostBlocks
      <4> QED BY <4>5
    <3> QED BY <3>1, <3>2
  <2> QED BY <2>1, <2>2
<1>4. IsFiniteSet(LostBlocks)
  <2>1. IsFiniteSet(posted) /\ LostBlocks \subseteq posted
    BY <1>1, UnreadCounted DEF LostBlocks
  <2> QED BY <2>1, CountSubset
<1>5. Cardinality(LostBlocks') <= Cardinality(LostBlocks) /\ Cardinality(LostBlocks') \in Nat
      /\ Cardinality(LostBlocks) \in Nat
  BY <1>3, <1>4, CountSubset
<1> QED BY <1>1, <1>2, <1>5 DEF ServerEnds, LostBound

(* The segment the server reads, and its file, as they were.                *)
SameView ==
    /\ UNCHANGED <<spc, sseg, half, out>>
    /\ sseg # 0 => /\ segs'[sseg].check = segs[sseg].check
                   /\ \A h \in {1, 2} : segs'[sseg].data[h] = segs[sseg].data[h]

LEMMA ClientStartLosing == FlowOK /\ Torn /\ Losing /\ ClientStart => Losing'
<1> SUFFICES ASSUME FlowOK, Torn, Losing, ClientStart PROVE Losing'
  OBVIOUS
<1>1. TypeOK /\ FlagKeepsWhole
  BY DEF FlowOK, Torn
<1>2. /\ Len(segs') \in Nat /\ Len(segs') >= Len(segs)
      /\ \A i \in 1 .. Len(segs) : segs'[i] = segs[i]
      /\ \A i \in 1 .. Len(segs'), h \in {1, 2} :
            i \notin 1 .. Len(segs) => segs'[i].data[h] = 0
  BY <1>1, ShmGetGives DEF ClientStart
<1>3. /\ LastBlock \in Nat /\ next' = LastBlock + 1 /\ next' <= LastBlock' /\ cpc' = "set"
      /\ LastBlock' \in Nat
  <2>1. clients \in Nat /\ clients' = clients + 1
    BY <1>1 DEF ClientStart, TypeOK
  <2> QED BY <2>1, BlocksMonotone, BoundsAssumption DEF ClientStart, LastBlock
<1>4. MemoryIs'
  <2>1. ASSUME NEW i \in 1 .. Len(segs'), NEW h \in {1, 2} PROVE segs'[i].data[h] < next'
    <3>1. CASE i \in 1 .. Len(segs)
      BY <1>1, <1>2, <1>3, <3>1, Facts DEF FlowOK, BlocksBehind
    <3>2. CASE i \notin 1 .. Len(segs)
      BY <1>2, <1>3, <3>2
    <3> QED BY <3>1, <3>2
  <2> QED BY <1>3, <2>1 DEF MemoryIs
<1>5. SameView
  BY <1>1, <1>2 DEF SameView, ClientStart, serverVars, TypeOK
<1>6. NotPassed'
  BY <1>3, <1>5 DEF Losing, NotPassed, InFile, SameView, TypeOK
<1>7. Unread' = Unread /\ Due' = Due /\ Coming = {} /\ Coming' = {} /\ ~Overtaking'
  <2>1. Coming = {} /\ Coming' = {}
    BY <1>3 DEF ClientStart, Coming
  <2>2. posted' = posted /\ \A b : InFile(b)' <=> InFile(b)
    BY <1>5 DEF ClientStart, InFile, SameView
  <2>3. spc # "off" => sseg # 0
    BY <1>1 DEF TypeOK
  <2>4. Due' = Due
    BY <1>5, <2>1, <2>2, <2>3 DEF Due, SameView
  <2> QED BY <1>3, <2>1, <2>2, <2>4 DEF Unread, Overtaking
<1>8. LossCredit'
  <2>1. CASE Reading
    BY <1>1, <1>7, <2>1, CreditKept DEF Losing, Expected, ClientStart
  <2>2. CASE ~Reading
    BY <1>5, <2>2 DEF Reading, SameView, LossCredit
  <2> QED BY <2>1, <2>2
<1>9. ServerEnds'
  BY <1>1, <1>5, EndsKept DEF SameView, ClientStart
<1> QED BY <1>4, <1>6, <1>8, <1>9 DEF Losing

(* Whether a block is in the file depends on the file only.                 *)
LEMMA SameInFile == ASSUME out' = out PROVE \A b : InFile(b)' <=> InFile(b)
BY DEF InFile

(* The flags and the memory after the client's store of a flag.             *)
LEMMA FlagEffect ==
    ASSUME TypeOK, NEW i \in 1 .. Len(segs), NEW c \in {0, 1},
           segs' = [segs EXCEPT ![i].check = c]
    PROVE  /\ Len(segs') = Len(segs)
           /\ \A j \in 1 .. Len(segs) : /\ segs'[j].data = segs[j].data
                                        /\ segs'[j].check = IF j = i THEN c ELSE segs[j].check
<1>1. segs \in Seq(Segments)
  BY Facts
<1> QED BY <1>1, StoreCheck, StoreCheckFlags

(* The store before the loop is what a launch of the client is credited.    *)
LEMMA ClientSetLosing == FlowOK /\ Torn /\ Losing /\ ClientSet => Losing'
<1> SUFFICES ASSUME FlowOK, Torn, Losing, ClientSet PROVE Losing'
  OBVIOUS
<1>1. TypeOK /\ FlagKeepsWhole /\ cseg \in 1 .. Len(segs) /\ clients \in Nat
  BY DEF FlowOK, Torn, TypeOK, ClientSet
<1>2. /\ Len(segs') = Len(segs)
      /\ \A j \in 1 .. Len(segs) : /\ segs'[j].data = segs[j].data
                                   /\ segs'[j].check = IF j = cseg THEN 1 ELSE segs[j].check
  BY <1>1, FlagEffect DEF ClientSet
<1>3. /\ UNCHANGED <<cseg, next, clients, spc, sseg, half, out, posted>>
      /\ cpc = "set" /\ cpc' = "poll"
  BY DEF ClientSet, serverVars
<1>4. MemoryIs'
  BY <1>1, <1>2, <1>3 DEF Losing, MemoryIs, LastBlock
<1>5. sseg # 0 => sseg \in 1 .. Len(segs)
  BY <1>1 DEF TypeOK
<1>6. NotPassed'
  BY <1>1, <1>2, <1>3, <1>5 DEF Losing, NotPassed, InFile, TypeOK
<1>7. LossCredit'
  <2> SUFFICES ASSUME Reading PROVE LossCredit'
    BY <1>3 DEF Reading, LossCredit
  <2>1. Coming = {} /\ Coming' = {} /\ sseg \in 1 .. Len(segs)
    BY <1>1, <1>3 DEF Coming, TypeOK, Reading
  <2>2. Unread' = Unread
    BY <1>3, <2>1, SameInFile DEF Unread
  <2>3. Cardinality(Unread) \in Nat /\ ~Overtaking
    BY <1>1, <1>3, UnreadCounted DEF Overtaking
  <2>4. Cardinality(Unread) + 1 <= clients + (IF Expected THEN 1 ELSE 0)
    BY <1>3, <2>3 DEF Losing, LossCredit, Reading
  <2>5. Overtaking' => Due' = Due
    BY <1>2, <1>3, <2>1 DEF Overtaking, Due
  <2>6. Overtaking' /\ Expected => Expected'
    BY <2>2, <2>5 DEF Expected
  <2>7. Cardinality(Unread') + (IF cpc' = "set" THEN 1 ELSE 0) + (IF Overtaking' THEN 1 ELSE 0)
          <= clients' + (IF Expected' THEN 1 ELSE 0)
    BY <1>1, <1>3, <2>2, <2>3, <2>4, <2>6
  <2> QED BY <2>7 DEF LossCredit
<1>8. ServerEnds'
  BY <1>1, <1>3, EndsKept
<1> QED BY <1>4, <1>6, <1>7, <1>8 DEF Losing

(* From here on the block is coming: it is expected, unless the client      *)
(* overtakes the server.                                                    *)
LEMMA ClientPollLosing == FlowOK /\ Torn /\ Losing /\ ClientPoll => Losing'
<1> SUFFICES ASSUME FlowOK, Torn, Losing, ClientPoll PROVE Losing'
  OBVIOUS
<1>1. TypeOK /\ FlagKeepsWhole /\ cseg \in 1 .. Len(segs) /\ clients \in Nat /\ segs[cseg].check = 1
  BY DEF FlowOK, Torn, TypeOK, ClientPoll, ClientTurn
<1>2. /\ UNCHANGED <<segs, cseg, next, clients, spc, sseg, half, out, posted>>
      /\ cpc = "poll" /\ cpc' = "fill1"
  BY DEF ClientPoll, serverVars
<1>3. MemoryIs'
  BY <1>1, <1>2 DEF Losing, MemoryIs, LastBlock
<1>4. NotPassed'
  BY <1>1, <1>2 DEF Losing, NotPassed, InFile
<1>5. LossCredit'
  <2> SUFFICES ASSUME Reading PROVE LossCredit'
    BY <1>2 DEF Reading, LossCredit
  <2>1. Coming = {} /\ ~Overtaking'
    BY <1>2 DEF Coming, Overtaking
  <2>2. PICK c : Coming' \subseteq {c}
    BY <1>2 DEF Coming
  <2>3. Unread \subseteq Unread' /\ Unread' \subseteq Unread \cup {c}
    BY <1>2, <2>1, <2>2, SameInFile DEF Unread
  <2>4. IsFiniteSet(Unread)
    BY <1>1, UnreadCounted
  <2>5. /\ Cardinality(Unread') \in Nat /\ Cardinality(Unread) \in Nat
        /\ Cardinality(Unread') <= Cardinality(Unread) + 1
    BY <2>3, <2>4, CountOneMore
  <2>6. Cardinality(Unread) + (IF Overtaking THEN 1 ELSE 0) <= clients + (IF Expected THEN 1 ELSE 0)
    BY <1>1, <1>2, <2>5 DEF Losing, LossCredit, Reading
  <2>7. CASE Unread' = Unread
    <3>1. Expected => Expected'
      BY <1>2, <2>1, <2>7 DEF Expected, Due
    <3>2. Cardinality(Unread') + (IF cpc' = "set" THEN 1 ELSE 0) + (IF Overtaking' THEN 1 ELSE 0)
            <= clients' + (IF Expected' THEN 1 ELSE 0)
      BY <1>1, <1>2, <2>1, <2>5, <2>6, <2>7, <3>1
    <3> QED BY <3>2 DEF LossCredit
  <2>8. CASE Unread' # Unread
    <3>1. c \in Unread' /\ c \notin Unread /\ c \in Coming' /\ c \notin posted /\ cseg = sseg
      BY <1>2, <2>2, <2>3, <2>8, SameInFile DEF Unread, Coming
    <3>2. CASE spc = "poll"
      <4>1. Due' = Coming' \ posted /\ Due = {}
        BY <1>1, <1>2, <2>1, <3>1, <3>2 DEF Due
      <4>2. Expected' /\ ~Expected
        BY <3>1, <4>1 DEF Expected
      <4>3. Cardinality(Unread') + (IF cpc' = "set" THEN 1 ELSE 0) + (IF Overtaking' THEN 1 ELSE 0)
              <= clients' + (IF Expected' THEN 1 ELSE 0)
        BY <1>1, <1>2, <2>1, <2>5, <2>6, <4>2
      <4> QED BY <4>3 DEF LossCredit
    <3>3. CASE spc # "poll"
      <4>1. Overtaking
        BY <1>1, <1>2, <3>1, <3>3 DEF Overtaking, Reading
      <4>2. Expected => Expected'
        <5>1. Due' = Due
          BY <1>2, <3>3 DEF Due, Reading
        <5> QED BY <2>3, <5>1 DEF Expected
      <4>3. Cardinality(Unread') + (IF cpc' = "set" THEN 1 ELSE 0) + (IF Overtaking' THEN 1 ELSE 0)
              <= clients' + (IF Expected' THEN 1 ELSE 0)
        BY <1>1, <1>2, <2>1, <2>5, <2>6, <4>1, <4>2
      <4> QED BY <4>3 DEF LossCredit
    <3> QED BY <3>2, <3>3
  <2> QED BY <2>7, <2>8
<1>6. ServerEnds'
  BY <1>1, <1>2, EndsKept
<1> QED BY <1>3, <1>4, <1>5, <1>6 DEF Losing

(* The block filled is posted: it stays unread, and expected if it was.     *)
LEMMA ClientPostLosing == FlowOK /\ Torn /\ Losing /\ ClientPost => Losing'
<1> SUFFICES ASSUME FlowOK, Torn, Losing, ClientPost PROVE Losing'
  OBVIOUS
<1>1. TypeOK /\ FlagKeepsWhole /\ cseg \in 1 .. Len(segs) /\ segs[cseg].check = 1
  BY DEF FlowOK, Torn, TypeOK, ClientPost, FlagKeepsWhole
<1>2. /\ Len(segs') = Len(segs)
      /\ \A j \in 1 .. Len(segs) : /\ segs'[j].data = segs[j].data
                                   /\ segs'[j].check = IF j = cseg THEN 0 ELSE segs[j].check
  BY <1>1, FlagEffect DEF ClientPost, PostedFlag
<1>3. /\ UNCHANGED <<cseg, next, clients, spc, sseg, half, out>>
      /\ cpc = "post" /\ cpc' = "poll"
      /\ posted' = IF cseg = sseg THEN posted \cup {next - 1} ELSE posted
  BY DEF ClientPost, serverVars
<1>4. MemoryIs'
  BY <1>1, <1>2, <1>3 DEF Losing, MemoryIs, LastBlock
<1>5. sseg # 0 => sseg \in 1 .. Len(segs)
  BY <1>1 DEF TypeOK
<1>6. NotPassed'
  BY <1>1, <1>2, <1>3, <1>5 DEF Losing, NotPassed, InFile, TypeOK
<1>7. LossCredit'
  <2> SUFFICES ASSUME Reading PROVE LossCredit'
    BY <1>3 DEF Reading, LossCredit
  <2>1. sseg \in 1 .. Len(segs)
    BY <1>1 DEF TypeOK, Reading
  <2>2. posted' \cup Coming' = posted \cup Coming
    BY <1>3 DEF Coming
  <2>3. Unread' = Unread
    BY <1>3, <2>2, SameInFile DEF Unread
  <2>4. ~Overtaking'
    BY <1>1, <1>2, <1>3 DEF Overtaking
  <2>5. Due \subseteq Due'
    <3>1. CASE cseg # sseg
      BY <1>2, <1>3, <2>1, <3>1 DEF Due, Coming, Reading
    <3>2. CASE cseg = sseg /\ spc = "poll"
      <4>1. segs'[sseg].check = 0 /\ segs'[sseg].data[1] = next - 1
        BY <1>1, <1>2, <1>3, <3>2 DEF Losing, MemoryIs
      <4> QED BY <1>1, <1>3, <3>2, <4>1 DEF Due, Coming
    <3>3. CASE spc # "poll"
      BY <1>2, <1>3, <2>1, <3>3 DEF Due, Reading
    <3> QED BY <3>1, <3>2, <3>3
  <2>6. Expected => Expected'
    BY <2>3, <2>5 DEF Expected
  <2> QED BY <1>1, <1>3, <2>3, <2>4, <2>6, CreditKept DEF Losing
<1>8. ServerEnds'
  BY <1>1, <1>3, EndsKept
<1> QED BY <1>4, <1>6, <1>7, <1>8 DEF Losing

(* What was coming goes with the client.                                    *)
LEMMA ClientKilledLosing == FlowOK /\ Torn /\ Losing /\ ClientKilled => Losing'
<1> SUFFICES ASSUME FlowOK, Torn, Losing, ClientKilled PROVE Losing'
  OBVIOUS
<1>1. TypeOK /\ FlagKeepsWhole /\ (cpc # "off" => cseg \in 1 .. Len(segs))
  BY DEF FlowOK, Torn, TypeOK
<1>2. /\ UNCHANGED <<segs, next, clients, spc, sseg, half, out, posted>>
      /\ cpc # "off" /\ cpc' = "off"
  BY DEF ClientKilled, serverVars
<1>3. MemoryIs'
  BY <1>2 DEF Losing, MemoryIs
<1>4. NotPassed'
  BY <1>1, <1>2 DEF Losing, NotPassed, InFile
<1>5. LossCredit'
  <2> SUFFICES ASSUME Reading PROVE LossCredit'
    BY <1>2 DEF Reading, LossCredit
  <2>1. Coming' = {} /\ ~Overtaking'
    BY <1>2 DEF Coming, Overtaking
  <2>2. Unread' = {b \in posted : ~InFile(b)} /\ Unread' \subseteq Unread
    BY <1>2, <2>1, SameInFile DEF Unread
  <2>3. Expected => Expected' \/ Unread' # Unread
    <3> SUFFICES ASSUME Expected, Unread' = Unread PROVE Expected'
      OBVIOUS
    <3>1. PICK d \in Due \cap Unread : TRUE
      BY DEF Expected
    <3>2. d \in posted
      BY <2>2, <3>1
    <3>3. d \in Due'
      BY <1>2, <3>1, <3>2 DEF Due
    <3> QED BY <3>1, <3>3 DEF Expected
  <2> QED BY <1>1, <1>2, <2>1, <2>2, <2>3, CreditKept DEF Losing
<1>6. ServerEnds'
  BY <1>1, <1>2, EndsKept
<1> QED BY <1>3, <1>4, <1>5, <1>6 DEF Losing

(* The client fills a half: the block was coming before, and is in the file *)
(* no sooner than its first half is in memory.                              *)
LEMMA ClientFillLosing ==
    ASSUME FlowOK, Torn, Losing, cpc \in {"fill1", "fill2"}, NEW h \in {1, 2},
           segs' = [segs EXCEPT ![cseg].data[h] = Fread(h)],
           UNCHANGED <<cseg, clients, serverVars, posted>>,
           \/ h = 1 /\ cpc = "fill1" /\ cpc' = "fill2" /\ next' = next
           \/ /\ h = 2 /\ cpc = "fill2" /\ cpc' = "post"
              /\ next' = IF next > LastBlock THEN next ELSE next + 1
    PROVE  Losing'
<1>1. TypeOK /\ FlagKeepsWhole /\ cseg \in 1 .. Len(segs) /\ segs[cseg].check = 1
  BY DEF FlowOK, TypeOK, Torn, FlagKeepsWhole
<1>2. /\ FillGives(h)
      /\ UNCHANGED <<spc, sseg, half, out>>
      /\ LastBlock' = LastBlock
  BY <1>1, FillEffect DEF serverVars, LastBlock
<1>3. /\ next \in 1 .. LastBlock + 1 /\ LastBlock \in Nat
      /\ \A i \in 1 .. Len(segs), g \in {1, 2} :
            segs[i].data[g] \in Nat /\ segs[i].data[g] <= LastBlock
  BY <1>1, Facts DEF FlowOK, BlocksBehind
<1>4. next > LastBlock =>
         \A j \in 1 .. Len(segs), g \in {1, 2} : segs'[j].data[g] = segs[j].data[g]
  BY <1>1, <1>2 DEF FillGives, Fread
<1>5. MemoryIs'
  <2>1. CASE next > LastBlock
    BY <1>1, <1>2, <1>3, <1>4, <2>1 DEF Losing, MemoryIs, FillGives
  <2>2. CASE ~(next > LastBlock) /\ h = 1
    BY <1>1, <1>2, <1>3, <2>2 DEF Losing, MemoryIs, FillGives, Fread
  <2>3. CASE ~(next > LastBlock) /\ h = 2
    <3>1. segs[cseg].data[1] = next
      BY <2>3, <1>1 DEF FlagKeepsWhole
    <3>2. segs'[cseg].data[1] = next /\ segs'[cseg].data[2] = next
      BY <1>1, <1>2, <2>3, <3>1 DEF FillGives, Fread
    <3>3. \A i \in 1 .. Len(segs), g \in {1, 2} : segs'[i].data[g] <= next
      BY <1>1, <1>2, <1>3, <2>3, <3>2 DEF FillGives, Losing, MemoryIs
    <3>4. \A i \in 1 .. Len(segs), g \in {1, 2} : segs'[i].data[g] \in Nat
      BY <1>1, <1>2, <1>3, <2>3, <3>2 DEF FillGives
    <3>5. next' = next + 1 /\ cpc' = "post" /\ Len(segs') = Len(segs) /\ next \in Nat
      BY <1>2, <1>3, <2>3 DEF FillGives
    <3>6. \A i \in 1 .. Len(segs), g \in {1, 2} : segs'[i].data[g] < next + 1
      BY <3>3, <3>4, <3>5
    <3>7. next + 1 > LastBlock => next = LastBlock
      BY <1>3, <2>3
    <3>8. next + 1 - 1 = next
      BY <3>5
    <3> QED BY <1>2, <3>2, <3>5, <3>6, <3>7, <3>8 DEF MemoryIs
  <2> QED BY <2>1, <2>2, <2>3
<1>6. sseg # 0 => sseg \in 1 .. Len(segs)
  BY <1>1 DEF TypeOK
<1>7. \A i \in 1 .. Len(out), g \in {1, 2} : out[i][g] \in Nat
  BY <1>1, Facts
<1>8. cseg = sseg /\ next <= LastBlock /\ (h = 1 \/ spc \in {"copy1", "copy2"}) => ~InFile(next)
  <2> SUFFICES ASSUME cseg = sseg, next <= LastBlock, h = 1 \/ spc \in {"copy1", "copy2"}
               PROVE  ~InFile(next)
    OBVIOUS
  <2>1. CASE h = 1
    <3>1. \A i \in 1 .. Len(out), g \in {1, 2} : out[i][g] <= segs[cseg].data[g]
      BY <1>1 DEF Losing, NotPassed
    <3>2. \A g \in {1, 2} : segs[cseg].data[g] < next
      BY <1>1, <2>1 DEF Losing, MemoryIs
    <3>3. \A i \in 1 .. Len(out), g \in {1, 2} : out[i][g] # next
      BY <1>1, <1>3, <1>7, <3>1, <3>2
    <3> QED BY <3>3 DEF InFile
  <2>2. CASE h = 2
    BY <2>2 DEF Losing, NotPassed
  <2> QED BY <2>1, <2>2
<1>9. NotPassed'
  <2>1. ASSUME sseg # 0, NEW g \in {1, 2} PROVE segs[sseg].data[g] <= segs'[sseg].data[g]
    <3>1. CASE sseg = cseg /\ g = h /\ ~(next > LastBlock)
      <4>1. segs'[sseg].data[g] = next
        BY <1>2, <3>1 DEF FillGives, Fread
      <4>2. segs[sseg].data[g] < next
        BY <1>1, <3>1 DEF Losing, MemoryIs
      <4> QED BY <1>1, <1>3, <3>1, <4>1, <4>2
    <3>2. CASE next > LastBlock \/ sseg # cseg \/ g # h
      <4>1. segs'[sseg].data[g] = segs[sseg].data[g]
        BY <1>2, <1>4, <1>6, <2>1, <3>2 DEF FillGives
      <4> QED BY <1>3, <1>6, <2>1, <4>1
    <3> QED BY <3>1, <3>2
  <2>2. ASSUME sseg # 0, NEW g \in {1, 2}
        PROVE  segs'[sseg].data[g] \in Nat
    BY <1>1, <1>2, <1>3, <1>6, <2>2 DEF FillGives, Fread
  <2>3. ASSUME sseg # 0, NEW i \in 1 .. Len(out), NEW g \in {1, 2}
        PROVE  out[i][g] <= segs'[sseg].data[g]
    <3>1. out[i][g] <= segs[sseg].data[g]
      BY <2>3 DEF Losing, NotPassed
    <3>2. segs[sseg].data[g] \in Nat
      BY <1>3, <1>6, <2>3
    <3> QED BY <1>7, <2>1, <2>2, <2>3, <3>1, <3>2
  <2>4. ASSUME sseg # 0
        PROVE  \/ InFile(segs'[sseg].data[2])
               \/ \A i \in 1 .. Len(out) : out[i][1] <= segs'[sseg].data[2]
    <3>1. CASE segs'[sseg].data[2] = segs[sseg].data[2]
      BY <2>4, <3>1 DEF Losing, NotPassed
    <3>2. CASE segs'[sseg].data[2] # segs[sseg].data[2]
      <4>1. sseg = cseg /\ h = 2 /\ ~(next > LastBlock)
        BY <1>2, <1>4, <1>6, <2>4, <3>2 DEF FillGives
      <4>2. segs'[sseg].data[2] = next /\ segs[cseg].data[1] = next
        BY <1>1, <1>2, <4>1 DEF FillGives, Fread, FlagKeepsWhole
      <4> QED BY <1>1, <4>1, <4>2 DEF Losing, NotPassed
    <3> QED BY <3>1, <3>2
  <2>5. spc = "copy2" => \A i \in 1 .. Len(out) : out[i][1] <= half
    BY DEF Losing, NotPassed
  <2>6. \A b : InFile(b)' <=> InFile(b)
    BY <1>2, SameInFile
  <2>7. sseg # 0 => (InFile(segs[sseg].data[2]))' \/ \A i \in 1 .. Len(out) : out[i][1] <= segs'[sseg].data[2]
    BY <1>2, <2>4 DEF InFile
  <2>8. spc \in {"copy1", "copy2"} /\ cpc' = "fill2" /\ cseg = sseg /\ next' <= LastBlock
          => ~InFile(next)'
    BY <1>8, <2>6 DEF InFile
  <2> QED BY <1>2, <2>3, <2>5, <2>7, <2>8 DEF NotPassed
<1>10. LossCredit'
  <2> SUFFICES ASSUME Reading PROVE LossCredit'
    BY <1>2 DEF Reading, LossCredit
  <2>1. sseg \in 1 .. Len(segs) /\ ~Overtaking'
    BY <1>6, <1>1 DEF TypeOK, Reading, Overtaking
  <2>2. Coming' = Coming
    <3>1. CASE h = 1
      BY <1>2, <3>1 DEF Coming
    <3>2. CASE h = 2 /\ next > LastBlock
      BY <1>2, <3>2 DEF Coming
    <3>3. CASE h = 2 /\ ~(next > LastBlock)
      <4>1. next' = next + 1 /\ next + 1 - 1 = next /\ cpc = "fill2" /\ cpc' = "post"
        BY <1>3, <3>3
      <4>2. sseg' = sseg /\ cseg' = cseg /\ next \in Nat
        BY <1>2, <1>3
      <4>3. next' - 1 = next
        BY ONLY <4>1, <4>2
      <4>4. Coming = IF cseg = sseg THEN {next} ELSE {}
        BY <3>3, <4>1 DEF Coming
      <4>5. Coming' = IF cseg = sseg THEN {next} ELSE {}
        BY <4>1, <4>2, <4>3 DEF Coming
      <4> QED BY <4>4, <4>5
    <3> QED BY <3>1, <3>2, <3>3
  <2>3. Unread' = Unread
    BY <1>2, <2>2, SameInFile DEF Unread
  <2>4. Expected => Expected'
    <3>1. CASE cseg # sseg \/ next > LastBlock \/ spc \in {"poll", "ack"}
      <4>1. segs'[sseg].check = segs[sseg].check
        BY <1>2, <2>1 DEF FillGives
      <4>2. spc \notin {"poll", "ack"} => \A g \in {1, 2} : segs'[sseg].data[g] = segs[sseg].data[g]
        BY <1>2, <1>4, <2>1, <3>1 DEF FillGives
      <4>3. cseg # sseg => \A g \in {1, 2} : segs'[sseg].data[g] = segs[sseg].data[g]
        BY <1>2, <2>1 DEF FillGives
      <4>4. Due' = Due
        <5>1. CASE spc = "poll" /\ cseg = sseg
          BY <1>1, <1>2, <2>2, <4>1, <5>1 DEF Due
        <5>2. CASE spc = "poll" /\ cseg # sseg
          BY <1>2, <2>2, <4>1, <4>3, <5>2 DEF Due
        <5>3. CASE spc # "poll"
          BY <1>2, <4>2, <5>3 DEF Due, Reading
        <5> QED BY <5>1, <5>2, <5>3
      <4> QED BY <2>3, <4>4 DEF Expected
    <3>2. CASE cseg = sseg /\ ~(next > LastBlock) /\ spc \in {"copy1", "copy2"}
      <4>1. CASE h = 1 /\ spc = "copy2"
        <5>1. Due' = Due
          BY <1>2, <2>1, <4>1 DEF Due, FillGives
        <5> QED BY <2>3, <5>1 DEF Expected
      <4>2. CASE h = 2 \/ spc = "copy1"
        <5>1. next \in Due'
          BY <1>2, <3>2, <4>2 DEF Due, FillGives, Fread
        <5>2. next \in Coming
          BY <3>2 DEF Coming
        <5>3. next \in Unread'
          BY <1>3, <1>8, <2>3, <3>2, <5>2 DEF Unread
        <5> QED BY <5>1, <5>3 DEF Expected
      <4> QED BY <3>2, <4>1, <4>2
    <3> QED BY <3>1, <3>2 DEF Reading
  <2> QED BY <1>1, <2>1, <2>3, <2>4, CreditKept DEF Losing
<1>11. ServerEnds'
  BY <1>1, <1>2, EndsKept
<1> QED BY <1>5, <1>9, <1>10, <1>11 DEF Losing

-----------------------------------------------------------------------------
(* The server                                                               *)

(* A new server has an empty file, and nothing was posted to it.            *)
LEMMA ServerStartLosing == FlowOK /\ Torn /\ Losing /\ ServerStart => Losing'
<1> SUFFICES ASSUME FlowOK, Torn, Losing, ServerStart PROVE Losing'
  OBVIOUS
<1>1. TypeOK /\ FlagKeepsWhole
  BY DEF FlowOK, Torn
<1>2. /\ Len(segs') \in Nat /\ Len(segs') >= Len(segs)
      /\ key' \in 1 .. Len(segs')
      /\ \A i \in 1 .. Len(segs) : segs'[i] = segs[i]
      /\ \A i \in 1 .. Len(segs'), h \in {1, 2} :
            i \notin 1 .. Len(segs) => segs'[i].data[h] = 0
  BY <1>1, ShmGetGives DEF ServerStart
<1>3. /\ UNCHANGED <<cpc, cseg, clients, next>>
      /\ sseg' = key' /\ out' = <<>> /\ posted' = {} /\ spc' = "poll"
  BY DEF ServerStart, clientVars
<1>4. next \in 1 .. LastBlock + 1 /\ LastBlock \in Nat /\ LastBlock' = LastBlock
  BY <1>1, <1>3, Facts DEF FlowOK, BlocksBehind, LastBlock
<1>5. cpc # "off" => cseg \in 1 .. Len(segs)
  BY <1>1 DEF TypeOK
<1>6. MemoryIs'
  <2>1. ASSUME cpc # "off", NEW i \in 1 .. Len(segs'), NEW h \in {1, 2}
        PROVE  segs'[i].data[h] < next \/ (cpc = "fill2" /\ i = cseg /\ h = 1)
    <3>1. CASE i \in 1 .. Len(segs)
      BY <1>2, <2>1, <3>1 DEF Losing, MemoryIs
    <3>2. CASE i \notin 1 .. Len(segs)
      BY <1>2, <1>4, <3>2
    <3> QED BY <3>1, <3>2
  <2>2. cpc # "off" => segs'[cseg] = segs[cseg]
    BY <1>2, <1>5
  <2> QED BY <1>3, <1>4, <2>1, <2>2 DEF Losing, MemoryIs
<1>7. NotPassed'
  BY <1>3 DEF NotPassed
<1>8. LossCredit'
  <2>1. PICK c : Coming' \subseteq {c}
    BY DEF Coming
  <2>2. Unread' = Coming' /\ ~Overtaking'
    BY <1>3 DEF Unread, InFile, Overtaking
  <2>3. clients \in Nat /\ (cpc = "set" => 1 <= clients)
    <3>1. Cardinality(Halved) \in Nat /\ clients \in Nat
      BY <1>1, CountTorn DEF TypeOK
    <3>2. cpc = "set" => Cardinality(Halved) + 1 + (IF Exposed THEN 1 ELSE 0) <= clients
      BY DEF Torn, TornCredit
    <3> QED BY <3>1, <3>2
  <2>4. CASE Coming' = {}
    <3>1. Cardinality(Unread') = 0
      BY <2>2, <2>4, FS_EmptySet
    <3>2. Cardinality(Unread') + (IF cpc' = "set" THEN 1 ELSE 0) + (IF Overtaking' THEN 1 ELSE 0)
            <= clients' + (IF Expected' THEN 1 ELSE 0)
      BY <1>3, <2>2, <2>3, <3>1
    <3> QED BY <3>2 DEF LossCredit
  <2>5. CASE Coming' # {}
    <3>1. Cardinality(Unread') = 1 /\ Unread' = {c}
      BY <2>1, <2>2, <2>5, FS_Singleton
    <3>2. cpc' \in {"fill1", "fill2", "post"} /\ cseg = key'
      BY <1>3, <2>5 DEF Coming
    <3>3. segs'[sseg'].check = 1
      BY <1>1, <1>2, <1>3, <1>5, <3>2 DEF FlagKeepsWhole
    <3>4. Due' = Coming'
      BY <1>3, <3>3 DEF Due
    <3>5. Expected'
      BY <2>2, <3>1, <3>4 DEF Expected
    <3>6. Cardinality(Unread') + (IF cpc' = "set" THEN 1 ELSE 0) + (IF Overtaking' THEN 1 ELSE 0)
            <= clients' + (IF Expected' THEN 1 ELSE 0)
      BY <1>3, <2>2, <2>3, <3>1, <3>2, <3>5
    <3> QED BY <3>6 DEF LossCredit
  <2> QED BY <2>4, <2>5
<1>9. ServerEnds'
  BY <1>3 DEF ServerEnds
<1> QED BY <1>6, <1>7, <1>8, <1>9 DEF Losing

(* The server sees 0, or copies a half: what it expected it still expects.  *)
LEMMA ServerReadsLosing ==
    FlowOK /\ Torn /\ Losing /\ (ServerPoll \/ ServerCopy1) => Losing'
<1> SUFFICES ASSUME FlowOK, Torn, Losing, ServerPoll \/ ServerCopy1 PROVE Losing'
  OBVIOUS
<1>1. TypeOK /\ FlagKeepsWhole /\ sseg \in 1 .. Len(segs)
  BY DEF FlowOK, Torn, TypeOK, ServerPoll, ServerCopy1
<1>2. UNCHANGED <<segs, cpc, cseg, clients, next, sseg, out, posted>>
  BY DEF ServerPoll, ServerCopy1, clientVars
<1>3. MemoryIs'
  BY <1>2 DEF Losing, MemoryIs, LastBlock
<1>4. spc' = "copy2" => half' = segs[sseg].data[1]
  BY DEF ServerPoll, ServerCopy1
<1>5. cpc = "fill2" /\ cseg = sseg => spc = "copy1" /\ spc' = "copy2"
  BY <1>1 DEF ServerPoll, ServerCopy1, FlagKeepsWhole
<1>6. LastBlock' = LastBlock /\ \A b : InFile(b)' <=> InFile(b)
  BY <1>2, SameInFile DEF LastBlock
<1>7. NotPassed'
  <2>1. spc' = "copy2" => \A i \in 1 .. Len(out) : out[i][1] <= half'
    BY <1>1, <1>4 DEF Losing, NotPassed
  <2>2. spc' \in {"copy1", "copy2"} /\ cpc = "fill2" /\ cseg = sseg /\ next <= LastBlock => ~InFile(next)
    BY <1>5 DEF Losing, NotPassed
  <2>3. InFile(segs[sseg].data[2])' <=> InFile(segs[sseg].data[2])
    BY <1>2 DEF InFile
  <2>4. InFile(next)' <=> InFile(next)
    BY <1>2 DEF InFile
  <2> QED BY <1>2, <1>6, <2>1, <2>2, <2>3, <2>4 DEF Losing, NotPassed
<1>8. LossCredit'
  <2>1. Reading
    BY DEF ServerPoll, ServerCopy1, Reading
  <2>2. Unread' = Unread
    BY <1>2, <1>6 DEF Unread, Coming
  <2>3. Overtaking' => Overtaking
    BY <1>2 DEF Overtaking, ServerPoll, ServerCopy1
  <2>4. Due \subseteq Due'
    BY <1>1, <1>2 DEF Due, ServerPoll, ServerCopy1
  <2>5. Expected => Expected'
    BY <2>2, <2>4 DEF Expected
  <2> QED BY <1>1, <1>2, <2>1, <2>2, <2>3, <2>5, CreditKept DEF Losing
<1>9. ServerEnds'
  BY <1>1, <1>2, EndsKept
<1> QED BY <1>3, <1>7, <1>8, <1>9 DEF Losing

(* The block is in the file: what was expected is no longer unread.         *)
LEMMA ServerCopy2Losing == FlowOK /\ Torn /\ Losing /\ ServerCopy2 => Losing'
<1> SUFFICES ASSUME FlowOK, Torn, Losing, ServerCopy2 PROVE Losing'
  OBVIOUS
<1>1. TypeOK /\ FlagKeepsWhole /\ sseg \in 1 .. Len(segs) /\ half \in BlockIds
  BY DEF FlowOK, Torn, TypeOK, ServerCopy2
<1>2. UNCHANGED <<segs, cpc, cseg, clients, next, sseg, posted>> /\ spc = "copy2"
  BY DEF ServerCopy2, clientVars
<1>3. MemoryIs'
  BY <1>2 DEF Losing, MemoryIs, LastBlock
<1>4. CASE UNCHANGED out /\ spc' = "lastack"
  <2>1. NotPassed' /\ LossCredit'
    BY <1>2, <1>4 DEF Losing, NotPassed, InFile, LossCredit
  <2>2. ServerEnds'
    BY <1>1, <1>2, <1>4, EndsKept
  <2> QED BY <1>3, <2>1, <2>2 DEF Losing
<1>5. CASE out' = Append(out, <<half, segs[sseg].data[2]>>) /\ spc' = "ack"
  <2> DEFINE last == segs[sseg].data[2]
             block == <<half, last>>
  <2>1. last \in BlockIds /\ segs[sseg].data[1] \in BlockIds
    BY <1>1, Facts
  <2>2. /\ out \in Seq(BlockIds \X BlockIds) /\ block \in BlockIds \X BlockIds
        /\ block[1] = half /\ block[2] = last
    BY <1>1, <2>1 DEF TypeOK
  <2> HIDE DEF block
  <2>3. /\ Len(out') = Len(out) + 1 /\ Len(out) \in Nat /\ out'[Len(out) + 1] = block
        /\ \A i \in 1 .. Len(out) : out'[i] = out[i]
    BY <1>5, <2>2 DEF block
  <2>4. \A b : InFile(b)' <=> InFile(b) \/ b \in {half, last}
    BY <2>2, <2>3 DEF InFile
  <2>5. NotPassed'
    <3>1. half <= segs[sseg].data[1]
      BY <1>2 DEF FlowOK, CopiedBehind
    <3>2. \A h \in {1, 2} : block[h] <= segs[sseg].data[h]
      BY <2>1, <2>2, <3>1, <1>1, Facts
    <3>3. \A i \in 1 .. Len(out'), h \in {1, 2} : out'[i][h] <= segs[sseg].data[h]
      BY <1>1, <2>3, <3>2 DEF Losing, NotPassed
    <3>4. InFile(segs[sseg].data[2])'
      BY <1>2, <2>3, <2>2 DEF InFile
    <3> QED BY <1>2, <1>5, <3>3, <3>4 DEF NotPassed
  <2>6. LossCredit'
    <3>1. Coming' = Coming /\ Reading
      BY <1>2 DEF Coming, Reading, LastBlock
    <3>2. Unread' = Unread \ {half, last}
      BY <1>2, <2>4, <3>1 DEF Unread
    <3>3. Due = {half, last}
      BY <1>2 DEF Due
    <3>4. Expected => Unread' # Unread
      BY <3>2, <3>3 DEF Expected
    <3>5. Overtaking' => Overtaking
      BY <1>2 DEF Overtaking
    <3> QED BY <1>1, <1>2, <3>1, <3>2, <3>4, <3>5, CreditKept DEF Losing
  <2>7. ServerEnds'
    BY <1>5 DEF ServerEnds
  <2> QED BY <1>3, <2>5, <2>6, <2>7 DEF Losing
<1> QED BY <1>4, <1>5 DEF ServerCopy2

(* The acknowledgement expects nothing: what it wipes out is counted.       *)
LEMMA ServerAckLosing == FlowOK /\ Torn /\ Losing /\ ServerAck => Losing'
<1> SUFFICES ASSUME FlowOK, Torn, Losing, ServerAck PROVE Losing'
  OBVIOUS
<1>1. TypeOK /\ FlagKeepsWhole /\ sseg \in 1 .. Len(segs) /\ (cpc # "off" => cseg \in 1 .. Len(segs))
  BY DEF FlowOK, Torn, TypeOK, ServerAck
<1>2. /\ Len(segs') = Len(segs)
      /\ \A j \in 1 .. Len(segs) : /\ segs'[j].data = segs[j].data
                                   /\ segs'[j].check = IF j = sseg THEN 1 ELSE segs[j].check
  BY <1>1, FlagEffect DEF ServerAck
<1>3. /\ UNCHANGED <<cpc, cseg, clients, next, sseg, half, out, posted>>
      /\ spc \in {"ack", "lastack"} /\ spc' = IF spc = "ack" THEN "poll" ELSE "remove"
  BY DEF ServerAck, clientVars
<1>4. MemoryIs'
  BY <1>1, <1>2, <1>3 DEF Losing, MemoryIs, LastBlock
<1>5. NotPassed'
  BY <1>1, <1>2, <1>3 DEF Losing, NotPassed, InFile
<1>6. LossCredit'
  <2>1. CASE spc = "ack"
    <3>1. Unread' = Unread
      BY <1>3, SameInFile DEF Unread, Coming, LastBlock
    <3>2. ~Expected /\ ~Overtaking' /\ Reading
      BY <1>3, <2>1 DEF Expected, Due, Overtaking, Reading
    <3> QED BY <1>1, <1>3, <3>1, <3>2, CreditKept DEF Losing
  <2>2. CASE spc = "lastack"
    BY <1>3, <2>2 DEF LossCredit
  <2> QED BY <1>3, <2>1, <2>2
<1>7. ServerEnds'
  BY <1>1, <1>3, EndsKept
<1> QED BY <1>4, <1>5, <1>6, <1>7 DEF Losing

LEMMA ServerLeavesLosing ==
    FlowOK /\ Torn /\ Losing /\ (ServerRemove \/ ServerStartFails \/ ServerKilled) => Losing'
<1> SUFFICES ASSUME FlowOK, Torn, Losing, ServerRemove \/ ServerStartFails \/ ServerKilled
             PROVE  Losing'
  OBVIOUS
<1>1. TypeOK /\ FlagKeepsWhole
  BY DEF FlowOK, Torn
<1>2. /\ UNCHANGED <<segs, cpc, cseg, clients, next, out, posted>>
      /\ spc' = "off" /\ (sseg' = 0 \/ sseg' = sseg)
  BY DEF ServerRemove, ServerStartFails, ServerKilled, clientVars
<1>3. MemoryIs' /\ LossCredit'
  BY <1>2 DEF Losing, MemoryIs, LossCredit, LastBlock
<1>4. NotPassed'
  BY <1>2 DEF Losing, NotPassed, InFile
<1>5. ServerEnds'
  BY <1>1, <1>2, EndsKept
<1> QED BY <1>3, <1>4, <1>5 DEF Losing

-----------------------------------------------------------------------------

LEMMA LosingStep == FlowOK /\ Torn /\ Losing /\ [Next]_vars => Losing'
<1> SUFFICES ASSUME FlowOK, Torn, Losing, [Next]_vars PROVE Losing'
  OBVIOUS
<1>1. CASE UNCHANGED vars
  BY <1>1 DEF Losing, MemoryIs, NotPassed, LossCredit, ServerEnds, InFile, Coming, Unread, Due,
         Expected, Overtaking, LostBound, LostBlocks, LastBlock, vars, clientVars, serverVars
<1>2. CASE ClientFill1 \/ ClientFill2
  BY <1>2, ClientFillLosing DEF ClientFill1, ClientFill2
<1>3. CASE Client \/ ClientStart \/ ClientKilled
  BY <1>2, <1>3, ClientStartLosing, ClientSetLosing, ClientPollLosing, ClientPostLosing,
     ClientKilledLosing DEF Client
<1>4. CASE Server \/ ServerStart \/ ServerStartFails \/ ServerKilled
  BY <1>4, ServerStartLosing, ServerReadsLosing, ServerCopy2Losing, ServerAckLosing,
     ServerLeavesLosing DEF Server
<1> QED BY <1>1, <1>3, <1>4 DEF Next

(* However many blocks are sent, and in whatever order both programs run    *)
(* and are killed, each launch of the client loses at most one block.       *)
THEOREM FewLost == Spec => []LostBound
<1>1. Spec => []Torn
  BY TornInit, TornStep, FlowHolds, PTL DEF Spec
<1>2. Spec => []Losing
  BY <1>1, LosingInit, LosingStep, FlowHolds, PTL DEF Spec
<1>3. FlowOK /\ Torn /\ Losing => LostBound
  BY LostFromCredit DEF Torn, Losing, Reading, ServerEnds, FlowOK, TypeOK
<1> QED BY <1>1, <1>2, <1>3, FlowHolds, PTL

=============================================================================
