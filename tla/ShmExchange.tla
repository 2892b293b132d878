---------------------------- MODULE ShmExchange ----------------------------
(***************************************************************************)
(* project/mypro/Blackbox/client.c sends a file to server.c through a      *)
(* System V shared memory segment: a flag, check, and a buffer, data.  The *)
(* client fills data when check is 1 and then stores 0; the server writes  *)
(* data to its file when check is 0 and then stores 1.                     *)
(*                                                                         *)
(* Abstractions.  A block of the file is a number, 0 being zeroed memory,  *)
(* and is copied in two halves, so that a copy that overlaps a fill is     *)
(* seen.  The last block of a file may be short: behind its two halves     *)
(* data has a rest, which a short block leaves as it is and every other    *)
(* fills.  Blocks of later launches of the client have later numbers.  The *)
(* client's own copy Lena2.jpg, which nothing reads, is left out.  The     *)
(* build is taken to load check at every turn of the polling loops.        *)
(***************************************************************************)
EXTENDS Naturals, FiniteSets, SequencesExt

CONSTANTS
    Blocks,         \* blocks of the file
    Short,          \* whether the last one is short
    MaxOut,         \* bound: blocks the server writes in one launch
    MaxClients,     \* bound: launches of the client
    MaxServers      \* bound: launches of the server

ASSUME BoundsAssumption ==
    Blocks \in Nat \ {0} /\ Short \in BOOLEAN /\ MaxOut \in Nat /\ MaxClients \in Nat /\ MaxServers \in Nat

(* What the two programs ask shmget for.                                    *)
ServerSize == 1028      \* sizeof(struct check_data)

ClientSize == 1024      \* SIZE

VARIABLES
    segs,       \* every segment made, as [size, check, data]
    rests,      \* the rest of each segment's data
    key,        \* the one the key 5678 leads to, 0 for none
    cpc, cseg,  \* client: where it is, the segment it is attached to
    clients,    \* client: launches so far
    next,       \* client: the block fread returns next
    spc, sseg,  \* server: where it is, the segment it is attached to
    servers,    \* server: launches so far
    half,       \* server: the half block it has copied
    out,        \* server: the blocks in its file
    outRests,   \* server: their rests
    posted      \* blocks posted since the server was launched

clientVars == <<cpc, cseg, clients, next>>
serverVars == <<spc, sseg, servers, half, out, outRests>>
vars == <<segs, rests, key, clientVars, serverVars, posted>>

BlockIds == 0 .. MaxClients * Blocks

TypeOK ==
    /\ segs \in Seq([size : {ServerSize, ClientSize}, check : {0, 1}, data : BlockIds \X BlockIds])
    /\ key \in 0 .. Len(segs)
    /\ cpc \in {"off", "set", "poll", "fill1", "fill2", "post"}
    /\ cseg \in 0 .. Len(segs) /\ (cpc # "off" => cseg # 0)
    /\ clients \in 0 .. MaxClients
    /\ next \in BlockIds \cup {MaxClients * Blocks + 1}
    /\ spc \in {"off", "poll", "copy1", "copy2", "ack", "lastack", "remove"}
    /\ sseg \in 0 .. Len(segs) /\ (spc # "off" => sseg # 0)
    /\ servers \in 0 .. MaxServers
    /\ half \in BlockIds
    /\ out \in Seq(BlockIds \X BlockIds) /\ Len(out) <= MaxOut
    /\ posted \subseteq BlockIds

Init ==
    /\ segs = <<>> /\ rests = <<>> /\ key = 0
    /\ cpc = "off" /\ cseg = 0 /\ clients = 0 /\ next = 1
    /\ spc = "off" /\ sseg = 0 /\ servers = 0 /\ half = 0 /\ out = <<>> /\ outRests = <<>>
    /\ posted = {}

-----------------------------------------------------------------------------
(* shmget(5678, size, IPC_CREAT): the segment of the key, made and zeroed   *)
(* when there is none; it fails when that segment is smaller than asked.    *)
(* A definition whose name ends in Variant is a wrong form of the one it    *)
(* precedes: the properties are checked to tell the two apart.              *)

FitsVariant(size) == TRUE

Fits(size) == segs[key].size >= size

ShmGet(size) ==
    IF key = 0
    THEN /\ segs' = Append(segs, [size |-> size, check |-> 0, data |-> <<0, 0>>])
         /\ rests' = Append(rests, 0)
         /\ key' = Len(segs) + 1
    ELSE Fits(size) /\ UNCHANGED <<segs, rests, key>>

-----------------------------------------------------------------------------
(* The client                                                               *)

LastBlock == clients * Blocks

(* fread at the end of the file returns nothing and leaves data as it is,   *)
(* and a short last block leaves the rest.                                  *)
FreadPastEndVariant(i) == next

Fread(i) == IF next > LastBlock THEN segs[cseg].data[i] ELSE next

FreadRest == IF next > LastBlock \/ (Short /\ next = LastBlock) THEN rests[cseg] ELSE next

ClientTurnVariant == TRUE

ClientTurn == segs[cseg].check = 1

PostedFlagVariant == 1

PostedFlag == 0

ClientStart ==
    /\ cpc = "off" /\ clients < MaxClients
    /\ ShmGet(ClientSize)
    /\ cseg' = key'
    /\ clients' = clients + 1
    /\ next' = clients * Blocks + 1
    /\ cpc' = "set"
    /\ UNCHANGED <<serverVars, posted>>

(* The store of 1 before the loop, whatever the server is doing.            *)
ClientSet ==
    /\ cpc = "set"
    /\ segs' = [segs EXCEPT ![cseg].check = 1]
    /\ cpc' = "poll"
    /\ UNCHANGED <<rests, key, cseg, clients, next, serverVars, posted>>

(* The loop is never left: feof == 0 compares the function's address.       *)
ClientPoll ==
    /\ cpc = "poll" /\ ClientTurn
    /\ cpc' = "fill1"
    /\ UNCHANGED <<segs, rests, key, cseg, clients, next, serverVars, posted>>

ClientFill1 ==
    /\ cpc = "fill1"
    /\ segs' = [segs EXCEPT ![cseg].data[1] = Fread(1)]
    /\ cpc' = "fill2"
    /\ UNCHANGED <<rests, key, cseg, clients, next, serverVars, posted>>

ClientFill2 ==
    /\ cpc = "fill2"
    /\ segs' = [segs EXCEPT ![cseg].data[2] = Fread(2)]
    /\ rests' = [rests EXCEPT ![cseg] = FreadRest]
    /\ next' = IF next > LastBlock THEN next ELSE next + 1
    /\ cpc' = "post"
    /\ UNCHANGED <<key, cseg, clients, serverVars, posted>>

ClientPost ==
    /\ cpc = "post"
    /\ segs' = [segs EXCEPT ![cseg].check = PostedFlag]
    /\ posted' = IF cseg = sseg THEN posted \cup {next - 1} ELSE posted
    /\ cpc' = "poll"
    /\ UNCHANGED <<rests, key, cseg, clients, next, serverVars>>

(* The only way out: the client is killed.                                  *)
ClientKilled ==
    /\ cpc # "off"
    /\ cpc' = "off" /\ cseg' = 0
    /\ UNCHANGED <<segs, rests, key, clients, next, serverVars, posted>>

Client == ClientSet \/ ClientPoll \/ ClientFill1 \/ ClientFill2 \/ ClientPost

-----------------------------------------------------------------------------
(* The server                                                               *)

(* shmget and shmat, and fopen, which empties the file.                     *)
ServerStart ==
    /\ spc = "off" /\ servers < MaxServers
    /\ ShmGet(ServerSize)
    /\ sseg' = key'
    /\ servers' = servers + 1
    /\ out' = <<>> /\ outRests' = <<>> /\ posted' = {}
    /\ spc' = "poll"
    /\ UNCHANGED <<clientVars, half>>

(* perror and exit(1).                                                      *)
ServerStartFails ==
    /\ spc = "off" /\ servers < MaxServers
    /\ key # 0 /\ ~Fits(ServerSize)
    /\ servers' = servers + 1
    /\ UNCHANGED <<segs, rests, key, clientVars, spc, sseg, half, out, outRests, posted>>

ServerPoll ==
    /\ spc = "poll" /\ segs[sseg].check = 0
    /\ Len(out) < MaxOut
    /\ spc' = "copy1"
    /\ UNCHANGED <<segs, rests, key, clientVars, sseg, servers, half, out, outRests, posted>>

ServerCopy1 ==
    /\ spc = "copy1"
    /\ half' = segs[sseg].data[1]
    /\ spc' = "copy2"
    /\ UNCHANGED <<segs, rests, key, clientVars, sseg, servers, out, outRests, posted>>

(* fwrite of the block; it may return 0, with the disk full, and then the   *)
(* loop is left after the store.                                            *)
ServerCopy2 ==
    /\ spc = "copy2"
    /\ \/ /\ out' = Append(out, <<half, segs[sseg].data[2]>>) /\ outRests' = Append(outRests, rests[sseg])
          /\ spc' = "ack"
       \/ UNCHANGED <<out, outRests>> /\ spc' = "lastack"
    /\ half' = 0
    /\ UNCHANGED <<segs, rests, key, clientVars, sseg, servers, posted>>

ServerAck ==
    /\ spc \in {"ack", "lastack"}
    /\ segs' = [segs EXCEPT ![sseg].check = 1]
    /\ spc' = IF spc = "ack" THEN "poll" ELSE "remove"
    /\ UNCHANGED <<rests, key, clientVars, sseg, servers, half, out, outRests, posted>>

(* shmdt and IPC_RMID: the key is free, who is attached stays attached.     *)
ServerRemove ==
    /\ spc = "remove"
    /\ key' = IF key = sseg THEN 0 ELSE key
    /\ spc' = "off" /\ sseg' = 0
    /\ UNCHANGED <<segs, rests, clientVars, servers, half, out, outRests, posted>>

ServerKilled ==
    /\ spc # "off"
    /\ spc' = "off" /\ sseg' = 0 /\ half' = 0
    /\ UNCHANGED <<segs, rests, key, clientVars, servers, out, outRests, posted>>

Server == ServerPoll \/ ServerCopy1 \/ ServerCopy2 \/ ServerAck \/ ServerRemove

-----------------------------------------------------------------------------

Next ==
    \/ Client \/ ClientStart \/ ClientKilled
    \/ Server \/ ServerStart \/ ServerStartFails \/ ServerKilled

Spec == Init /\ [][Next]_vars

(* Both programs run; nobody needs to launch or kill them.                  *)
FairSpec == Spec /\ WF_vars(Client) /\ WF_vars(Server)

-----------------------------------------------------------------------------
(* Properties                                                               *)

(* The server's file never goes back: each half of a block is at least as   *)
(* late in the client's file, or from as late a launch, as the one before.  *)
InOrder ==
    \A i \in 1 .. Len(out) - 1, h \in {1, 2} : out[i][h] <= out[i + 1][h]

(* What makes it so: next never goes back, no block in memory is later than *)
(* it, and what the server has copied is no later than what is in memory.   *)
(* Together with that a server only ever has a segment that is big enough,  *)
(* and room in its bound while it copies.                                   *)
BlocksBehind ==
    /\ next \in 1 .. LastBlock + 1
    /\ \A i \in 1 .. Len(segs), h \in {1, 2} :
          segs[i].data[h] <= next /\ segs[i].data[h] <= LastBlock

CopiedBehind ==
    /\ sseg # 0 /\ out # <<>> =>
          \A h \in {1, 2} : out[Len(out)][h] <= segs[sseg].data[h]
    /\ spc = "copy2" =>
          half <= segs[sseg].data[1] /\ (out # <<>> => out[Len(out)][1] <= half)

ServerFits ==
    /\ sseg # 0 => segs[sseg].size = ServerSize
    /\ spc \in {"copy1", "copy2"} => Len(out) < MaxOut

FlowOK == TypeOK /\ BlocksBehind /\ CopiedBehind /\ ServerFits /\ InOrder

(* Only a short last block leaves the rest of another one behind it.        *)
EndOfFile(b) == Short /\ \E k \in 1 .. MaxClients : b = k * Blocks

RestOK ==
    /\ rests \in Seq(BlockIds) /\ Len(rests) = Len(segs)
    /\ outRests \in Seq(BlockIds) /\ Len(outRests) = Len(out)
    /\ \A i \in 1 .. Len(segs) : rests[i] = segs[i].data[2] \/ EndOfFile(segs[i].data[2])
    /\ \A i \in 1 .. Len(out) : outRests[i] = out[i][2] \/ EndOfFile(out[i][2])

Inductive == FlowOK /\ RestOK

(* A block in the server's file whose parts are of different fills can only *)
(* come from the one copy a launch of the client interrupts with its store  *)
(* before the loop: afterwards the flag keeps fill and copy apart.  The     *)
(* exception is the last block of the client's file if it is short: the     *)
(* bytes behind it are those of an earlier block.                           *)
TornBlocks ==
    {i \in 1 .. Len(out) : \/ out[i][1] # out[i][2]
                          \/ (outRests[i] # out[i][2] /\ ~EndOfFile(out[i][2]))}

TornBound == Cardinality(TornBlocks) <= clients

(* The same store makes the server acknowledge a block it has not read: of  *)
(* the blocks posted to a server and followed by a later one in its file,   *)
(* each launch of the client loses at most one.                             *)
LostBlocks ==
    {b \in posted : /\ \E i \in 1 .. Len(out) : out[i][1] > b
                    /\ \A i \in 1 .. Len(out) : b \notin {out[i][1], out[i][2]}}

LostBound == Cardinality(LostBlocks) <= clients

(* When the client is launched first it makes a segment that is too small   *)
(* for the server, and no later launch of either program repairs that.      *)
ClientFirstLocksOut ==
    [][key # 0 /\ segs[key].size = ClientSize => key' = key /\ sseg' \in {sseg, 0}]_vars

(* The two polling loops never wait for each other: as long as both run on  *)
(* one segment the server's file grows, up to its bound.                    *)
Exchanging == cpc # "off" /\ spc # "off" /\ cseg = sseg

NeverStuck == Exchanging ~> ~Exchanging \/ Len(out) = MaxOut

(* server.c says of the flag: "check is 0 means that no data has arrived in *)
(* the shared memory".                                                      *)
ZeroMeansNoData ==
    sseg # 0 /\ segs[sseg].check = 0
        => segs[sseg].data \in ToSet(out) \cup {<<0, 0>>}

=============================================================================
