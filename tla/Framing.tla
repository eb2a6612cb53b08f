------------------------------ MODULE Framing ------------------------------
(***************************************************************************)
(* radio2/src/radio.c: packets sent as frames of symbols, and the receiver *)
(* that finds frames in what it hears.  The line holds what was sent and   *)
(* is not read yet; a frame may be damaged or cut short on its way.        *)
(* The receiver is the loop of serial.c, which waits for the start of a    *)
(* frame, reads it, and may run out of time in between.                    *)
(***************************************************************************)
EXTENDS Codec, FiniteSets, FiniteSetsExt

CONSTANTS
    Packets,   \* bound: what is sent, each packet once
    MTU,       \* RADIO_MTU
    Reads,     \* bound: the most symbols that have arrived for a read
    Noise,     \* bound: what a damaged symbol may turn into
    MaxDamage  \* bound: frames damaged

ASSUME PacketAssumption ==
    \A p \in Packets : Len(p) \in 1 .. MTU /\ \A i \in DOMAIN p : p[i] \in 0 .. 255
ASSUME DamageAssumption ==
    Noise \subseteq -4 .. 127 /\ MaxDamage \in Nat /\ Reads \subseteq Nat \ {0}

VARIABLES
    line,     \* symbols on their way
    sent,     \* the packets sent, in order
    damaged,  \* how many of their frames were damaged
    pc,       \* "wait" in radio_wait, "recv" in radio_recv; or how it ended there:
              \* "overrun" past packet_buffer, "failed" in packet_new's assert
    buffer,   \* recv_buffer, up to n
    received, \* the packets radio_recv returned, in order
    alone     \* the packet, if any, sent undamaged to a silent and idle receiver

vars == <<line, sent, damaged, pc, buffer, received, alone>>

PREAMBLE_LEN == 3
UARTSYNC_LEN == 2
EPILOGUE_LEN == 3
MAX_FRAME == ((MTU + 6) * 8) \div 7 + PREAMBLE_LEN + UARTSYNC_LEN + EPILOGUE_LEN
CRC16_LEN == 2
PACKET_BUFFER_LEN == MTU + CRC16_LEN

None == <<>>

Repeated(symbol, n) == [i \in 1 .. n |-> symbol]

\* radio_send, up to its loop of writes
Frame(p) ==
    Repeated(SymbolStart, PREAMBLE_LEN) \o Repeated(SymbolSync, UARTSYNC_LEN)
        \o bytes_to_symbols(crc16_set(p)) \o Repeated(SymbolEnd, EPILOGUE_LEN)

Init ==
    /\ line = <<>>
    /\ sent = <<>>
    /\ damaged = 0
    /\ pc = "wait"
    /\ buffer = <<>>
    /\ received = <<>>
    /\ alone = None

\* what the receiver does after an overrun is undefined
Running == pc \in {"wait", "recv"}

Send(p) ==
    /\ Running
    /\ ~Contains(sent, p)
    /\ line' = line \o Frame(p)
    /\ sent' = Append(sent, p)
    /\ alone' = IF line = <<>> /\ pc = "wait" THEN p ELSE None
    /\ UNCHANGED <<damaged, pc, buffer, received>>

\* the same, when symbol i of the frame turns into another, or is lost, alone or with the rest
SendThroughNoise(p) ==
    /\ Running
    /\ ~Contains(sent, p)
    /\ damaged < MaxDamage
    /\ \E i \in 1 .. Len(Frame(p)) :
          \/ \E s \in Noise \ {Frame(p)[i]} : line' = line \o ReplaceAt(Frame(p), i, s)
          \/ line' = line \o RemoveAt(Frame(p), i)
          \/ line' = line \o SubSeq(Frame(p), 1, i - 1)
    /\ sent' = Append(sent, p)
    /\ damaged' = damaged + 1
    /\ alone' = None
    /\ UNCHANGED <<pc, buffer, received>>

\* one turn of the loop of radio_wait
Wait ==
    /\ pc = "wait"
    /\ line # <<>>
    /\ line' = Tail(line)
    /\ pc' = IF Head(line) = SymbolStart THEN "recv" ELSE "wait"
    /\ buffer' = <<>>
    /\ UNCHANGED <<sent, damaged, received, alone>>

-----------------------------------------------------------------------------
\* mutant: the rest of the preamble is decoded as well
FirstValidOne(symbols) == 1

\* the offset of the first valid symbol, past the end when there is none
FirstValid(symbols) ==
    Min({i \in DOMAIN symbols : symbol_valid(symbols[i])} \union {Len(symbols) + 1})

\* the bytes of a whole frame, with their check sum, however many they are
Decoded(symbols) ==
    symbols_to_bytes(SubSeq(symbols, FirstValid(symbols), Len(symbols)))

\* mutant: as if the buffer were empty at every read
RoomAlways(n) == MAX_FRAME

\* how many symbols may be read into the buffer
Room(n) == MAX_FRAME - n

(***************************************************************************)
(* What becomes of the bytes: symbols_to_bytes writes them without looking *)
(* at the size of packet_buffer ("May buffer overrrun", symbols.c:61), and *)
(* a good check sum of nothing makes a packet that packet_new refuses.     *)
(***************************************************************************)
Returned(bytes) ==
    CASE Len(bytes) > PACKET_BUFFER_LEN -> pc' = "overrun" /\ UNCHANGED received
      [] Len(bytes) <= PACKET_BUFFER_LEN /\ ~crc16_check(bytes) ->
            pc' = "wait" /\ UNCHANGED received
      [] Len(bytes) = CRC16_LEN /\ crc16_check(bytes) ->
            pc' = "failed" /\ UNCHANGED received
      [] OTHER ->
            /\ pc' = "wait"
            /\ received' = Append(received, SubSeq(bytes, 1, Len(bytes) - CRC16_LEN))

(***************************************************************************)
(* One turn of the loop of radio_recv, when r more symbols, or all of the  *)
(* line, have arrived.  With the end among them the frame is decoded, and  *)
(* what was read after it is lost; a full recv_buffer is given up.         *)
(***************************************************************************)
Recv(r) ==
    LET k == Min({r, Len(line), Room(Len(buffer))})
        got == SubSeq(line, 1, k)
        end == SelectInSeq(got, LAMBDA s : s = SymbolEnd)
    IN  /\ pc = "recv"
        /\ line # <<>>
        /\ line' = SubSeq(line, k + 1, Len(line))
        /\ IF end > 0
             THEN /\ buffer' = <<>>
                  /\ Returned(Decoded(buffer \o SubSeq(got, 1, end - 1)))
             ELSE /\ buffer' = IF Len(buffer) + k = MAX_FRAME THEN <<>> ELSE buffer \o got
                  /\ pc' = IF Len(buffer) + k = MAX_FRAME THEN "wait" ELSE "recv"
                  /\ UNCHANGED received
        /\ UNCHANGED <<sent, damaged, alone>>

\* the time is up, for the node's own timer: what was read is forgotten
Timeout ==
    /\ pc = "recv"
    /\ pc' = "wait"
    /\ buffer' = <<>>
    /\ alone' = None
    /\ UNCHANGED <<line, sent, damaged, received>>

Next ==
    \/ \E p \in Packets : Send(p)
    \/ \E p \in Packets : SendThroughNoise(p)
    \/ Wait
    \/ \E r \in Reads : Recv(r)
    \/ Timeout

Spec == Init /\ [][Next]_vars

-----------------------------------------------------------------------------
(***************************************************************************)
(* No read goes past the end of recv_buffer, whatever runs together in it  *)
(* (radio.c:142-151).  What is sent stays within packet_buffer and is no   *)
(* empty packet, as long as no frame is damaged: a frame that is may do    *)
(* either (radio.c:181-183).                                               *)
(***************************************************************************)
BoundsKept ==
    /\ Len(buffer) < MAX_FRAME
    /\ ~Running => damaged > 0

(***************************************************************************)
(* What radio_recv returns are packets that were sent, each once and in    *)
(* the order they were sent in (radio.c:174-185), though time-outs cut     *)
(* frames anywhere, and one symbol of MaxDamage frames is replaced or      *)
(* lost, or their rest is, so that they run into the next.  Of what        *)
(* follows an overrun of packet_buffer nothing is said.                    *)
(***************************************************************************)
ReceivedInOrder ==
    \E f \in [DOMAIN received -> DOMAIN sent] :
        /\ \A i \in DOMAIN received : received[i] = sent[f[i]]
        /\ \A i, j \in DOMAIN received : i < j => f[i] < f[j]

(***************************************************************************)
(* A packet sent undamaged into silence, to a receiver that waits and has  *)
(* the time, is received, however its symbols are shared out among reads.  *)
(***************************************************************************)
AloneReceived ==
    alone # None /\ line = <<>> /\ pc = "wait" => Contains(received, alone)
=============================================================================
