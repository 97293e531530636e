-------------------------------- MODULE Wire --------------------------------
(***************************************************************************)
(* The download exchange on one TCP connection, byte by byte: the client  *)
(* (src/client/src/socket.cc: the constructor, initDownload,              *)
(* downloadChunk, genericDownload) and the server's download session      *)
(* (src/server/src/comm/services.hpp: ServiceDispatcher::Submit,         *)
(* ClientDownload::receive_ and flush_, with restoreShareFile handing it  *)
(* the share file as a sequence of packet payloads).                      *)
(*                                                                         *)
(* An int32 or uint32 is IntWidth bytes of Radix values, little-endian.   *)
(* Each direction is an in-order byte sequence.  The server reads with    *)
(* read_n, which returns only when every byte asked for has come, so the  *)
(* client's bytes are read whole.  The client reads with recv, which      *)
(* returns as soon as any byte has come: TCP delivers the server's bytes  *)
(* in segments of any length (Deliver), so a recv may return fewer bytes  *)
(* than asked.  After the server closes and every byte has been read,     *)
(* recv returns 0.                                                         *)
(***************************************************************************)
EXTENDS Integers, Sequences, SequencesExt

CONSTANTS
    Radix,      \* values of a byte (256)
    IntWidth,   \* bytes of an int32_t or uint32_t (4)
    UserId,     \* the client's user id
    Name,       \* the full file name, a sequence of bytes
    Packets     \* the share file as restoreShareFile flushes it: the
                \* payload of each flush_, a sequence of bytes

Bytes == 0..Radix - 1

ASSUME /\ Radix \in Nat \ {0, 1} /\ IntWidth \in Nat \ {0}
       /\ UserId \in Nat /\ Name \in Seq(Bytes)
       /\ Packets \in Seq(Seq(Bytes))

\* indicator_e values (def/struct.hpp).
DOWNLOAD == -7
RESP_DOWNLOAD == -5

\* An integer as it is laid out in memory and on the wire: two's
\* complement modulo Radix^IntWidth, least significant byte first.
Enc(v) == [i \in 1..IntWidth |-> ((v % Radix^IntWidth) \div Radix^(i - 1)) % Radix]
\* The uint32_t read back from IntWidth bytes.
Dec(bs) == LET f[i \in 0..Len(bs)] == IF i = 0 THEN 0 ELSE f[i - 1] + bs[i] * Radix^(i - 1)
           IN f[Len(bs)]

VARIABLES
    c2s,        \* bytes the client has sent
    srd,        \* bytes of c2s the server has read
    spc,        \* server session: "submit", "receive", "restore", "closed"
    flushed,    \* packets flush_ has written
    s2c,        \* bytes the server has written
    fin,        \* the server's socket is closed (the FIN follows s2c)
    arrived,    \* bytes of s2c that have reached the client
    crd,        \* bytes of s2c the client has read
    cpc,        \* client: "connect", "request", "ind", "size", "body", "done"
    need,       \* genericDownload's rawSize (downloadChunk's readSize)
    chunk,      \* bytes genericDownload has received into raw
    chunks      \* the chunks downloadChunk has returned (history)

vars == <<c2s, srd, spc, flushed, s2c, fin, arrived, crd, cpc, need, chunk, chunks>>
server == <<srd, spc, flushed, s2c, fin>>
client == <<c2s, crd, cpc, need, chunk, chunks>>

Init ==
    /\ c2s = <<>> /\ srd = 0 /\ spc = "submit" /\ flushed = 0
    /\ s2c = <<>> /\ fin = FALSE /\ arrived = 0 /\ crd = 0
    /\ cpc = "connect" /\ need = 0 /\ chunk = <<>> /\ chunks = <<>>

-----------------------------------------------------------------------------
(* The server's download session *)

\* read_n of n bytes: blocks until they have all been sent.
Unread == Len(c2s) - srd
ReadN(n) == SubSeq(c2s, srd + 1, srd + n)

\* Submit reads the user id and the indicator; DOWNLOAD dispatches to
\* ClientDownload.  (The client here sends only a download request.)
Submit ==
    /\ spc = "submit"
    /\ Unread >= 2 * IntWidth
    /\ Dec(SubSeq(ReadN(2 * IntWidth), IntWidth + 1, 2 * IntWidth)) = Dec(Enc(DOWNLOAD))
    /\ srd' = srd + 2 * IntWidth
    /\ spc' = "receive"
    /\ UNCHANGED <<flushed, s2c, fin, arrived>> /\ UNCHANGED client

\* ClientDownload::receive_: the name size, then the name.
Receive ==
    LET size == Dec(ReadN(IntWidth))
    IN /\ spc = "receive"
       /\ Unread >= IntWidth /\ Unread >= IntWidth + size
       /\ srd' = srd + IntWidth + size
       /\ spc' = "restore"
       /\ UNCHANGED <<flushed, s2c, fin, arrived>> /\ UNCHANGED client

\* flush_(dataSize): the header and the payload are written with one
\* write_n, which returns once all of it is in the socket.
Flush ==
    LET p == Packets[flushed + 1]
    IN /\ spc = "restore"
       /\ flushed < Len(Packets)
       /\ s2c' = s2c \o Enc(RESP_DOWNLOAD) \o Enc(Len(p)) \o p
       /\ flushed' = flushed + 1
       /\ UNCHANGED <<srd, spc, fin, arrived>> /\ UNCHANGED client

\* restoreShareFile returns, Submit returns and the pool task's socket
\* is destroyed: the connection is closed.
Finish ==
    /\ spc = "restore"
    /\ flushed = Len(Packets)
    /\ spc' = "closed" /\ fin' = TRUE
    /\ UNCHANGED <<srd, flushed, s2c, arrived>> /\ UNCHANGED client

\* restoreShareFile throws between two flushes (no such share index); the
\* task catches the exception and the socket is closed.
Abort ==
    /\ spc = "restore"
    /\ flushed < Len(Packets)
    /\ spc' = "closed" /\ fin' = TRUE
    /\ UNCHANGED <<srd, flushed, s2c, arrived>> /\ UNCHANGED client

\* TCP hands the next segment of the server's bytes to the client.
Deliver ==
    /\ arrived < Len(s2c)
    /\ \E n \in arrived + 1..Len(s2c) : arrived' = n
    /\ UNCHANGED server /\ UNCHANGED client

-----------------------------------------------------------------------------
(* The client *)

\* Socket(ip, port, userID, 1) sends the user id after connecting.
Connect ==
    /\ cpc = "connect"
    /\ c2s' = Enc(UserId)
    /\ cpc' = "request"
    /\ UNCHANGED <<crd, need, chunk, chunks>> /\ UNCHANGED <<server, arrived>>

\* initDownload: the indicator, the name size and the name, each sent.
InitDownload ==
    /\ cpc = "request"
    /\ c2s' = c2s \o Enc(DOWNLOAD) \o Enc(Len(Name)) \o Name
    /\ cpc' = "ind"
    /\ UNCHANGED <<crd, need, chunk, chunks>> /\ UNCHANGED <<server, arrived>>

Avail == arrived - crd
Got(k) == SubSeq(s2c, crd + 1, crd + k)
\* recv of up to n bytes returns at once what has arrived, at most n.
Recvd(n) == IF Avail < n THEN Avail ELSE n
\* recv returns 0: the server closed and everything has been read.
EndOfStream == fin /\ arrived = Len(s2c) /\ Avail = 0

\* downloadChunk, the indicator's recv.  A return of 0 sets retSize to 0,
\* and the client stops downloading.
RecvIndicator ==
    /\ cpc = "ind"
    /\ \/ /\ Avail > 0
          /\ crd' = crd + Recvd(IntWidth)
          /\ cpc' = "size"
       \/ /\ EndOfStream
          /\ cpc' = "done" /\ UNCHANGED crd
    /\ UNCHANGED <<c2s, need, chunk, chunks>> /\ UNCHANGED <<server, arrived>>

\* downloadChunk, the size's recv into the uninitialised readSize: the
\* bytes recv did not fill keep whatever the stack held.  A return of 0
\* is not checked here.  Then genericDownload(raw, readSize) starts.
RecvSize ==
    /\ cpc = "size"
    /\ \/ /\ Avail > 0
          /\ LET k == Recvd(IntWidth)
             IN /\ crd' = crd + k
                /\ \E rest \in [1..IntWidth -> Bytes] :
                     need' = Dec(Got(k) \o SubSeq(rest, k + 1, IntWidth))
       \/ /\ EndOfStream
          /\ \E rest \in [1..IntWidth -> Bytes] : need' = Dec(rest)
          /\ UNCHANGED crd
    /\ cpc' = "body" /\ chunk' = <<>>
    /\ UNCHANGED <<c2s, chunks>> /\ UNCHANGED <<server, arrived>>

\* genericDownload: recv until rawSize bytes have come; only -1 ends the
\* loop early.  When recv returns 0 the total stays and the loop spins:
\* no step changes anything.  Once the total is reached, downloadChunk
\* returns retSize = readSize; a chunk of size 0 also stops the client.
RecvBody ==
    /\ cpc = "body"
    /\ \/ /\ Len(chunk) < need /\ Avail > 0
          /\ LET k == Recvd(need - Len(chunk))
             IN /\ crd' = crd + k
                /\ chunk' = chunk \o Got(k)
          /\ UNCHANGED <<cpc, chunks>>
       \/ /\ Len(chunk) = need
          /\ chunks' = Append(chunks, chunk)
          /\ cpc' = IF need = 0 THEN "done" ELSE "ind"
          /\ UNCHANGED <<crd, chunk>>
    /\ UNCHANGED <<c2s, need>> /\ UNCHANGED <<server, arrived>>

Next ==
    \/ Submit \/ Receive \/ Flush \/ Finish \/ Abort \/ Deliver
    \/ Connect \/ InitDownload \/ RecvIndicator \/ RecvSize \/ RecvBody

\* The pool thread runs the session, TCP delivers what was written, and
\* the client keeps calling recv.  A throw (Abort) is not forced.
Fairness ==
    /\ WF_vars(Submit) /\ WF_vars(Receive) /\ WF_vars(Flush) /\ WF_vars(Finish)
    /\ WF_vars(Deliver)
    /\ WF_vars(Connect) /\ WF_vars(InitDownload)
    /\ WF_vars(RecvIndicator) /\ WF_vars(RecvSize) /\ WF_vars(RecvBody)

Spec == Init /\ [][Next]_vars /\ Fairness

-----------------------------------------------------------------------------
(* Properties *)

\* A download always ends: once the server has written its packets and
\* closed the socket, the client's downloadChunk calls end with retSize 0.
\* The client reads the indicator and the size with one recv each and
\* genericDownload treats a recv of 0 as progress.
DownloadEnds == <>(cpc = "done")

=============================================================================
