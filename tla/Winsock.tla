------------------------------ MODULE Winsock ------------------------------
(***************************************************************************)
(* The part of Windows the server stands on, as far as the server uses it: *)
(* socket handles, the peers at their other end, overlapped receives and   *)
(* sends, and one I/O completion port.                                     *)
(*                                                                         *)
(* A closed handle may be given out again by the next accept.  A handle    *)
(* that CreateIoCompletionPort has bound to the port carries a completion  *)
(* key, here the session whose pointer was passed; the completions of a    *)
(* handle without a key are lost.  Closing a handle aborts its outstanding *)
(* operations, and each of them still completes, with an error.            *)
(***************************************************************************)
EXTENDS Naturals, Sequences, SequencesExt

CONSTANTS
  Sockets,         \* handles
  Keys,            \* completion keys: the sessions
  Contexts         \* the overlapped structures of sends

NoKey == 0

VARIABLES
  conn,    \* [Sockets -> {"idle", "up", "fin", "rst"}]; "idle": not open
  key,     \* [Sockets -> Keys \cup {NoKey}]
  recvs,   \* [Sockets -> Seq(Keys)]: outstanding receives, by their overlapped
  sends,   \* [Sockets -> Seq(Contexts)]: outstanding sends
  cq       \* the completion packets of the port, a FIFO queue

netVars == <<conn, key, recvs, sends, cq>>

\* A completion packet: the key, the overlapped structure (the session's own
\* IoContext_ for a receive), and the outcome ("zero": no bytes).
RecvPacket == [key : Keys, type : {"RECV_"}, ov : Keys,
               io : {"bytes", "zero", "error"}]
SendPacket == [key : Keys, type : {"SEND_"}, ov : Contexts,
               io : {"bytes", "error"}]
Packets == RecvPacket \cup SendPacket

NetTypeOK ==
  /\ conn \in [Sockets -> {"idle", "up", "fin", "rst"}]
  /\ key \in [Sockets -> Keys \cup {NoKey}]
  /\ recvs \in [Sockets -> Seq(Keys)]
  /\ sends \in [Sockets -> Seq(Contexts)]
  /\ cq \in Seq(Packets)

NetInit ==
  /\ conn = [k \in Sockets |-> "idle"]
  /\ key = [k \in Sockets |-> NoKey]
  /\ recvs = [k \in Sockets |-> <<>>]
  /\ sends = [k \in Sockets |-> <<>>]
  /\ cq = <<>>

----------------------------------------------------------------------------

\* accept hands out a handle of a new connection.
Accepts(k) ==
  /\ conn[k] = "idle"
  /\ conn' = [conn EXCEPT ![k] = "up"]
  /\ UNCHANGED <<key, recvs, sends, cq>>

Open(k) == k \in Sockets /\ conn[k] # "idle"

\* A new operation on the handle is taken; otherwise the call fails at once.
Usable(k) == k \in Sockets /\ conn[k] \in {"up", "fin"}

\* CreateIoCompletionPort binds an open handle.
Binds(k, session) ==
  /\ Open(k)
  /\ key' = [key EXCEPT ![k] = session]
  /\ UNCHANGED <<conn, recvs, sends, cq>>

\* WSARecv: the receive is pending; its overlapped is the session's own.
PostsRecv(k, session) ==
  /\ Usable(k)
  /\ recvs' = [recvs EXCEPT ![k] = Append(@, session)]
  /\ UNCHANGED <<conn, key, sends, cq>>

Packet(k, type, ov, io) == [key |-> key[k], type |-> type, ov |-> ov, io |-> io]

\* The packets that handle k adds to the port: none when it has no key.
Queued(k, packets) == IF key[k] = NoKey THEN <<>> ELSE packets

\* Every outstanding operation of handle k, completed with an error.
Aborted(k) ==
  [i \in 1 .. Len(recvs[k]) |-> Packet(k, "RECV_", recvs[k][i], "error")] \o
  [i \in 1 .. Len(sends[k]) |-> Packet(k, "SEND_", sends[k][i], "error")]

\* closesocket; nothing happens for a handle that is not open.
CloseSocket(k) ==
  IF Open(k)
  THEN /\ conn' = [conn EXCEPT ![k] = "idle"]
       /\ key' = [key EXCEPT ![k] = NoKey]
       /\ recvs' = [recvs EXCEPT ![k] = <<>>]
       /\ sends' = [sends EXCEPT ![k] = <<>>]
       /\ cq' = cq \o Queued(k, Aborted(k))
  ELSE UNCHANGED netVars

\* The peer ends its side of the connection.
PeerCloses(k) ==
  /\ conn[k] = "up"
  /\ conn' = [conn EXCEPT ![k] = "fin"]
  /\ UNCHANGED <<key, recvs, sends, cq>>

\* The connection breaks.
PeerResets(k) ==
  /\ Usable(k)
  /\ conn' = [conn EXCEPT ![k] = "rst"]
  /\ UNCHANGED <<key, recvs, sends, cq>>

\* The oldest receive of the handle completes.
RecvCompletes(k) ==
  /\ recvs[k] # <<>>
  /\ LET io == CASE conn[k] = "up" -> "bytes"
                 [] conn[k] = "fin" -> "zero"
                 [] OTHER -> "error"
     IN  cq' = cq \o Queued(k, <<Packet(k, "RECV_", Head(recvs[k]), io)>>)
  /\ recvs' = [recvs EXCEPT ![k] = Tail(@)]
  /\ UNCHANGED <<conn, key, sends>>

\* The oldest send of the handle completes.
SendCompletes(k) ==
  /\ sends[k] # <<>>
  /\ LET io == IF conn[k] = "rst" THEN "error" ELSE "bytes"
     IN  cq' = cq \o Queued(k, <<Packet(k, "SEND_", Head(sends[k]), io)>>)
  /\ sends' = [sends EXCEPT ![k] = Tail(@)]
  /\ UNCHANGED <<conn, key, recvs>>

=============================================================================
