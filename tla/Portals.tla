------------------------------- MODULE Portals -------------------------------
(***************************************************************************)
(* The two kernel threads the console service reaches by message:          *)
(* kernel/boot_archive_portal.c, which answers reads of the boot archive,  *)
(* and kernel/console_portal.c, which shows bytes; and the client side of  *)
(* the first, user/lib/boot_archive.c.  The portals outlive the service: a *)
(* service may be killed at any point of a read and replaced.              *)
(*                                                                         *)
(* An endpoint holds one message.  A service is admitted when              *)
(* boot_archive_portal_idle holds, which is what                           *)
(* system_console_service_start waits for.                                 *)
(***************************************************************************)
EXTENDS Integers, Sequences, SequencesExt

CONSTANTS
  Archive,         \* the bytes of the archive
  MaxRead,         \* JCOS_BOOT_ARCHIVE_PORTAL_MAX_READ_BYTES
  Attempts,        \* replies portal_receive_current looks at
  ClientLimit,     \* incarnations of the service
  StartLimit,      \* starts of a portal
  FaultLimit       \* failed creations and releases

VARIABLES portal, slot, client, faults

vars == <<portal, slot, client, faults>>

Nothing == [to |-> 0]

\* What a start creates, in order; the last element makes the thread run.
StartOrder(p) ==
  IF p = "archive"
    THEN <<"request", "reply", "request_receive", "request_transfer", "reply_send", "reply_transfer",
           "thread", "scheduled">>
    ELSE <<"console", "receive", "transfer", "thread", "scheduled">>

Endpoints(p) == IF p = "archive" THEN <<"request", "reply">> ELSE <<"console">>

Absent == [has |-> {}, active |-> FALSE, at |-> "none", held |-> Nothing, starts |-> 0, shown |-> <<>>]
NoClient == [inc |-> 0, phase |-> "dead", size |-> 0, offset |-> 0, count |-> 0, out |-> <<>>,
             attempt |-> 0, printed |-> <<>>]

Init ==
  /\ portal = [p \in {"archive", "console"} |-> Absent]
  /\ slot = [e \in {"request", "reply", "console"} |-> Nothing]
  /\ client = NoClient
  /\ faults = 0

Alive == client.phase /= "dead"

portal_needs_cleanup(p) == portal[p].has /= {} \/ portal[p].active

Active(p) == portal[p].active /\ portal[p].has = ToSet(StartOrder(p)) /\ portal[p].at /= "dead"

\* boot_archive_portal_idle and console_portal_idle: the thread waits for a
\* request and no reply is left over.
Idle(p) ==
  /\ Active(p) /\ portal[p].at = "receive" /\ slot[Endpoints(p)[1]] = Nothing
  /\ p = "archive" => slot["reply"] = Nothing

(***************************************************************************)
(* Life of a portal.                                                       *)
(***************************************************************************)

\* The outcomes of releasing what q holds: the thread may resist termination
\* or destruction, and an endpoint that a client still has a capability for is
\* kept.  What has been released by then stays released.
Releases(q, p) ==
  LET gone == [q EXCEPT !.has = @ \intersect {"thread", "request", "reply", "console"}, !.at = "dead", !.held = Nothing]
      bare == [gone EXCEPT !.has = @ \ {"thread"}]
  IN (IF faults < FaultLimit
        THEN {[q |-> q, drained |-> FALSE, fault |-> 1], [q |-> gone, drained |-> TRUE, fault |-> 1]} ELSE {})
     \union {[q |-> IF Alive THEN bare ELSE [Absent EXCEPT !.starts = q.starts], drained |-> TRUE, fault |-> 0]}

\* Messages left in the endpoints are discarded; what the console portal finds
\* is shown first.
Stopped(p, o) ==
  /\ portal' = [portal EXCEPT ![p] =
       IF o.drained /\ p = "console" /\ slot["console"] /= Nothing
         THEN [o.q EXCEPT !.shown = Append(portal[p].shown, slot["console"].byte)] ELSE o.q]
  /\ slot' = [e \in DOMAIN slot |->
       IF o.drained /\ \E i \in DOMAIN Endpoints(p) : e = Endpoints(p)[i] THEN Nothing ELSE slot[e]]
  /\ faults' = faults + o.fault

portal_stop(p) ==
  /\ portal_needs_cleanup(p)
  /\ \E o \in Releases(portal[p], p) : Stopped(p, o)
  /\ UNCHANGED client

\* A start that fails at its k-th element releases the ones before it.
portal_start(p) ==
  /\ ~portal_needs_cleanup(p) /\ portal[p].starts < StartLimit
  /\ LET full == [Absent EXCEPT !.has = ToSet(StartOrder(p)), !.active = TRUE, !.at = "receive",
                                !.starts = portal[p].starts + 1]
     IN \/ portal' = [portal EXCEPT ![p] = full] /\ UNCHANGED <<slot, faults>>
        \/ /\ faults < FaultLimit
           /\ \E k \in DOMAIN StartOrder(p) :
                LET part == [full EXCEPT !.has = ToSet(SubSeq(StartOrder(p), 1, k - 1)), !.active = FALSE,
                                         !.at = "none"]
                IN \E o \in Releases(part, p) :
                     /\ faults + o.fault < FaultLimit
                     /\ Stopped(p, [o EXCEPT !.fault = @ + 1])
  /\ UNCHANGED client

(***************************************************************************)
(* The archive portal's thread.                                            *)
(***************************************************************************)

pack_bytes(offset, count) == SubSeq(Archive, offset + 1, offset + count)

portal_handle(m) ==
  LET reply == [to |-> m.from, code |-> "INVALID", count |-> 0, offset |-> 0, data |-> <<>>] IN
  CASE m.op = "INFO" /\ m.count = 0 -> [reply EXCEPT !.code = "INFO", !.offset = Len(Archive)]
    [] m.op = "READ" /\ m.count \in 1..MaxRead ->
         IF m.offset >= Len(Archive) \/ m.count > Len(Archive) - m.offset
           THEN [reply EXCEPT !.code = "OUT_OF_RANGE", !.offset = m.offset]
           ELSE [reply EXCEPT !.code = "DATA", !.count = m.count, !.offset = m.offset,
                              !.data = pack_bytes(m.offset, m.count)]
    [] OTHER -> reply

PortalReceive ==
  /\ Active("archive") /\ portal["archive"].at = "receive" /\ slot["request"] /= Nothing
  /\ portal' = [portal EXCEPT !["archive"].at = "reply", !["archive"].held = portal_handle(slot["request"])]
  /\ slot' = [slot EXCEPT !["request"] = Nothing]
  /\ UNCHANGED <<client, faults>>

PortalReply ==
  /\ Active("archive") /\ portal["archive"].at = "reply" /\ slot["reply"] = Nothing
  /\ slot' = [slot EXCEPT !["reply"] = portal["archive"].held]
  /\ portal' = [portal EXCEPT !["archive"].at = "receive", !["archive"].held = Nothing]
  /\ UNCHANGED <<client, faults>>

\* portal_deliver.
PortalDeliver ==
  /\ Active("console") /\ slot["console"] /= Nothing
  /\ portal' = [portal EXCEPT !["console"].shown = Append(@, slot["console"].byte)]
  /\ slot' = [slot EXCEPT !["console"] = Nothing]
  /\ UNCHANGED <<client, faults>>

(***************************************************************************)
(* The client.                                                             *)
(***************************************************************************)

\* Defect: a reply left over in the endpoint is not looked for.
AdmittedWhenActive == Active("archive") /\ portal["archive"].at = "receive"

\* The admission of a new service: both portals are up and the archive portal
\* owes nobody a reply.
Admitted == Idle("archive")

ClientStart ==
  /\ ~Alive /\ client.inc < ClientLimit /\ Admitted /\ Active("console")
  /\ client' = [NoClient EXCEPT !.inc = client.inc + 1, !.phase = "idle"]
  /\ UNCHANGED <<portal, slot, faults>>

\* The service is terminated: a request it has sent stays on its way.
ClientDies ==
  /\ Alive
  /\ client' = [NoClient EXCEPT !.inc = client.inc]
  /\ UNCHANGED <<portal, slot, faults>>

\* jcos_boot_archive_probe asks for the size once.
jcos_boot_archive_probe ==
  /\ client.phase = "idle" /\ client.size = 0
  /\ client' = [client EXCEPT !.phase = "send", !.count = 0, !.attempt = 0]
  /\ UNCHANGED <<portal, slot, faults>>

\* jcos_boot_archive_read, any range inside the archive.
jcos_boot_archive_read ==
  /\ client.phase \in {"idle", "done"} /\ client.size > 0
  /\ \E offset \in 0..(client.size - 1), count \in 1..Len(Archive) :
       /\ count <= client.size - offset
       /\ client' = [client EXCEPT !.phase = "send", !.offset = offset, !.count = count, !.out = <<>>, !.attempt = 0]
  /\ UNCHANGED <<portal, slot, faults>>

Least(a, b) == IF a < b THEN a ELSE b

\* Defect: the last piece is not shortened to what is left.
ChunkOfMax == MaxRead

Chunk == Least(client.count - Len(client.out), MaxRead)

Probing == client.size = 0

\* portal_call: the request for the next piece, once the endpoint has room.
ClientSend ==
  /\ client.phase = "send" /\ slot["request"] = Nothing
  /\ slot' = [slot EXCEPT !["request"] =
       [to |-> -1, from |-> client.inc, op |-> IF Probing THEN "INFO" ELSE "READ",
        count |-> IF Probing THEN 0 ELSE Chunk, offset |-> client.offset + Len(client.out)]]
  /\ client' = [client EXCEPT !.phase = "receive"]
  /\ UNCHANGED <<portal, faults>>

\* A reply of this incarnation: the size, the next piece, or a failure.
Accept(r) ==
  CASE Probing -> IF r.code = "INFO" THEN [client EXCEPT !.phase = "idle", !.size = r.offset]
                  ELSE [client EXCEPT !.phase = "failed"]
    [] r.code = "DATA" /\ r.count = Chunk /\ r.offset = client.offset + Len(client.out) ->
         LET out == client.out \o r.data
         IN [client EXCEPT !.out = out, !.attempt = 0,
                           !.phase = IF Len(out) < client.count THEN "send" ELSE "done"]
    [] OTHER -> [client EXCEPT !.phase = "failed"]

\* portal_receive_current: a reply to a dead incarnation is discarded.
portal_receive_current ==
  /\ client.phase = "receive" /\ slot["reply"] /= Nothing
  /\ slot' = [slot EXCEPT !["reply"] = Nothing]
  /\ client' = CASE slot["reply"].to = client.inc -> Accept(slot["reply"])
                 [] client.attempt + 1 < Attempts -> [client EXCEPT !.attempt = @ + 1]
                 [] OTHER -> [client EXCEPT !.phase = "failed"]
  /\ UNCHANGED <<portal, faults>>

\* portal_write_byte: a message per byte to the console portal.
ClientPrints ==
  /\ client.phase \in {"idle", "done"} /\ slot["console"] = Nothing /\ Active("console")
  /\ Len(client.printed) < 1 /\ Len(portal["console"].shown) < 2
  /\ \E byte \in {"a", "b"} :
       /\ slot' = [slot EXCEPT !["console"] = [to |-> -1, byte |-> byte]]
       /\ client' = [client EXCEPT !.printed = Append(@, byte)]
  /\ UNCHANGED <<portal, faults>>

Next ==
  \/ \E p \in {"archive", "console"} : portal_start(p) \/ portal_stop(p)
  \/ PortalReceive \/ PortalReply \/ PortalDeliver
  \/ ClientStart \/ ClientDies \/ jcos_boot_archive_probe \/ jcos_boot_archive_read
  \/ ClientSend \/ portal_receive_current \/ ClientPrints

Spec == Init /\ [][Next]_vars

(***************************************************************************)
(* Properties.                                                             *)
(***************************************************************************)

\* A read that returns gives exactly the bytes asked for, whatever incarnations
\* were killed in whatever read, and while the portals run none fails.
ReadsAreExact ==
  /\ client.phase = "done" => client.out = pack_bytes(client.offset, client.count)
  /\ client.phase /= "failed"

\* A service that was admitted never meets a reply to one before it.
FirstReplyIsOwn == client.attempt = 0
==============================================================================
