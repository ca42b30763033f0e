------------------------------ MODULE Protocol ------------------------------
(***************************************************************************)
(* The request protocol on the challd socket (spec section 6.1).           *)
(*                                                                         *)
(* Encode is the archive's client, start_container in                      *)
(* src/ctf_archive/src/challd.rs: it builds the whole message and writes   *)
(* it, then waits for the status byte without shutting its write half.     *)
(* The connection task of the daemon (src/challd/src/main.rs, ports.rs)    *)
(* reads the message field by field; each action below is one of its      *)
(* reads.  A read that needs more bytes than were sent waits while the     *)
(* client's write half is open, and fails once it is closed.               *)
(*                                                                         *)
(* An image name is a valid UTF-8 string (a Rust String) of at most 63     *)
(* characters (schema.rs: docker_image varchar(63)); it is modelled as k   *)
(* copies of one character's encoding.  Port entries come from the         *)
(* challenge's port_numbers with from_port = to_port (challenges.rs).      *)
(***************************************************************************)
EXTENDS Naturals, Sequences, SequencesExt

CONSTANTS
  Codes,       \* guest codes (u32)
  Chars,       \* UTF-8 encodings of the characters names are made of
  NameLens,    \* numbers of characters in a name
  PortNums,    \* port numbers (u16)
  PortCounts,  \* numbers of port entries a challenge has
  Clients      \* kinds of client that connect

ASSUME \A g \in Codes : g \in Nat /\ g \div 2^16 < 2^16   \* u32
ASSUME PortNums \subseteq 0..(2^16 - 1)
ASSUME NameLens \subseteq 0..63
ASSUME Clients \subseteq {"archive", "truncated", "corrupt"}

PortTypes == {"tcp", "udp"}

PortEntries == [from : PortNums, to : PortNums, type : PortTypes]

Requests ==
  {[mode |-> m, code |-> IF m = "guest" THEN g ELSE 0,
    name |-> FlattenSeq([i \in 1..k |-> ch]),
    ports |-> [i \in 1..n |-> [from |-> p, to |-> p, type |-> t]]] :
     m \in {"guest", "demo"}, g \in Codes, ch \in Chars, k \in NameLens,
     p \in PortNums, t \in PortTypes, n \in PortCounts}

-----------------------------------------------------------------------------
(* Byte conversions                                                        *)

\* n as little-endian bytes of a w-byte integer (to_le_bytes).
LE(n, w) == [i \in 1..w |-> (n \div 2^(8 * (i - 1))) % 256]

\* A little-endian integer read from bytes (read_u16_le, read_u32_le).
RECURSIVE FromLE(_)
FromLE(bytes) ==
  IF bytes = <<>> THEN 0 ELSE Head(bytes) + 256 * FromLE(Tail(bytes))

\* String::from_utf8 succeeds, for sequences of one- and two-byte forms;
\* a lead byte of a longer form does not occur in Chars.
RECURSIVE Utf8Valid(_)
Utf8Valid(s) ==
  IF s = <<>> THEN TRUE
  ELSE IF Head(s) < 128 THEN Utf8Valid(Tail(s))
  ELSE /\ Head(s) \in 194..223
       /\ Len(s) >= 2
       /\ s[2] \in 128..191
       /\ Utf8Valid(SubSeq(s, 3, Len(s)))

ASSUME \A ch \in Chars : Utf8Valid(ch) /\ \A b \in ToSet(ch) : b < 224

-----------------------------------------------------------------------------
(* The archive's encoder                                                   *)

ModeId(m) == IF m = "guest" THEN 0 ELSE 1

PortTypeId(t) == IF t = "tcp" THEN 0 ELSE 1

PortBytes(e) == LE(e.from, 2) \o LE(e.to, 2) \o <<PortTypeId(e.type)>>

\* The five-byte entries one after another (the loop over port_mappings).
PortTable(ps) ==
  [j \in 1..(5 * Len(ps)) |-> PortBytes(ps[((j - 1) \div 5) + 1])[((j - 1) % 5) + 1]]

\* start_container: the length fields are pushed `as u8`.
Encode(r) ==
  <<ModeId(r.mode)>>
  \o (IF r.mode = "guest" THEN LE(r.code, 4) ELSE <<>>)
  \o <<Len(r.name) % 256>> \o r.name
  \o <<Len(r.ports) % 256>>
  \o PortTable(r.ports)

-----------------------------------------------------------------------------
(* The daemon's connection task                                            *)

VARIABLES
  client,  \* the kind of client on the connection
  req,     \* the request the client encoded
  sent,    \* the bytes the client wrote
  open,    \* the client's write half is still open (no EOF)
  pos,     \* bytes of sent consumed so far
  stage,   \* the read the task is at, or its outcome
  got      \* the fields parsed so far

vars == <<client, req, sent, open, pos, stage, got>>

\* Local clients other than the archive (socket mode 720, group challd):
\* one that stops part-way and closes (spec 6.2 scenario 4), and one that
\* sends a bad mode byte or a bad port type (scenario 5).
Truncations(r) ==
  LET m == Encode(r) IN {SubSeq(m, 1, k) : k \in 0..(Len(m) - 1)}

Corruptions(r) ==
  LET m == Encode(r) IN
    {[m EXCEPT ![1] = 2]} \cup (IF r.ports = <<>> THEN {} ELSE {[m EXCEPT ![Len(m)] = 2]})

Avail(k) == pos + k <= Len(sent)

Take_(k) == SubSeq(sent, pos + 1, pos + k)

Outcomes == {"ok", "malformed", "invalid_port", "hang"}

Init ==
  /\ client \in Clients
  /\ req \in Requests
  /\ CASE client = "archive" -> sent = Encode(req) /\ open = TRUE
       [] client = "truncated" -> sent \in Truncations(req) /\ open = FALSE
       [] client = "corrupt" -> sent \in Corruptions(req) /\ open = FALSE
  /\ pos = 0
  /\ stage = "mode"
  /\ got = [mode |-> "none", code |-> 0, len |-> 0, name |-> <<>>,
            count |-> 0, ports |-> <<>>]

Consume(k) == pos' = pos + k

\* A read that finds too few bytes: with the writer open it waits forever;
\* at EOF handle_error! answers RESULT_MALFORMED_REQUEST, except inside
\* PortMappings::read, whose `.ok()?` makes it RESULT_INVALID_PORT.
Starve ==
  /\ \/ stage \in {"mode", "len", "count"} /\ ~Avail(1)
     \/ stage = "code" /\ ~Avail(4)
     \/ stage = "name" /\ ~Avail(got.len)
     \/ stage = "ports" /\ ~Avail(5)
  /\ stage' = IF open THEN "hang"
              ELSE IF stage \in {"count", "ports"} THEN "invalid_port"
              ELSE "malformed"
  /\ UNCHANGED <<client, req, sent, open, pos, got>>

\* read_u8 of the mode: 0 guest, 1 demo, anything else RESULT_MALFORMED.
ReadMode ==
  /\ stage = "mode"
  /\ Avail(1)
  /\ Consume(1)
  /\ LET b == sent[pos + 1] IN
       /\ stage' = CASE b = 0 -> "code" [] b = 1 -> "len" [] OTHER -> "malformed"
       /\ got' = [got EXCEPT !.mode = CASE b = 0 -> "guest"
                                        [] b = 1 -> "demo"
                                        [] OTHER -> "none"]
  /\ UNCHANGED <<client, req, sent, open>>

ReadGuestCode ==
  /\ stage = "code"
  /\ Avail(4)
  /\ Consume(4)
  /\ stage' = "len"
  /\ got' = [got EXCEPT !.code = FromLE(Take_(4))]
  /\ UNCHANGED <<client, req, sent, open>>

ReadNameLen ==
  /\ stage = "len"
  /\ Avail(1)
  /\ Consume(1)
  /\ stage' = "name"
  /\ got' = [got EXCEPT !.len = sent[pos + 1]]
  /\ UNCHANGED <<client, req, sent, open>>

\* read_exact of len bytes, then String::from_utf8.
ReadName ==
  /\ stage = "name"
  /\ Avail(got.len)
  /\ Consume(got.len)
  /\ stage' = IF Utf8Valid(Take_(got.len)) THEN "count" ELSE "malformed"
  /\ got' = [got EXCEPT !.name = Take_(got.len)]
  /\ UNCHANGED <<client, req, sent, open>>

\* Mutant: the bound on the number of mappings is checked as > 10.
ReadPortCountLoose ==
  /\ stage = "count"
  /\ Avail(1)
  /\ Consume(1)
  /\ LET n == sent[pos + 1] IN
       /\ stage' = CASE n > 10 -> "invalid_port" [] n = 0 -> "ok" [] OTHER -> "ports"
       /\ got' = IF stage' = "invalid_port" THEN got ELSE [got EXCEPT !.count = n]
  /\ UNCHANGED <<client, req, sent, open>>

\* Mutant: the bound on the number of mappings is checked as >= 9.
ReadPortCountTight ==
  /\ stage = "count"
  /\ Avail(1)
  /\ Consume(1)
  /\ LET n == sent[pos + 1] IN
       /\ stage' = CASE n >= 9 -> "invalid_port" [] n = 0 -> "ok" [] OTHER -> "ports"
       /\ got' = IF stage' = "invalid_port" THEN got ELSE [got EXCEPT !.count = n]
  /\ UNCHANGED <<client, req, sent, open>>

\* PortMappings::read: the count byte, rejected when >= 10.
ReadPortCount ==
  /\ stage = "count"
  /\ Avail(1)
  /\ Consume(1)
  /\ LET n == sent[pos + 1] IN
       /\ stage' = CASE n >= 10 -> "invalid_port" [] n = 0 -> "ok" [] OTHER -> "ports"
       /\ got' = IF stage' = "invalid_port" THEN got ELSE [got EXCEPT !.count = n]
  /\ UNCHANGED <<client, req, sent, open>>

\* Mutant: the ports are read big-endian (read_u16 for read_u16_le).
ReadPortBigEndian ==
  /\ stage = "ports"
  /\ Avail(5)
  /\ Consume(5)
  /\ LET e == Take_(5)
         t == e[5]
         entry == [from |-> 256 * e[1] + e[2], to |-> 256 * e[3] + e[4],
                   type |-> IF t = 0 THEN "tcp" ELSE "udp"]
     IN /\ stage' = CASE t \notin {0, 1} -> "invalid_port"
                      [] Len(got.ports) + 1 = got.count -> "ok"
                      [] OTHER -> "ports"
        /\ got' = [got EXCEPT !.ports = Append(@, entry)]
  /\ UNCHANGED <<client, req, sent, open>>

\* One port entry: from_port, to_port (u16 LE), port_type 0 tcp / 1 udp.
ReadPort ==
  /\ stage = "ports"
  /\ Avail(5)
  /\ Consume(5)
  /\ LET e == Take_(5)
         t == e[5]
         entry == [from |-> FromLE(SubSeq(e, 1, 2)),
                   to |-> FromLE(SubSeq(e, 3, 4)),
                   type |-> IF t = 0 THEN "tcp" ELSE "udp"]
     IN /\ stage' = CASE t \notin {0, 1} -> "invalid_port"
                      [] Len(got.ports) + 1 = got.count -> "ok"
                      [] OTHER -> "ports"
        /\ got' = [got EXCEPT !.ports = Append(@, entry)]
  /\ UNCHANGED <<client, req, sent, open>>

Next ==
  \/ ReadMode \/ ReadGuestCode \/ ReadNameLen \/ ReadName
  \/ ReadPortCount \/ ReadPort \/ Starve

Spec == Init /\ [][Next]_vars

-----------------------------------------------------------------------------
(* Properties                                                              *)

TypeOK ==
  /\ client \in Clients
  /\ req \in Requests
  /\ sent \in Seq(0..255)
  /\ open \in BOOLEAN
  /\ pos \in 0..Len(sent)
  /\ stage \in {"mode", "code", "len", "name", "count", "ports"} \cup Outcomes
  /\ got.mode \in {"none", "guest", "demo"}
  /\ got.count \in 0..9
  /\ got.ports \in Seq(PortEntries)

\* When the daemon answers RESULT_OK and launches, the client sent a whole
\* request and the daemon launches exactly what it asked for: the same
\* mode, guest code, image name and port table.  A truncated request is
\* never launched.
LaunchesWhatWasAsked ==
  stage = "ok" =>
    /\ client = "archive"
    /\ got.mode = req.mode
    /\ req.mode = "guest" => got.code = req.code
    /\ got.name = req.name
    /\ got.ports = req.ports

\* Every request the archive sends within the protocol's limits (a name of
\* at most 255 bytes, at most 9 port entries) is accepted.
WellFormedAccepted ==
  stage \in Outcomes /\ client = "archive" /\ Len(req.name) < 256 /\ Len(req.ports) < 10 =>
    stage = "ok"

\* A challenge with 10 or more port entries is answered RESULT_INVALID_PORT
\* (spec sections 6.1 and 8), not launched with some other port table.
TooManyPortsRejected ==
  stage \in Outcomes /\ client = "archive" /\ Len(req.ports) >= 10 => stage = "invalid_port"

=============================================================================
