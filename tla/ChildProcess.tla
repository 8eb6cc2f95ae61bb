---------------------------- MODULE ChildProcess ----------------------------
(***************************************************************************)
(* What the adapter bounds about a Trivy child: the memory it is told to   *)
(* stay within (pkg/trivy/memory.go) and the output that is kept of it     *)
(* (pkg/ext/buffer.go, RunCmd of ambassador.go). TrivyScan has the child   *)
(* as one step of a scan; this module looks into that step.                *)
(*                                                                         *)
(* A byte of the output is its position in the stream.                     *)
(***************************************************************************)
EXTENDS Integers, Sequences

CONSTANTS
  Limit,       \* MaxStdout or MaxStderr: the bytes RunCmd returns
  MaxOutput,   \* bound on the output of a child
  MaxInt64,    \* the largest integer: 2^63 - 1
  Unlimited,   \* what a cgroup of v1 says, or more, without a limit: 2^62
  Kilo,        \* from a unit to the next: 2^10
  Values       \* numbers in the configuration and in the cgroup files

ASSUME ChildAssumption ==
  /\ Limit \in Nat /\ MaxOutput \in Nat
  /\ MaxInt64 \in Nat /\ Unlimited \in Nat /\ Unlimited <= MaxInt64
  /\ Kilo \in Nat \ {0}
  /\ Values \subseteq Int

VARIABLES
  configured,   \* SCANNER_TRIVY_CHILD_GOMEMLIMIT
  cgroups,      \* what the files of cgroup v2 and v1 say
  child,        \* "none", "running" or "exited"
  given,        \* the GOMEMLIMIT in the child's environment: none, or one
  written,      \* the number of bytes it has written
  buffer,       \* the LimitedBuffer
  output        \* what RunCmd returned

memoryVars == <<configured, cgroups, given>>
outputVars == <<written, buffer, output>>
vars       == <<memoryVars, outputVars, child>>

-----------------------------------------------------------------------------
(* GOMEMLIMIT. A configured text is empty, "off", malformed, or a value with
   a unit; the file of a cgroup is missing, a word ("max"), or a value. *)

MaxUint64 == 2 * MaxInt64 + 1

Units == [none |-> 1, B |-> 1, KiB |-> Kilo, MiB |-> Kilo * Kilo,
          GiB |-> Kilo * Kilo * Kilo, TiB |-> Kilo * Kilo * Kilo * Kilo]

Configured ==
  [text : {"empty", "off", "malformed"}]
  \cup [text : {"value"}, value : Values \cap Nat, unit : DOMAIN Units]
Cgroup == [text : {"missing", "max"}] \cup [text : {"value"}, value : Values]

ValidByProduct(limit) ==   \* mutant: the product wraps around
  limit.value <= MaxUint64 /\ (limit.value * Units[limit.unit]) % (MaxUint64 + 1) <= MaxInt64
ValidGoMemLimit(limit) ==
  limit.value <= MaxUint64 /\ limit.value <= MaxInt64 \div Units[limit.unit]

Readable == {i \in 1..2 : cgroups[i].text # "missing"}

AnyNumber == {i \in Readable : cgroups[i].text = "value"}   \* mutant: "max" does not end the search
Authority == {i \in Readable : \A j \in Readable : i <= j}

(* The first file that can be read decides, whatever it says. *)
CgroupMemoryLimit ==
  {cgroups[i].value : i \in {a \in Authority :
     cgroups[a].text = "value" /\ cgroups[a].value > 0 /\ cgroups[a].value < Unlimited}}

(* goMemLimitShare leaves a fifth for what the runtime does not count. *)
CgroupGoMemLimit ==
  {[text |-> "value", value |-> (limit * 4) \div 5, unit |-> "none"] : limit \in CgroupMemoryLimit}

ChildGoMemLimit ==
  CASE configured.text = "off"                                  -> {}
    [] configured.text = "value" /\ ValidGoMemLimit(configured) -> {configured}
    [] OTHER                                                    -> CgroupGoMemLimit

-----------------------------------------------------------------------------
(* LimitedBuffer. *)

Empty == [held |-> <<>>, truncated |-> FALSE]

(* The last n elements of a sequence, or all of a shorter one. *)
LastOf(s, n) == IF Len(s) > n THEN SubSeq(s, Len(s) - n + 1, Len(s)) ELSE s

KeepFirst(held) ==   \* mutant: the oldest bytes are kept
  IF Len(held) > Limit THEN SubSeq(held, 1, Limit) ELSE held
Trim(held) == LastOf(held, Limit)

(* Only a buffer of more than twice the limit is trimmed while it is written. What
   it takes in between, after append and before trim, is not seen. *)
Written(b, p) ==
  LET all == b.held \o LastOf(p, Limit) IN
  [held      |-> IF Len(all) > 2 * Limit THEN Trim(all) ELSE all,
   truncated |-> b.truncated \/ Len(p) > Limit \/ Len(all) > Limit]

Stream(n)   == [i \in 1..n |-> i]
Piece(m, n) == [i \in 1..n |-> m + i]

-----------------------------------------------------------------------------
Init ==
  /\ configured \in Configured /\ cgroups \in [1..2 -> Cgroup]
  /\ child = "none" /\ given = {}
  /\ written = 0 /\ buffer = Empty /\ output = <<>>

Start ==
  /\ child # "running"
  /\ child' = "running"
  /\ given' = ChildGoMemLimit
  /\ written' = 0 /\ buffer' = Empty /\ output' = <<>>
  /\ UNCHANGED <<configured, cgroups>>

(* The child writes as much at a time as it likes. *)
Write(n) ==
  /\ child = "running" /\ written + n <= MaxOutput
  /\ buffer' = Written(buffer, Piece(written, n))
  /\ written' = written + n
  /\ UNCHANGED <<memoryVars, child, output>>

Exit ==
  /\ child = "running"
  /\ child' = "exited"
  /\ buffer' = [buffer EXCEPT !.held = Trim(@)]
  /\ output' = Trim(buffer.held)
  /\ UNCHANGED <<memoryVars, written>>

Next == Start \/ (\E n \in 0..MaxOutput : Write(n)) \/ Exit

Spec == Init /\ [][Next]_vars

-----------------------------------------------------------------------------
(* What Bytes and Truncated may rely on: the buffer ends like the stream, for
   as far as the limit reaches, takes at most twice the limit, and says whether
   something of the stream is out of its reach. Further back it need not be a part
   of the stream: of a long write only the end is appended to what was there. *)
IsTail(b, s) ==
  /\ LastOf(b.held, Limit) = LastOf(s, Limit)
  /\ Len(b.held) <= Len(s) /\ Len(b.held) <= 2 * Limit
  /\ b.truncated <=> Len(s) > Limit

(* RunCmd returns the end of what the child wrote, however its writes divide
   it: a failure is read from the last words. No write leaves more than twice the limit
   behind, and nothing is dropped unmarked. *)
OutputIsItsTail ==
  /\ IsTail(buffer, Stream(written))
  /\ child = "exited" => output = LastOf(Stream(written), Limit)

Enforced == IF cgroups[1].text # "missing" THEN cgroups[1] ELSE cgroups[2]

(* The runtime exits at once on a value that its signed integer does not hold:
   no configured text and no cgroup may keep the child from starting. A limit that
   the configuration does not state comes from the limit that is enforced, which the
   file of v2 describes wherever there is one, and lies below it; in a container
   without a limit the child has none. *)
MemoryLimitIsUsable ==
  \A limit \in given :
    /\ limit.value * Units[limit.unit] <= MaxInt64
    /\ limit # configured =>
         Enforced.text = "value" /\ limit.value < Enforced.value
=============================================================================
