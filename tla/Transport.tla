------------------------------ MODULE Transport ------------------------------
(***************************************************************************)
(* UdpTransport::receive() on both platforms, against a socket whose       *)
(* datagrams come when they like.  It waits in poll() (Windows: in short   *)
(* rounds of WSAPoll()), looks at shutdown_requested_ again and reads with *)
(* a blocking recv().  Time is counted in ticks and passes only while      *)
(* receive() waits.  connect(), shutdown() and close() are by their effect *)
(* on the socket and on shutdown_requested_; the caller holds the rest.    *)
(***************************************************************************)
EXTENDS Integers

CONSTANTS
  Platforms,        \* "posix", "windows"
  Faults,           \* what may go wrong: see TransportAssumption
  Datagrams,        \* what may arrive
  ReceiveTimeout,   \* config_.receive_timeout, in ticks
  PollLimit,        \* the longest poll(): INT_MAX milliseconds
  CheckInterval,    \* kShutdownCheckInterval
  MaxLate           \* bound: ticks receive() may take beyond its deadline

ASSUME TransportAssumption ==
  /\ Platforms \subseteq {"posix", "windows"}
  /\ Faults \subseteq {"error",       \* a system call fails
                       "signal",      \* POSIX: a signal interrupts poll() and recv()
                       "cancelled",   \* Windows: WSAPoll() or recv() ends with WSAEINTR
                       "dropped",     \* POSIX: a datagram poll() announced is dropped
                       "empty"}       \* datagrams of no bytes arrive
  /\ Datagrams \cap {"none", "empty", "nothing", "error"} = {}
  /\ {ReceiveTimeout, PollLimit, CheckInterval} \subseteq Nat \ {0} /\ MaxLate \in Nat

VARIABLES
  platform,              \* chosen once
  at,                    \* in receive(): "poll", "recheck", "recv", "returned"; or "out"
  left,                  \* ticks until the caller's deadline, which is receive()'s own
  slice,                 \* ticks until poll() returns by itself
  datagram,              \* what the socket holds, or "none"
  got,                   \* what receive() returned: a datagram, "nothing" or "error"
  shutdown_requested,
  late,                  \* history: ticks spent beyond the deadline
  ignored                \* history: ticks spent after shutdown()

transportVars == <<platform, at, left, slice, datagram, got, shutdown_requested, late, ignored>>

Least(a, b) == IF a <= b THEN a ELSE b

TransportTypeOK ==
  /\ platform \in Platforms
  /\ at \in {"out", "poll", "recheck", "recv", "returned"}
  /\ left \in 0 .. ReceiveTimeout /\ slice \in 0 .. ReceiveTimeout
  /\ datagram \in Datagrams \cup {"none", "empty"}
  /\ got \in Datagrams \cup {"nothing", "error"}
  /\ shutdown_requested \in BOOLEAN
  /\ late \in 0 .. MaxLate /\ ignored \in 0 .. ReceiveTimeout

TransportInit ==
  /\ platform \in Platforms
  /\ at = "out" /\ left = 0 /\ slice = 0 /\ datagram = "none" /\ got = "nothing"
  /\ shutdown_requested = FALSE /\ late = 0 /\ ignored = 0

-----------------------------------------------------------------------------
(* The socket *)

\* Fault injection: shutdown() raises the flag and leaves the socket alone.
WakesByFlag(call) == FALSE

\* shutdown() of the socket ends a waiting recv(), on POSIX also poll(); WSAPoll() need
\* not notice it, which is what its rounds are for.
Wakes(call) == shutdown_requested /\ (call = "recv" \/ platform = "posix")

Arrive(kind) ==
  /\ at \in {"poll", "recv"} /\ datagram = "none" /\ ~shutdown_requested
  /\ kind = "empty" => "empty" \in Faults
  /\ datagram' = kind
  /\ UNCHANGED <<platform, at, left, slice, got, shutdown_requested, late, ignored>>

\* The datagram that ended poll() turns out bad, and recv() finds none.
Drop ==
  /\ at \in {"recheck", "recv"} /\ datagram # "none" /\ "dropped" \in Faults /\ platform = "posix"
  /\ datagram' = "none"
  /\ UNCHANGED <<platform, at, left, slice, got, shutdown_requested, late, ignored>>

\* A call waits for one tick; poll() at most for its timeout, recv() as long as it takes.
Elapse ==
  /\ (at = "poll" /\ slice > 0) \/ at = "recv"
  /\ datagram = "none" /\ ~Wakes(at)
  /\ slice' = IF at = "poll" THEN slice - 1 ELSE slice
  /\ left > 0 \/ late < MaxLate
  /\ left' = IF left > 0 THEN left - 1 ELSE 0
  /\ late' = IF left > 0 THEN late ELSE late + 1
  /\ ignored' = IF shutdown_requested THEN ignored + 1 ELSE ignored
  /\ UNCHANGED <<platform, at, datagram, got, shutdown_requested>>

\* connect() makes a socket; shutdown(); close(), after which the socket and what it holds
\* are gone.
Connect  == shutdown_requested' = FALSE
Shutdown == shutdown_requested' = TRUE
Close    == shutdown_requested' = TRUE /\ datagram' = "none"

-----------------------------------------------------------------------------
(* receive() *)

Return(what) == at' = "returned" /\ got' = what /\ slice' = 0

\* Fault injection: on Windows, too, one poll until the deadline.
PollTimeWhole == Least(left, PollLimit)

PollTime == Least(left, IF platform = "windows" THEN CheckInterval ELSE PollLimit)

Poll == at' = "poll" /\ slice' = PollTime /\ UNCHANGED got

\* receive() is called before its deadline; a round of WSAPoll() begins likewise.
Receive ==
  /\ IF shutdown_requested THEN Return("nothing") ELSE Poll
  /\ UNCHANGED <<platform, left, datagram, shutdown_requested, late, ignored>>

PollReady ==
  /\ at = "poll" /\ (datagram # "none" \/ shutdown_requested) /\ at' = "recheck" /\ slice' = 0
  /\ UNCHANGED <<platform, left, datagram, got, shutdown_requested, late, ignored>>

PollExpires ==
  /\ at = "poll" /\ slice = 0 /\ datagram = "none"
  /\ IF platform = "posix" \/ left = 0 \/ shutdown_requested THEN Return("nothing") ELSE Poll
  /\ UNCHANGED <<platform, left, datagram, shutdown_requested, late, ignored>>

\* Fault injection: the wait starts anew after a signal.
PollAgainWhole == at' = "poll" /\ slice' = ReceiveTimeout /\ UNCHANGED got

\* After EINTR poll() waits for what remains until the deadline.
PollAgain == Poll

PollInterrupted ==
  /\ at = "poll"
  /\ \/ /\ platform = "posix" /\ "signal" \in Faults
        /\ IF left = 0 THEN Return("nothing") ELSE PollAgain
     \/ platform = "windows" /\ "cancelled" \in Faults /\ Return("nothing")
  /\ UNCHANGED <<platform, left, datagram, shutdown_requested, late, ignored>>

PollFails ==
  /\ at = "poll" /\ "error" \in Faults /\ Return("error")
  /\ UNCHANGED <<platform, left, datagram, shutdown_requested, late, ignored>>

\* After poll() the flag is looked at again, then the events poll() reported.
Recheck ==
  /\ at = "recheck"
  /\ \/ shutdown_requested /\ Return("nothing")
     \/ ~shutdown_requested /\ at' = "recv" /\ UNCHANGED <<got, slice>>
     \/ ~shutdown_requested /\ "error" \in Faults /\ Return("error")
  /\ UNCHANGED <<platform, left, datagram, shutdown_requested, late, ignored>>

\* recv() finds a datagram, the end shutdown() made, or an error, which Windows does not
\* report after shutdown().
Recv ==
  /\ at = "recv"
  /\ \/ datagram # "none" /\ Return(IF datagram = "empty" THEN "nothing" ELSE datagram)
     \/ Wakes("recv") /\ Return("nothing")
     \/ /\ "error" \in Faults
        /\ Return(IF platform = "windows" /\ shutdown_requested THEN "nothing" ELSE "error")
  /\ datagram' = "none"
  /\ UNCHANGED <<platform, left, shutdown_requested, late, ignored>>

\* A recv() that waits is interrupted; on Windows any may be cancelled.
RecvInterrupted ==
  /\ at = "recv"
  /\ \/ platform = "posix" /\ "signal" \in Faults /\ datagram = "none"
     \/ platform = "windows" /\ "cancelled" \in Faults
  /\ Return("nothing")
  /\ UNCHANGED <<platform, left, datagram, shutdown_requested, late, ignored>>

\* What receive() does when nothing goes wrong.
ReceiveProgress ==
  PollReady \/ PollExpires \/ Recheck \/ (Recv /\ (datagram # "none" \/ Wakes("recv")))

ReceiveStep ==
  \/ PollReady \/ PollExpires \/ PollInterrupted \/ PollFails \/ Recheck \/ Recv \/ RecvInterrupted

SocketStep == Drop \/ Elapse \/ \E kind \in Datagrams \cup {"empty"} : Arrive(kind)

\* Without a shutdown(), recv() yields nothing or WSAPoll() ends before the deadline.
CutShort ==
  /\ at' = "returned" /\ got' = "nothing" /\ ~shutdown_requested
  /\ at = "recv" \/ (platform = "windows" /\ left > 0)

=============================================================================
