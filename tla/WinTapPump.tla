---------------------------- MODULE WinTapPump ----------------------------
(***************************************************************************)
(* run_windows_tap_loop (tap_client.c, the _WIN32 part): two threads carry *)
(* frames between one TAP device and one connection.  The reader thread    *)
(* takes frames from the TAP and sends them; the calling thread receives,  *)
(* writes to the TAP and keeps the heartbeat.  They share the socket (sends*)
(* under send_mu), the TAP handle and win_tap_pump_t (stop, error, err),   *)
(* all on the caller's stack.                                              *)
(*                                                                         *)
(* Each access to shared state is a step of its own, so is each call that  *)
(* can block.  The peer and the TAP driver are the environment.            *)
(***************************************************************************)
EXTENDS Naturals

CONSTANT SendRoom   \* bound: sends that fit the socket buffer unread

ASSUME SendRoomAssumption == SendRoom \in Nat \ {0}

VARIABLES
    heartbeat,  \* TRUE on a relay connection, FALSE on a direct one
    m, r,       \* where the calling thread and the reader thread are
    stop,       \* pump.stop
    error,      \* pump.error
    text,       \* whether pump.err holds the whole message
    mu,         \* owner of send_mu
    shut,       \* ntap_socket_shutdown was called
    tap,        \* whether the TAP handle is open
    io,         \* the overlapped operation of each thread
    errOut,     \* whose message the caller's err buffer holds
    inq,        \* environment: what waits to be received, "part" of a message or one
    peerClosed, \* environment: the peer closed the connection
    room,       \* environment: sends that still fit the socket buffer
    wire,       \* history: the last piece put on the connection
    stopBy,     \* history: who set stop first
    lost,       \* history: a send failed
    late        \* history: frames sent although stop was set (2: or more)

shared == <<stop, error, text, mu, shut, tap, io, errOut>>
env    == <<inq, peerClosed, room>>
hist   == <<wire, stopBy, lost, late>>
vars   == <<heartbeat, m, r, stop, error, text, mu, shut, tap, io, errOut,
            inq, peerClosed, room, wire, stopBy, lost, late>>

MainPcs == {"OPEN", "CREATE", "PING", "PING_SEND", "WAIT", "GOT_DATA",
            "GOT_TIMEOUT", "GOT_ERROR", "RECV", "WRITE", "WRITING",
            "DONE", "INTERRUPT", "JOIN", "REPORT", "CLOSE", "RETURNED"}
ReaderPcs == {"NONE", "CHECK", "READ", "READING", "READ_FAILED", "LOCK",
              "SEND_HDR", "SEND_PAYLOAD", "FAIL", "FAIL_ERROR", "FAIL_TEXT",
              "FAIL_SHUT", "FAIL_INTR", "EXITED"}
Msgs == {"PONG", "TAP_FRAME", "BAD"}   \* BAD: any other, or not decodable

Init ==
    /\ heartbeat \in BOOLEAN
    /\ m = "OPEN" /\ r = "NONE"
    /\ stop = FALSE /\ error = FALSE /\ text = FALSE
    /\ mu = "free" /\ shut = FALSE /\ tap = "closed"
    /\ io = [main |-> "idle", reader |-> "idle"]
    /\ errOut = "none"
    /\ inq = "none" /\ peerClosed = FALSE /\ room = SendRoom
    /\ wire = "none" /\ stopBy = "none" /\ lost = FALSE /\ late = 0

-----------------------------------------------------------------------------
Alive == ~shut /\ ~peerClosed

(* CancelIoEx(handle, NULL): what is pending now, in either thread, fails;  *)
(* what is issued later is not concerned.                                   *)
Cancelled == [t \in DOMAIN io |-> IF io[t] = "pending" THEN "cancelled" ELSE io[t]]

(* Fault: a send does not wait for room. *)
PutAtOnce(piece) ==
    /\ Alive
    /\ room' = room - 1
    /\ wire' = piece

(* ntap_send_all of one piece: blocks until the piece fits. *)
Put(piece) ==
    /\ Alive /\ room > 0
    /\ room' = room - 1
    /\ wire' = piece

MainGoes(next) == m' = next /\ UNCHANGED r
ReaderGoes(next) == r' = next /\ UNCHANGED m

(* A failing call of the calling thread leaves its message and goes to done. *)
MainFails ==
    /\ errOut' = "main"
    /\ MainGoes("DONE")

-----------------------------------------------------------------------------
(* The calling thread *)
TapOpenFails ==
    /\ m = "OPEN"
    /\ errOut' = "main"
    /\ MainGoes("RETURNED")
    /\ UNCHANGED <<heartbeat, stop, error, text, mu, shut, tap, io, env, hist>>

TapOpen ==
    /\ m = "OPEN"
    /\ tap' = "open"
    /\ MainGoes("CREATE")
    /\ UNCHANGED <<heartbeat, stop, error, text, mu, shut, io, errOut, env, hist>>

CreateThreadFails ==
    /\ m = "CREATE"
    /\ MainFails
    /\ UNCHANGED <<heartbeat, stop, error, text, mu, shut, tap, io, env, hist>>

CreateThread ==
    /\ m = "CREATE"
    /\ r' = "CHECK"
    /\ m' = IF heartbeat THEN "PING" ELSE "WAIT"
    /\ UNCHANGED <<heartbeat, shared, env, hist>>

(* Fault: the heartbeat does not take send_mu. *)
PingLockNone ==
    /\ m = "PING"
    /\ MainGoes("PING_SEND")
    /\ UNCHANGED <<heartbeat, shared, env, hist>>

(* win_send_msg_locked(PING) *)
PingLock ==
    /\ m = "PING" /\ mu = "free"
    /\ mu' = "main"
    /\ MainGoes("PING_SEND")
    /\ UNCHANGED <<heartbeat, stop, error, text, shut, tap, io, errOut, env, hist>>

PingSent ==
    /\ m = "PING_SEND"
    /\ Put("PING")
    /\ mu' = "free"
    /\ MainGoes("WAIT")
    /\ UNCHANGED <<heartbeat, stop, error, text, shut, tap, io, errOut, inq,
                   peerClosed, stopBy, lost, late>>

PingFails ==
    /\ m = "PING_SEND" /\ ~Alive
    /\ mu' = "free"
    /\ lost' = TRUE
    /\ MainFails
    /\ UNCHANGED <<heartbeat, stop, error, text, shut, tap, io, env, wire, stopBy, late>>

(* ntap_socket_wait_read(1000): data or end of stream, a second of nothing, *)
(* or an error of select.                                                   *)
WaitReturns ==
    /\ m = "WAIT"
    /\ \/ (inq # "none" \/ ~Alive) /\ MainGoes("GOT_DATA")
       \/ inq = "none" /\ Alive /\ MainGoes("GOT_TIMEOUT")
    /\ UNCHANGED <<heartbeat, shared, env, hist>>

WaitFails ==
    /\ m = "WAIT"
    /\ MainGoes("GOT_ERROR")
    /\ UNCHANGED <<heartbeat, shared, env, hist>>

(* pump.error is looked at before what the wait returned.  pump.err may     *)
(* still be on its way: then what is copied is not the message.             *)
PumpErrorSeen ==
    /\ m \in {"GOT_DATA", "GOT_TIMEOUT", "GOT_ERROR"} /\ error
    /\ errOut' = IF text THEN "reader" ELSE "torn"
    /\ MainGoes("DONE")
    /\ UNCHANGED <<heartbeat, stop, error, text, mu, shut, tap, io, env, hist>>

WaitHandled ==
    /\ ~error
    /\ \/ /\ m = "GOT_TIMEOUT"
          /\ MainGoes(IF heartbeat THEN "PING" ELSE "WAIT")
          /\ UNCHANGED errOut
       \/ m = "GOT_DATA" /\ MainGoes("RECV") /\ UNCHANGED errOut
       \/ m = "GOT_ERROR" /\ MainFails
    /\ UNCHANGED <<heartbeat, stop, error, text, mu, shut, tap, io, env, hist>>

(* ntap_recv_msg waits for the whole message. *)
RecvMsg ==
    /\ m = "RECV" /\ inq \in Msgs
    /\ inq' = "none"
    /\ \/ inq = "PONG" /\ heartbeat /\ MainGoes("WAIT") /\ UNCHANGED errOut
       \/ inq = "TAP_FRAME" /\ MainGoes("WRITE") /\ UNCHANGED errOut
       \/ (inq = "BAD" \/ (inq = "PONG" /\ ~heartbeat)) /\ MainFails
    /\ UNCHANGED <<heartbeat, stop, error, text, mu, shut, tap, io, peerClosed,
                   room, hist>>

RecvFails ==
    /\ m = "RECV"
    /\ shut \/ (peerClosed /\ inq \notin Msgs)
    /\ MainFails
    /\ UNCHANGED <<heartbeat, stop, error, text, mu, shut, tap, io, env, hist>>

(* ntap_tap_write: WriteFile, then the wait for its completion. *)
WriteIssued ==
    /\ m = "WRITE"
    /\ io' = [io EXCEPT !.main = "pending"]
    /\ MainGoes("WRITING")
    /\ UNCHANGED <<heartbeat, stop, error, text, mu, shut, tap, errOut, env, hist>>

WriteDone ==
    /\ m = "WRITING" /\ io.main = "pending"
    /\ io' = [io EXCEPT !.main = "idle"]
    /\ MainGoes("WAIT")
    /\ UNCHANGED <<heartbeat, stop, error, text, mu, shut, tap, errOut, env, hist>>

WriteFails ==
    /\ m = "WRITING" /\ io.main = "cancelled"
    /\ io' = [io EXCEPT !.main = "idle"]
    /\ MainFails
    /\ UNCHANGED <<heartbeat, stop, error, text, mu, shut, tap, env, hist>>

(* done: *)
SetStop ==
    /\ m = "DONE"
    /\ stop' = TRUE
    /\ stopBy' = IF stop THEN stopBy ELSE "main"
    /\ MainGoes("INTERRUPT")
    /\ UNCHANGED <<heartbeat, error, text, mu, shut, tap, io, errOut, env, wire, lost, late>>

Interrupt ==
    /\ m = "INTERRUPT"
    /\ io' = Cancelled
    /\ MainGoes("JOIN")
    /\ UNCHANGED <<heartbeat, stop, error, text, mu, shut, tap, errOut, env, hist>>

(* Fault: the reader is not waited for once it has reported an error. *)
JoinUnlessError ==
    /\ m = "JOIN" /\ (error \/ r \in {"NONE", "EXITED"})
    /\ MainGoes("REPORT")
    /\ UNCHANGED <<heartbeat, shared, env, hist>>

Join ==
    /\ m = "JOIN" /\ r \in {"NONE", "EXITED"}
    /\ MainGoes("REPORT")
    /\ UNCHANGED <<heartbeat, shared, env, hist>>

(* Fault: what the loop copied, if it copied anything, is returned. *)
ReportAsIs ==
    /\ m = "REPORT"
    /\ MainGoes("CLOSE")
    /\ UNCHANGED <<heartbeat, shared, env, hist>>

(* The reader's message is copied again, now that the reader is gone. *)
Report ==
    /\ m = "REPORT"
    /\ errOut' = CASE ~error -> errOut
                   [] error /\ text -> "reader"
                   [] OTHER -> "torn"
    /\ MainGoes("CLOSE")
    /\ UNCHANGED <<heartbeat, stop, error, text, mu, shut, tap, io, env, hist>>

(* DeleteCriticalSection, ntap_tap_close (which cancels once more), return. *)
Close ==
    /\ m = "CLOSE"
    /\ mu' = "deleted"
    /\ tap' = "closed"
    /\ io' = Cancelled
    /\ MainGoes("RETURNED")
    /\ UNCHANGED <<heartbeat, stop, error, text, shut, errOut, env, hist>>

-----------------------------------------------------------------------------
(* The reader thread *)

(* Fault: the loop does not look at stop. *)
CheckNothing ==
    /\ r = "CHECK"
    /\ ReaderGoes("READ")
    /\ UNCHANGED <<heartbeat, shared, env, hist>>

CheckStop ==
    /\ r = "CHECK"
    /\ ReaderGoes(IF stop THEN "EXITED" ELSE "READ")
    /\ UNCHANGED <<heartbeat, shared, env, hist>>

(* ntap_tap_read: ReadFile, then the wait for its completion. *)
ReadIssued ==
    /\ r = "READ"
    /\ io' = [io EXCEPT !.reader = "pending"]
    /\ ReaderGoes("READING")
    /\ UNCHANGED <<heartbeat, stop, error, text, mu, shut, tap, errOut, env, hist>>

(* The driver has a frame: sent if its length is in 14..mtu+18, else dropped. *)
ReadDone ==
    /\ r = "READING" /\ io.reader = "pending"
    /\ io' = [io EXCEPT !.reader = "idle"]
    /\ \E next \in {"LOCK", "CHECK"} : ReaderGoes(next)
    /\ UNCHANGED <<heartbeat, stop, error, text, mu, shut, tap, errOut, env, hist>>

ReadFails ==
    /\ r = "READING" /\ io.reader = "cancelled"
    /\ io' = [io EXCEPT !.reader = "idle"]
    /\ ReaderGoes("READ_FAILED")
    /\ UNCHANGED <<heartbeat, stop, error, text, mu, shut, tap, errOut, env, hist>>

(* Only a read that nobody cancelled is an error. *)
ReadFailureHandled ==
    /\ r = "READ_FAILED"
    /\ ReaderGoes(IF stop THEN "EXITED" ELSE "FAIL")
    /\ UNCHANGED <<heartbeat, shared, env, hist>>

(* win_send_tap_payload_locked: header and payload under one lock. *)
FrameLock ==
    /\ r = "LOCK" /\ mu = "free"
    /\ mu' = "reader"
    /\ ReaderGoes("SEND_HDR")
    /\ UNCHANGED <<heartbeat, stop, error, text, shut, tap, io, errOut, env, hist>>

FrameHeader ==
    /\ r = "SEND_HDR"
    /\ Put("HEADER")
    /\ late' = IF stop /\ late < 2 THEN late + 1 ELSE late
    /\ ReaderGoes("SEND_PAYLOAD")
    /\ UNCHANGED <<heartbeat, shared, inq, peerClosed, stopBy, lost>>

FramePayload ==
    /\ r = "SEND_PAYLOAD"
    /\ Put("PAYLOAD")
    /\ mu' = "free"
    /\ ReaderGoes("CHECK")
    /\ UNCHANGED <<heartbeat, stop, error, text, shut, tap, io, errOut, inq,
                   peerClosed, stopBy, lost, late>>

FrameFails ==
    /\ r \in {"SEND_HDR", "SEND_PAYLOAD"} /\ ~Alive
    /\ mu' = "free"
    /\ lost' = TRUE
    /\ ReaderGoes("FAIL")
    /\ UNCHANGED <<heartbeat, stop, error, text, shut, tap, io, errOut, env, wire,
                   stopBy, late>>

(* win_tap_fail: only who moves stop from 0 to 1 goes on. *)
Fail ==
    /\ r = "FAIL"
    /\ stop' = TRUE
    /\ stopBy' = IF stop THEN stopBy ELSE "reader"
    /\ ReaderGoes(IF stop THEN "EXITED" ELSE "FAIL_ERROR")
    /\ UNCHANGED <<heartbeat, error, text, mu, shut, tap, io, errOut, env, wire, lost, late>>

FailError ==
    /\ r = "FAIL_ERROR"
    /\ error' = TRUE
    /\ ReaderGoes("FAIL_TEXT")
    /\ UNCHANGED <<heartbeat, stop, text, mu, shut, tap, io, errOut, env, hist>>

FailText ==
    /\ r = "FAIL_TEXT"
    /\ text' = TRUE
    /\ ReaderGoes("FAIL_SHUT")
    /\ UNCHANGED <<heartbeat, stop, error, mu, shut, tap, io, errOut, env, hist>>

(* Fault: the socket is left alone. *)
FailNoShutdown ==
    /\ r = "FAIL_SHUT"
    /\ ReaderGoes("FAIL_INTR")
    /\ UNCHANGED <<heartbeat, shared, env, hist>>

FailShutdown ==
    /\ r = "FAIL_SHUT"
    /\ shut' = TRUE
    /\ ReaderGoes("FAIL_INTR")
    /\ UNCHANGED <<heartbeat, stop, error, text, mu, tap, io, errOut, env, hist>>

FailInterrupt ==
    /\ r = "FAIL_INTR"
    /\ io' = Cancelled
    /\ ReaderGoes("EXITED")
    /\ UNCHANGED <<heartbeat, stop, error, text, mu, shut, tap, errOut, env, hist>>

-----------------------------------------------------------------------------
(* The environment.  The peer sends a message, possibly in two parts, reads *)
(* what it was sent, or closes; the TAP device or a send may fail.          *)
PeerSends ==
    /\ ~peerClosed
    /\ \/ inq = "none" /\ inq' = "part"
       \/ inq = "part" /\ inq' \in Msgs
    /\ UNCHANGED <<heartbeat, m, r, shared, peerClosed, room, hist>>

PeerReads ==
    /\ ~peerClosed /\ room < SendRoom
    /\ room' = room + 1
    /\ UNCHANGED <<heartbeat, m, r, shared, inq, peerClosed, hist>>

PeerCloses ==
    /\ ~peerClosed
    /\ peerClosed' = TRUE
    /\ UNCHANGED <<heartbeat, m, r, shared, inq, room, hist>>

(* The driver fails an operation: to the thread it looks like a cancel. *)
DeviceFails ==
    /\ \E t \in DOMAIN io :
         io[t] = "pending" /\ io' = [io EXCEPT ![t] = "cancelled"]
    /\ UNCHANGED <<heartbeat, m, r, stop, error, text, mu, shut, tap, errOut, env, hist>>

(* send() fails for a reason of its own, on a connection that still works. *)
SendErrs ==
    /\ Alive /\ mu' = "free" /\ lost' = TRUE
    /\ \/ m = "PING_SEND" /\ MainFails
       \/ /\ r \in {"SEND_HDR", "SEND_PAYLOAD"}
          /\ ReaderGoes("FAIL")
          /\ UNCHANGED errOut
    /\ UNCHANGED <<heartbeat, stop, error, text, shut, tap, io, env, wire, stopBy, late>>

-----------------------------------------------------------------------------
MainStep ==
    \/ TapOpenFails \/ TapOpen \/ CreateThreadFails \/ CreateThread
    \/ PingLock \/ PingSent \/ PingFails
    \/ WaitReturns \/ PumpErrorSeen \/ WaitHandled
    \/ RecvMsg \/ RecvFails \/ WriteIssued \/ WriteFails
    \/ SetStop \/ Interrupt \/ Join \/ Report \/ Close

ReaderStep ==
    \/ CheckStop \/ ReadIssued \/ ReadFails \/ ReadFailureHandled
    \/ FrameLock \/ FrameHeader \/ FramePayload \/ FrameFails
    \/ Fail \/ FailError \/ FailText \/ FailShutdown \/ FailInterrupt

Environment ==
    \/ PeerSends \/ PeerReads \/ PeerCloses \/ DeviceFails \/ SendErrs \/ WaitFails

Next == MainStep \/ ReaderStep \/ WriteDone \/ ReadDone \/ Environment

Spec == Init /\ [][Next]_vars

(* Both threads are scheduled, a wait of one second ends, and the driver    *)
(* completes writes.  Nothing is assumed of the peer, nor that the kernel   *)
(* ever has a frame to read.                                                *)
FairSpec == Spec /\ WF_vars(MainStep) /\ WF_vars(ReaderStep) /\ WF_vars(WriteDone)

-----------------------------------------------------------------------------
(* Every variable keeps its range: no more sends are on their way than the  *)
(* buffer holds.                                                            *)
TypeOK ==
    /\ heartbeat \in BOOLEAN /\ m \in MainPcs /\ r \in ReaderPcs
    /\ stop \in BOOLEAN /\ error \in BOOLEAN /\ text \in BOOLEAN
    /\ mu \in {"free", "main", "reader", "deleted"}
    /\ shut \in BOOLEAN /\ tap \in {"open", "closed"}
    /\ io \in [{"main", "reader"} -> {"idle", "pending", "cancelled"}]
    /\ errOut \in {"none", "main", "torn", "reader"}
    /\ inq \in {"none", "part"} \union Msgs
    /\ peerClosed \in BOOLEAN /\ room \in 0 .. SendRoom
    /\ wire \in {"none", "PING", "HEADER", "PAYLOAD"}
    /\ stopBy \in {"none", "main", "reader"}
    /\ lost \in BOOLEAN /\ late \in 0 .. 2

(* From the copy of the reader's error on, nothing that lives on the        *)
(* caller's stack (pump, send_mu, tap) is used by the reader any more, and  *)
(* send_mu is deleted unowned.                                              *)
ReaderGoneBeforeCleanup ==
    m \in {"REPORT", "CLOSE", "RETURNED"} =>
        r \in {"NONE", "EXITED"} /\ mu \in {"free", "deleted"} /\ io.reader = "idle"

(* The caller reads the message of whoever stopped the pump first: the      *)
(* reader's whole message if win_tap_fail did, although error is set before *)
(* err is written, and the caller's own otherwise.                          *)
FirstFailureReported ==
    m = "RETURNED" /\ stop => errOut = stopBy

(* Once stop is set the reader sends at most the one frame that it was      *)
(* reading or sending: stop is looked at before each read only.             *)
AtMostOneLateFrame == late <= 1

(* Between the header of a frame and its payload nothing else is put on the *)
(* connection, the heartbeat included, as long as no send has failed.       *)
MessagesWhole ==
    [][wire = "HEADER" /\ wire' # wire => wire' = "PAYLOAD" \/ lost]_vars

(* When the reader fails, the loop returns whatever the peer and the kernel *)
(* do: the calling thread may be blocked in select, in the rest of a        *)
(* message, in a send to a peer that does not read or in a TAP write.       *)
ReaderFailureEndsLoop == r = "FAIL_ERROR" ~> m = "RETURNED"

(* When the calling thread ends the loop, the loop returns, provided that   *)
(* the kernel has another frame and the peer reads: a read issued after     *)
(* CancelIoEx is not cancelled, and the socket is not shut down.            *)
DoneReturns ==
    WF_vars(ReadDone) /\ WF_vars(PeerReads) => (m = "DONE" ~> m = "RETURNED")
=============================================================================
