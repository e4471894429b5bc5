--------------------------- MODULE WinTapPumpProofs ---------------------------
(***************************************************************************)
(* Proofs about WinTapPump, for every number of sends that the socket      *)
(* buffer takes.                                                           *)
(***************************************************************************)
EXTENDS WinTapPump, TLAPS

Ending  == {"DONE", "INTERRUPT", "JOIN", "REPORT", "CLOSE", "RETURNED"}
Failing == {"FAIL_ERROR", "FAIL_TEXT", "FAIL_SHUT", "FAIL_INTR"}

(* Who owns send_mu, and that it is deleted at the very end only. *)
Owners ==
    /\ mu = "main" <=> m = "PING_SEND"
    /\ mu = "reader" <=> r \in {"SEND_HDR", "SEND_PAYLOAD"}
    /\ mu = "deleted" => m = "RETURNED"

(* The reader is there from CreateThread to Join, and its overlapped read    *)
(* exactly while it waits for it.                                            *)
Threads ==
    /\ m \in {"OPEN", "CREATE"} => r = "NONE"
    /\ m \in {"REPORT", "CLOSE", "RETURNED"} => r \in {"NONE", "EXITED"}
    /\ io.reader # "idle" <=> r = "READING"

(* Who set stop, how far win_tap_fail got, and whose failure it is. *)
Stopping ==
    /\ stop = TRUE <=> stopBy # "none"
    /\ stopBy = "main" => m \in Ending \ {"DONE"} /\ errOut = "main" /\ r \notin Failing
    /\ stopBy = "reader" => r \in Failing \union {"EXITED"}
    /\ r \in Failing => stopBy = "reader"
    /\ error = TRUE <=> stopBy = "reader" /\ r # "FAIL_ERROR"
    /\ text = TRUE <=> stopBy = "reader" /\ r \notin {"FAIL_ERROR", "FAIL_TEXT"}

(* What the caller is told. *)
Reports ==
    /\ m \in Ending => errOut = "main" \/ error = TRUE
    /\ m \in {"INTERRUPT", "JOIN", "REPORT", "CLOSE"} => stop = TRUE
    /\ m \in {"CLOSE", "RETURNED"} /\ stop = TRUE => errOut = stopBy

(* Once a frame was late, the reader looks at stop before the next one. *)
Lateness ==
    /\ late \in {0, 1}
    /\ late = 1 => stop = TRUE /\ r \in {"SEND_PAYLOAD", "CHECK", "FAIL", "EXITED"}

(* A frame whose payload is missing is being sent. *)
Whole == wire = "HEADER" /\ lost = FALSE => r = "SEND_PAYLOAD"

IInv == TypeOK /\ Owners /\ Threads /\ Stopping /\ Reports /\ Lateness /\ Whole

-----------------------------------------------------------------------------
(* Every step of either thread or of the environment keeps IInv. *)
LEMMA NextKeeps == IInv /\ Next => IInv'
<1> SUFFICES ASSUME IInv, Next PROVE IInv'
  OBVIOUS
<1>a. TypeOK /\ Owners /\ Threads /\ Stopping /\ Reports /\ Lateness /\ Whole
  BY DEF IInv
<1>1. CASE TapOpenFails
  <2>1. TypeOK'
    BY <1>1, <1>a DEF TypeOK, MainPcs, TapOpenFails, MainGoes, env, hist
  <2>2. Owners'
    BY <1>1, <1>a DEF Owners, TapOpenFails, MainGoes, env, hist
  <2>3. Threads'
    BY <1>1, <1>a DEF Threads, TapOpenFails, MainGoes, env, hist
  <2>4. Stopping'
    BY <1>1, <1>a DEF Stopping, Ending, Failing, TapOpenFails, MainGoes, env, hist
  <2>5. Reports'
    BY <1>1, <1>a DEF Reports, TypeOK, Threads, Stopping, Ending, Failing,
           TapOpenFails, MainGoes, env, hist
  <2>6. Lateness' /\ Whole'
    BY <1>1, <1>a DEF Lateness, Whole, TapOpenFails, MainGoes, env, hist
  <2> QED BY <2>1, <2>2, <2>3, <2>4, <2>5, <2>6 DEF IInv
<1>2. CASE TapOpen
  <2>1. TypeOK'
    BY <1>2, <1>a DEF TypeOK, MainPcs, TapOpen, MainGoes, env, hist
  <2>2. Owners'
    BY <1>2, <1>a DEF Owners, TapOpen, MainGoes, env, hist
  <2>3. Threads'
    BY <1>2, <1>a DEF Threads, TapOpen, MainGoes, env, hist
  <2>4. Stopping'
    BY <1>2, <1>a DEF Stopping, Ending, Failing, TapOpen, MainGoes, env, hist
  <2>5. Reports'
    BY <1>2, <1>a DEF Reports, Ending, TapOpen, MainGoes, env, hist
  <2>6. Lateness' /\ Whole'
    BY <1>2, <1>a DEF Lateness, Whole, TapOpen, MainGoes, env, hist
  <2> QED BY <2>1, <2>2, <2>3, <2>4, <2>5, <2>6 DEF IInv
<1>3. CASE CreateThreadFails
  <2>1. TypeOK'
    BY <1>3, <1>a DEF TypeOK, MainPcs, CreateThreadFails, MainGoes, MainFails,
           env, hist
  <2>2. Owners'
    BY <1>3, <1>a DEF Owners, CreateThreadFails, MainGoes, MainFails, env, hist
  <2>3. Threads'
    BY <1>3, <1>a DEF Threads, CreateThreadFails, MainGoes, MainFails, env, hist
  <2>4. Stopping'
    BY <1>3, <1>a DEF Stopping, Ending, Failing, CreateThreadFails, MainGoes,
           MainFails, env, hist
  <2>5. Reports'
    BY <1>3, <1>a DEF Reports, Ending, CreateThreadFails, MainGoes, MainFails,
           env, hist
  <2>6. Lateness' /\ Whole'
    BY <1>3, <1>a DEF Lateness, Whole, CreateThreadFails, MainGoes, MainFails,
           env, hist
  <2> QED BY <2>1, <2>2, <2>3, <2>4, <2>5, <2>6 DEF IInv
<1>4. CASE CreateThread
  <2>1. TypeOK'
    BY <1>4, <1>a DEF TypeOK, MainPcs, ReaderPcs, CreateThread, shared, env, hist
  <2>2. Owners'
    BY <1>4, <1>a DEF Owners, Threads, CreateThread, shared, env, hist
  <2>3. Threads'
    BY <1>4, <1>a DEF Threads, CreateThread, shared, env, hist
  <2>4. Stopping'
    BY <1>4, <1>a DEF Stopping, Threads, Ending, Failing, CreateThread, shared,
           env, hist
  <2>5. Reports'
    BY <1>4, <1>a DEF Reports, Ending, CreateThread, shared, env, hist
  <2>6. Lateness'
    BY <1>4, <1>a DEF Lateness, CreateThread, shared, env, hist
  <2>7. Whole'
    BY <1>4, <1>a DEF Whole, Threads, CreateThread, shared, env, hist
  <2> QED BY <2>1, <2>2, <2>3, <2>4, <2>5, <2>6, <2>7 DEF IInv
<1>5. CASE PingLock
  <2>1. TypeOK'
    BY <1>5, <1>a DEF TypeOK, MainPcs, PingLock, MainGoes, env, hist
  <2>2. Owners'
    BY <1>5, <1>a DEF Owners, PingLock, MainGoes, env, hist
  <2>3. Threads'
    BY <1>5, <1>a DEF Threads, PingLock, MainGoes, env, hist
  <2>4. Stopping'
    BY <1>5, <1>a DEF Stopping, Ending, Failing, PingLock, MainGoes, env, hist
  <2>5. Reports'
    BY <1>5, <1>a DEF Reports, Ending, PingLock, MainGoes, env, hist
  <2>6. Lateness' /\ Whole'
    BY <1>5, <1>a DEF Lateness, Whole, PingLock, MainGoes, env, hist
  <2> QED BY <2>1, <2>2, <2>3, <2>4, <2>5, <2>6 DEF IInv
<1>6. CASE PingSent
  <2>1. TypeOK'
    BY <1>6, <1>a, SendRoomAssumption DEF TypeOK, MainPcs, PingSent, MainGoes,
           Put, Alive
  <2>2. Owners'
    BY <1>6, <1>a DEF Owners, PingSent, MainGoes, Put, Alive
  <2>3. Threads'
    BY <1>6, <1>a DEF Threads, PingSent, MainGoes, Put, Alive
  <2>4. Stopping'
    BY <1>6, <1>a DEF Stopping, Ending, Failing, PingSent, MainGoes, Put, Alive
  <2>5. Reports'
    BY <1>6, <1>a DEF Reports, Ending, PingSent, MainGoes, Put, Alive
  <2>6. Whole'
    BY <1>6, <1>a DEF Whole, PingSent, MainGoes, Put, Alive
  <2>7. Lateness'
    BY <1>6, <1>a DEF Lateness, PingSent, MainGoes, Put, Alive
  <2> QED BY <2>1, <2>2, <2>3, <2>4, <2>5, <2>6, <2>7 DEF IInv
<1>7. CASE PingFails
  <2>1. TypeOK'
    BY <1>7, <1>a DEF TypeOK, MainPcs, PingFails, MainGoes, MainFails, Alive, env
  <2>2. Owners'
    BY <1>7, <1>a DEF Owners, PingFails, MainGoes, MainFails, Alive, env
  <2>3. Threads'
    BY <1>7, <1>a DEF Threads, PingFails, MainGoes, MainFails, Alive, env
  <2>4. Stopping'
    BY <1>7, <1>a DEF Stopping, Ending, Failing, PingFails, MainGoes, MainFails,
           Alive, env
  <2>5. Reports'
    BY <1>7, <1>a DEF Reports, Ending, PingFails, MainGoes, MainFails, Alive, env
  <2>6. Whole'
    BY <1>7, <1>a DEF Whole, PingFails, MainGoes, MainFails, Alive, env
  <2>7. Lateness'
    BY <1>7, <1>a DEF Lateness, PingFails, MainGoes, MainFails, Alive, env
  <2> QED BY <2>1, <2>2, <2>3, <2>4, <2>5, <2>6, <2>7 DEF IInv
<1>8. CASE WaitReturns
  <2>1. TypeOK'
    BY <1>8, <1>a DEF TypeOK, MainPcs, WaitReturns, MainGoes, Alive, shared, env,
           hist
  <2>2. Owners'
    BY <1>8, <1>a DEF Owners, WaitReturns, MainGoes, Alive, shared, env, hist
  <2>3. Threads'
    BY <1>8, <1>a DEF Threads, WaitReturns, MainGoes, Alive, shared, env, hist
  <2>4. Stopping'
    BY <1>8, <1>a DEF Stopping, Ending, Failing, WaitReturns, MainGoes, Alive,
           shared, env, hist
  <2>5. Reports'
    BY <1>8, <1>a DEF Reports, Ending, WaitReturns, MainGoes, Alive, shared, env,
           hist
  <2>6. Lateness' /\ Whole'
    BY <1>8, <1>a DEF Lateness, Whole, WaitReturns, MainGoes, Alive, shared, env,
           hist
  <2> QED BY <2>1, <2>2, <2>3, <2>4, <2>5, <2>6 DEF IInv
<1>9. CASE PumpErrorSeen
  <2>1. TypeOK'
    BY <1>9, <1>a DEF TypeOK, MainPcs, PumpErrorSeen, MainGoes, env, hist
  <2>2. Owners'
    BY <1>9, <1>a DEF Owners, PumpErrorSeen, MainGoes, env, hist
  <2>3. Threads'
    BY <1>9, <1>a DEF Threads, PumpErrorSeen, MainGoes, env, hist
  <2>4. Stopping'
    BY <1>9, <1>a DEF Stopping, Ending, Failing, PumpErrorSeen, MainGoes, env,
           hist
  <2>5. Reports'
    BY <1>9, <1>a DEF Reports, Ending, PumpErrorSeen, MainGoes, env, hist
  <2>6. Lateness' /\ Whole'
    BY <1>9, <1>a DEF Lateness, Whole, PumpErrorSeen, MainGoes, env, hist
  <2> QED BY <2>1, <2>2, <2>3, <2>4, <2>5, <2>6 DEF IInv
<1>10. CASE WaitHandled
  <2>1. TypeOK'
    BY <1>10, <1>a DEF TypeOK, MainPcs, WaitHandled, MainGoes, MainFails, env,
           hist
  <2>2. Owners'
    BY <1>10, <1>a DEF Owners, WaitHandled, MainGoes, MainFails, env, hist
  <2>3. Threads'
    BY <1>10, <1>a DEF Threads, WaitHandled, MainGoes, MainFails, env, hist
  <2>4. Stopping'
    BY <1>10, <1>a DEF Stopping, Ending, Failing, WaitHandled, MainGoes,
           MainFails, env, hist
  <2>5. Reports'
    BY <1>10, <1>a DEF Reports, Ending, WaitHandled, MainGoes, MainFails, env,
           hist
  <2>6. Lateness' /\ Whole'
    BY <1>10, <1>a DEF Lateness, Whole, WaitHandled, MainGoes, MainFails, env,
           hist
  <2> QED BY <2>1, <2>2, <2>3, <2>4, <2>5, <2>6 DEF IInv
<1>11. CASE RecvMsg
  <2>1. TypeOK'
    BY <1>11, <1>a DEF TypeOK, MainPcs, RecvMsg, MainGoes, MainFails, hist, Msgs
  <2>2. Owners'
    BY <1>11, <1>a DEF Owners, RecvMsg, MainGoes, MainFails, hist, Msgs
  <2>3. Threads'
    BY <1>11, <1>a DEF Threads, RecvMsg, MainGoes, MainFails, hist, Msgs
  <2>4. Stopping'
    BY <1>11, <1>a DEF Stopping, Ending, Failing, RecvMsg, MainGoes, MainFails,
           hist, Msgs
  <2>5. Reports'
    BY <1>11, <1>a DEF Reports, Ending, RecvMsg, MainGoes, MainFails, hist, Msgs
  <2>6. Lateness' /\ Whole'
    BY <1>11, <1>a DEF Lateness, Whole, RecvMsg, MainGoes, MainFails, hist, Msgs
  <2> QED BY <2>1, <2>2, <2>3, <2>4, <2>5, <2>6 DEF IInv
<1>12. CASE RecvFails
  <2>1. TypeOK'
    BY <1>12, <1>a DEF TypeOK, MainPcs, RecvFails, MainGoes, MainFails, env, hist,
           Msgs
  <2>2. Owners'
    BY <1>12, <1>a DEF Owners, RecvFails, MainGoes, MainFails, env, hist, Msgs
  <2>3. Threads'
    BY <1>12, <1>a DEF Threads, RecvFails, MainGoes, MainFails, env, hist, Msgs
  <2>4. Stopping'
    BY <1>12, <1>a DEF Stopping, Ending, Failing, RecvFails, MainGoes, MainFails,
           env, hist, Msgs
  <2>5. Reports'
    BY <1>12, <1>a DEF Reports, Ending, RecvFails, MainGoes, MainFails, env, hist,
           Msgs
  <2>6. Lateness' /\ Whole'
    BY <1>12, <1>a DEF Lateness, Whole, RecvFails, MainGoes, MainFails, env, hist,
           Msgs
  <2> QED BY <2>1, <2>2, <2>3, <2>4, <2>5, <2>6 DEF IInv
<1>13. CASE WriteIssued
  <2>1. TypeOK'
    BY <1>13, <1>a DEF TypeOK, MainPcs, WriteIssued, MainGoes, env, hist
  <2>2. Owners'
    BY <1>13, <1>a DEF Owners, WriteIssued, MainGoes, env, hist
  <2>3. Threads'
    BY <1>13, <1>a DEF Threads, WriteIssued, MainGoes, env, hist
  <2>4. Stopping'
    BY <1>13, <1>a DEF Stopping, Ending, Failing, WriteIssued, MainGoes, env, hist
  <2>5. Reports'
    BY <1>13, <1>a DEF Reports, Ending, WriteIssued, MainGoes, env, hist
  <2>6. Lateness' /\ Whole'
    BY <1>13, <1>a DEF Lateness, Whole, WriteIssued, MainGoes, env, hist
  <2> QED BY <2>1, <2>2, <2>3, <2>4, <2>5, <2>6 DEF IInv
<1>14. CASE WriteFails
  <2>1. TypeOK'
    BY <1>14, <1>a DEF TypeOK, MainPcs, WriteFails, MainGoes, MainFails, env, hist
  <2>2. Owners'
    BY <1>14, <1>a DEF Owners, WriteFails, MainGoes, MainFails, env, hist
  <2>3. Threads'
    BY <1>14, <1>a DEF Threads, WriteFails, MainGoes, MainFails, env, hist
  <2>4. Stopping'
    BY <1>14, <1>a DEF Stopping, Ending, Failing, WriteFails, MainGoes, MainFails,
           env, hist
  <2>5. Reports'
    BY <1>14, <1>a DEF Reports, Ending, WriteFails, MainGoes, MainFails, env, hist
  <2>6. Lateness' /\ Whole'
    BY <1>14, <1>a DEF Lateness, Whole, WriteFails, MainGoes, MainFails, env, hist
  <2> QED BY <2>1, <2>2, <2>3, <2>4, <2>5, <2>6 DEF IInv
<1>15. CASE SetStop
  <2>1. TypeOK'
    BY <1>15, <1>a DEF TypeOK, MainPcs, SetStop, MainGoes, env
  <2>2. Owners'
    BY <1>15, <1>a DEF Owners, SetStop, MainGoes, env
  <2>3. Threads'
    BY <1>15, <1>a DEF Threads, SetStop, MainGoes, env
  <2>4. Stopping'
    BY <1>15, <1>a DEF Stopping, Reports, Ending, Failing, SetStop, MainGoes, env
  <2>5. Reports'
    BY <1>15, <1>a DEF Reports, Ending, SetStop, MainGoes, env
  <2>6. Lateness'
    BY <1>15, <1>a DEF Lateness, SetStop, MainGoes, env
  <2>7. Whole'
    BY <1>15, <1>a DEF Whole, SetStop, MainGoes, env
  <2> QED BY <2>1, <2>2, <2>3, <2>4, <2>5, <2>6, <2>7 DEF IInv
<1>16. CASE Interrupt
  <2>1. TypeOK'
    BY <1>16, <1>a DEF TypeOK, MainPcs, Interrupt, MainGoes, Cancelled, env, hist
  <2>2. Owners'
    BY <1>16, <1>a DEF Owners, Interrupt, MainGoes, Cancelled, env, hist
  <2>3. Threads'
    BY <1>16, <1>a DEF Threads, TypeOK, Interrupt, MainGoes, Cancelled, env, hist
  <2>4. Stopping'
    BY <1>16, <1>a DEF Stopping, Ending, Failing, Interrupt, MainGoes, Cancelled,
           env, hist
  <2>5. Reports'
    BY <1>16, <1>a DEF Reports, Ending, Interrupt, MainGoes, Cancelled, env, hist
  <2>6. Lateness' /\ Whole'
    BY <1>16, <1>a DEF Lateness, Whole, Interrupt, MainGoes, Cancelled, env, hist
  <2> QED BY <2>1, <2>2, <2>3, <2>4, <2>5, <2>6 DEF IInv
<1>17. CASE Join
  <2>1. TypeOK'
    BY <1>17, <1>a DEF TypeOK, MainPcs, Join, MainGoes, shared, env, hist
  <2>2. Owners'
    BY <1>17, <1>a DEF Owners, Join, MainGoes, shared, env, hist
  <2>3. Threads'
    BY <1>17, <1>a DEF Threads, Join, MainGoes, shared, env, hist
  <2>4. Stopping'
    BY <1>17, <1>a DEF Stopping, Ending, Failing, Join, MainGoes, shared, env,
           hist
  <2>5. Reports'
    BY <1>17, <1>a DEF Reports, Ending, Join, MainGoes, shared, env, hist
  <2>6. Lateness' /\ Whole'
    BY <1>17, <1>a DEF Lateness, Whole, Join, MainGoes, shared, env, hist
  <2> QED BY <2>1, <2>2, <2>3, <2>4, <2>5, <2>6 DEF IInv
<1>18. CASE Report
  <2>1. TypeOK'
    BY <1>18, <1>a DEF TypeOK, MainPcs, Report, MainGoes, env, hist
  <2>2. Owners'
    BY <1>18, <1>a DEF Owners, Report, MainGoes, env, hist
  <2>3. Threads'
    BY <1>18, <1>a DEF Threads, Report, MainGoes, env, hist
  <2>4. Stopping'
    BY <1>18, <1>a DEF Stopping, Ending, Failing, Report, MainGoes, env, hist
  <2>5. Reports'
    BY <1>18, <1>a DEF Reports, TypeOK, Threads, Stopping, Ending, Failing,
           Report, MainGoes, env, hist
  <2>6. Lateness' /\ Whole'
    BY <1>18, <1>a DEF Lateness, Whole, Report, MainGoes, env, hist
  <2> QED BY <2>1, <2>2, <2>3, <2>4, <2>5, <2>6 DEF IInv
<1>19. CASE Close
  <2>1. TypeOK'
    BY <1>19, <1>a DEF TypeOK, MainPcs, Close, MainGoes, Cancelled, env, hist
  <2>2. Owners'
    BY <1>19, <1>a DEF Owners, Threads, Close, MainGoes, Cancelled, env, hist
  <2>3. Threads'
    BY <1>19, <1>a DEF Threads, TypeOK, Close, MainGoes, Cancelled, env, hist
  <2>4. Stopping'
    BY <1>19, <1>a DEF Stopping, Ending, Failing, Close, MainGoes, Cancelled, env,
           hist
  <2>5. Reports'
    BY <1>19, <1>a DEF Reports, Ending, Close, MainGoes, Cancelled, env, hist
  <2>6. Lateness' /\ Whole'
    BY <1>19, <1>a DEF Lateness, Whole, Close, MainGoes, Cancelled, env, hist
  <2> QED BY <2>1, <2>2, <2>3, <2>4, <2>5, <2>6 DEF IInv
<1>20. CASE CheckStop
  <2>1. TypeOK'
    BY <1>20, <1>a DEF TypeOK, ReaderPcs, CheckStop, ReaderGoes, shared, env, hist
  <2>2. Owners'
    BY <1>20, <1>a DEF Owners, CheckStop, ReaderGoes, shared, env, hist
  <2>3. Threads'
    BY <1>20, <1>a DEF Threads, CheckStop, ReaderGoes, shared, env, hist
  <2>4. Stopping'
    BY <1>20, <1>a DEF Stopping, Ending, Failing, CheckStop, ReaderGoes, shared,
           env, hist
  <2>5. Lateness'
    BY <1>20, <1>a DEF Lateness, CheckStop, ReaderGoes, shared, env, hist
  <2>6. Whole'
    BY <1>20, <1>a DEF Whole, CheckStop, ReaderGoes, shared, env, hist
  <2>7. Reports'
    BY <1>20, <1>a DEF Reports, Ending, CheckStop, ReaderGoes, shared, env, hist
  <2> QED BY <2>1, <2>2, <2>3, <2>4, <2>5, <2>6, <2>7 DEF IInv
<1>21. CASE ReadIssued
  <2>1. TypeOK'
    BY <1>21, <1>a DEF TypeOK, ReaderPcs, ReadIssued, ReaderGoes, env, hist
  <2>2. Owners'
    BY <1>21, <1>a DEF Owners, ReadIssued, ReaderGoes, env, hist
  <2>3. Threads'
    BY <1>21, <1>a DEF Threads, ReadIssued, ReaderGoes, env, hist
  <2>4. Stopping'
    BY <1>21, <1>a DEF Stopping, Ending, Failing, ReadIssued, ReaderGoes, env,
           hist
  <2>5. Lateness'
    BY <1>21, <1>a DEF Lateness, ReadIssued, ReaderGoes, env, hist
  <2>6. Whole'
    BY <1>21, <1>a DEF Whole, ReadIssued, ReaderGoes, env, hist
  <2>7. Reports'
    BY <1>21, <1>a DEF Reports, Ending, ReadIssued, ReaderGoes, env, hist
  <2> QED BY <2>1, <2>2, <2>3, <2>4, <2>5, <2>6, <2>7 DEF IInv
<1>22. CASE ReadFails
  <2>1. TypeOK'
    BY <1>22, <1>a DEF TypeOK, ReaderPcs, ReadFails, ReaderGoes, env, hist
  <2>2. Owners'
    BY <1>22, <1>a DEF Owners, ReadFails, ReaderGoes, env, hist
  <2>3. Threads'
    BY <1>22, <1>a DEF Threads, ReadFails, ReaderGoes, env, hist
  <2>4. Stopping'
    BY <1>22, <1>a DEF Stopping, Ending, Failing, ReadFails, ReaderGoes, env, hist
  <2>5. Lateness'
    BY <1>22, <1>a DEF Lateness, ReadFails, ReaderGoes, env, hist
  <2>6. Whole'
    BY <1>22, <1>a DEF Whole, ReadFails, ReaderGoes, env, hist
  <2>7. Reports'
    BY <1>22, <1>a DEF Reports, Ending, ReadFails, ReaderGoes, env, hist
  <2> QED BY <2>1, <2>2, <2>3, <2>4, <2>5, <2>6, <2>7 DEF IInv
<1>23. CASE ReadFailureHandled
  <2>1. TypeOK'
    BY <1>23, <1>a DEF TypeOK, ReaderPcs, ReadFailureHandled, ReaderGoes, shared,
           env, hist
  <2>2. Owners'
    BY <1>23, <1>a DEF Owners, ReadFailureHandled, ReaderGoes, shared, env, hist
  <2>3. Threads'
    BY <1>23, <1>a DEF Threads, ReadFailureHandled, ReaderGoes, shared, env, hist
  <2>4. Stopping'
    BY <1>23, <1>a DEF Stopping, Ending, Failing, ReadFailureHandled, ReaderGoes,
           shared, env, hist
  <2>5. Lateness'
    BY <1>23, <1>a DEF Lateness, ReadFailureHandled, ReaderGoes, shared, env, hist
  <2>6. Whole'
    BY <1>23, <1>a DEF Whole, ReadFailureHandled, ReaderGoes, shared, env, hist
  <2>7. Reports'
    BY <1>23, <1>a DEF Reports, Ending, ReadFailureHandled, ReaderGoes, shared,
           env, hist
  <2> QED BY <2>1, <2>2, <2>3, <2>4, <2>5, <2>6, <2>7 DEF IInv
<1>24. CASE FrameLock
  <2>1. TypeOK'
    BY <1>24, <1>a DEF TypeOK, ReaderPcs, FrameLock, ReaderGoes, env, hist
  <2>2. Owners'
    BY <1>24, <1>a DEF Owners, FrameLock, ReaderGoes, env, hist
  <2>3. Threads'
    BY <1>24, <1>a DEF Threads, FrameLock, ReaderGoes, env, hist
  <2>4. Stopping'
    BY <1>24, <1>a DEF Stopping, Ending, Failing, FrameLock, ReaderGoes, env, hist
  <2>5. Lateness'
    BY <1>24, <1>a DEF Lateness, FrameLock, ReaderGoes, env, hist
  <2>6. Whole'
    BY <1>24, <1>a DEF Whole, FrameLock, ReaderGoes, env, hist
  <2>7. Reports'
    BY <1>24, <1>a DEF Reports, Ending, FrameLock, ReaderGoes, env, hist
  <2> QED BY <2>1, <2>2, <2>3, <2>4, <2>5, <2>6, <2>7 DEF IInv
<1>25. CASE FrameHeader
  <2>1. TypeOK'
    BY <1>25, <1>a, SendRoomAssumption DEF TypeOK, ReaderPcs, FrameHeader,
           ReaderGoes, Put, Alive, shared
  <2>2. Owners'
    BY <1>25, <1>a DEF Owners, FrameHeader, ReaderGoes, Put, Alive, shared
  <2>3. Threads'
    BY <1>25, <1>a DEF Threads, FrameHeader, ReaderGoes, Put, Alive, shared
  <2>4. Stopping'
    BY <1>25, <1>a DEF Stopping, Ending, Failing, FrameHeader, ReaderGoes, Put,
           Alive, shared
  <2>5. Lateness'
    BY <1>25, <1>a DEF Lateness, FrameHeader, ReaderGoes, Put, Alive, shared
  <2>6. Whole'
    BY <1>25, <1>a DEF Whole, FrameHeader, ReaderGoes, Put, Alive, shared
  <2>7. Reports'
    BY <1>25, <1>a DEF Reports, Ending, FrameHeader, ReaderGoes, Put, Alive,
           shared
  <2> QED BY <2>1, <2>2, <2>3, <2>4, <2>5, <2>6, <2>7 DEF IInv
<1>26. CASE FramePayload
  <2>1. TypeOK'
    BY <1>26, <1>a, SendRoomAssumption DEF TypeOK, ReaderPcs, FramePayload,
           ReaderGoes, Put, Alive
  <2>2. Owners'
    BY <1>26, <1>a DEF Owners, FramePayload, ReaderGoes, Put, Alive
  <2>3. Threads'
    BY <1>26, <1>a DEF Threads, FramePayload, ReaderGoes, Put, Alive
  <2>4. Stopping'
    BY <1>26, <1>a DEF Stopping, Ending, Failing, FramePayload, ReaderGoes, Put,
           Alive
  <2>5. Lateness'
    BY <1>26, <1>a DEF Lateness, FramePayload, ReaderGoes, Put, Alive
  <2>6. Whole'
    BY <1>26, <1>a DEF Whole, FramePayload, ReaderGoes, Put, Alive
  <2>7. Reports'
    BY <1>26, <1>a DEF Reports, Ending, FramePayload, ReaderGoes, Put, Alive
  <2> QED BY <2>1, <2>2, <2>3, <2>4, <2>5, <2>6, <2>7 DEF IInv
<1>27. CASE FrameFails
  <2>1. TypeOK'
    BY <1>27, <1>a DEF TypeOK, ReaderPcs, FrameFails, ReaderGoes, Alive, env
  <2>2. Owners'
    BY <1>27, <1>a DEF Owners, FrameFails, ReaderGoes, Alive, env
  <2>3. Threads'
    BY <1>27, <1>a DEF Threads, FrameFails, ReaderGoes, Alive, env
  <2>4. Stopping'
    BY <1>27, <1>a DEF Stopping, Ending, Failing, FrameFails, ReaderGoes, Alive,
           env
  <2>5. Lateness'
    BY <1>27, <1>a DEF Lateness, FrameFails, ReaderGoes, Alive, env
  <2>6. Whole'
    BY <1>27, <1>a DEF Whole, FrameFails, ReaderGoes, Alive, env
  <2>7. Reports'
    BY <1>27, <1>a DEF Reports, Ending, FrameFails, ReaderGoes, Alive, env
  <2> QED BY <2>1, <2>2, <2>3, <2>4, <2>5, <2>6, <2>7 DEF IInv
<1>28. CASE Fail
  <2>1. TypeOK'
    BY <1>28, <1>a DEF TypeOK, ReaderPcs, Fail, ReaderGoes, env
  <2>2. Owners'
    BY <1>28, <1>a DEF Owners, Fail, ReaderGoes, env
  <2>3. Threads'
    BY <1>28, <1>a DEF Threads, Fail, ReaderGoes, env
  <2>4. Stopping'
    BY <1>28, <1>a DEF Stopping, Ending, Failing, Fail, ReaderGoes, env
  <2>5. Reports'
    BY <1>28, <1>a DEF Reports, Threads, Ending, Fail, ReaderGoes, env
  <2>6. Lateness'
    BY <1>28, <1>a DEF Lateness, Fail, ReaderGoes, env
  <2>7. Whole'
    BY <1>28, <1>a DEF Whole, Fail, ReaderGoes, env
  <2> QED BY <2>1, <2>2, <2>3, <2>4, <2>5, <2>6, <2>7 DEF IInv
<1>29. CASE FailError
  <2>1. TypeOK'
    BY <1>29, <1>a DEF TypeOK, ReaderPcs, FailError, ReaderGoes, env, hist
  <2>2. Owners'
    BY <1>29, <1>a DEF Owners, FailError, ReaderGoes, env, hist
  <2>3. Threads'
    BY <1>29, <1>a DEF Threads, FailError, ReaderGoes, env, hist
  <2>4. Stopping'
    BY <1>29, <1>a DEF Stopping, Ending, Failing, FailError, ReaderGoes, env, hist
  <2>5. Reports'
    BY <1>29, <1>a DEF Reports, Ending, FailError, ReaderGoes, env, hist
  <2>6. Lateness'
    BY <1>29, <1>a DEF Lateness, FailError, ReaderGoes, env, hist
  <2>7. Whole'
    BY <1>29, <1>a DEF Whole, FailError, ReaderGoes, env, hist
  <2> QED BY <2>1, <2>2, <2>3, <2>4, <2>5, <2>6, <2>7 DEF IInv
<1>30. CASE FailText
  <2>1. TypeOK'
    BY <1>30, <1>a DEF TypeOK, ReaderPcs, FailText, ReaderGoes, env, hist
  <2>2. Owners'
    BY <1>30, <1>a DEF Owners, FailText, ReaderGoes, env, hist
  <2>3. Threads'
    BY <1>30, <1>a DEF Threads, FailText, ReaderGoes, env, hist
  <2>4. Stopping'
    BY <1>30, <1>a DEF Stopping, Ending, Failing, FailText, ReaderGoes, env, hist
  <2>5. Lateness'
    BY <1>30, <1>a DEF Lateness, FailText, ReaderGoes, env, hist
  <2>6. Whole'
    BY <1>30, <1>a DEF Whole, FailText, ReaderGoes, env, hist
  <2>7. Reports'
    BY <1>30, <1>a DEF Reports, Ending, FailText, ReaderGoes, env, hist
  <2> QED BY <2>1, <2>2, <2>3, <2>4, <2>5, <2>6, <2>7 DEF IInv
<1>31. CASE FailShutdown
  <2>1. TypeOK'
    BY <1>31, <1>a DEF TypeOK, ReaderPcs, FailShutdown, ReaderGoes, env, hist
  <2>2. Owners'
    BY <1>31, <1>a DEF Owners, FailShutdown, ReaderGoes, env, hist
  <2>3. Threads'
    BY <1>31, <1>a DEF Threads, FailShutdown, ReaderGoes, env, hist
  <2>4. Stopping'
    BY <1>31, <1>a DEF Stopping, Ending, Failing, FailShutdown, ReaderGoes, env,
           hist
  <2>5. Lateness'
    BY <1>31, <1>a DEF Lateness, FailShutdown, ReaderGoes, env, hist
  <2>6. Whole'
    BY <1>31, <1>a DEF Whole, FailShutdown, ReaderGoes, env, hist
  <2>7. Reports'
    BY <1>31, <1>a DEF Reports, Ending, FailShutdown, ReaderGoes, env, hist
  <2> QED BY <2>1, <2>2, <2>3, <2>4, <2>5, <2>6, <2>7 DEF IInv
<1>32. CASE FailInterrupt
  <2>1. TypeOK'
    BY <1>32, <1>a DEF TypeOK, ReaderPcs, FailInterrupt, ReaderGoes, Cancelled,
           env, hist
  <2>2. Owners'
    BY <1>32, <1>a DEF Owners, FailInterrupt, ReaderGoes, Cancelled, env, hist
  <2>3. Threads'
    BY <1>32, <1>a DEF Threads, TypeOK, FailInterrupt, ReaderGoes, Cancelled, env,
           hist
  <2>4. Stopping'
    BY <1>32, <1>a DEF Stopping, Ending, Failing, FailInterrupt, ReaderGoes,
           Cancelled, env, hist
  <2>5. Lateness'
    BY <1>32, <1>a DEF Lateness, FailInterrupt, ReaderGoes, Cancelled, env, hist
  <2>6. Whole'
    BY <1>32, <1>a DEF Whole, FailInterrupt, ReaderGoes, Cancelled, env, hist
  <2>7. Reports'
    BY <1>32, <1>a DEF Reports, Ending, FailInterrupt, ReaderGoes, Cancelled, env,
           hist
  <2> QED BY <2>1, <2>2, <2>3, <2>4, <2>5, <2>6, <2>7 DEF IInv
<1>33. CASE WriteDone
  <2>1. TypeOK'
    BY <1>33, <1>a DEF TypeOK, MainPcs, WriteDone, MainGoes, env, hist
  <2>2. Owners'
    BY <1>33, <1>a DEF Owners, WriteDone, MainGoes, env, hist
  <2>3. Threads'
    BY <1>33, <1>a DEF Threads, WriteDone, MainGoes, env, hist
  <2>4. Stopping'
    BY <1>33, <1>a DEF Stopping, Ending, Failing, WriteDone, MainGoes, env, hist
  <2>5. Reports'
    BY <1>33, <1>a DEF Reports, Ending, WriteDone, MainGoes, env, hist
  <2>6. Lateness' /\ Whole'
    BY <1>33, <1>a DEF Lateness, Whole, WriteDone, MainGoes, env, hist
  <2> QED BY <2>1, <2>2, <2>3, <2>4, <2>5, <2>6 DEF IInv
<1>34. CASE ReadDone
  <2>1. TypeOK'
    BY <1>34, <1>a DEF TypeOK, ReaderPcs, ReadDone, ReaderGoes, env, hist
  <2>2. Owners'
    BY <1>34, <1>a DEF Owners, ReadDone, ReaderGoes, env, hist
  <2>3. Threads'
    BY <1>34, <1>a DEF Threads, ReadDone, ReaderGoes, env, hist
  <2>4. Stopping'
    BY <1>34, <1>a DEF Stopping, Ending, Failing, ReadDone, ReaderGoes, env, hist
  <2>5. Lateness'
    BY <1>34, <1>a DEF Lateness, ReadDone, ReaderGoes, env, hist
  <2>6. Whole'
    BY <1>34, <1>a DEF Whole, ReadDone, ReaderGoes, env, hist
  <2>7. Reports'
    BY <1>34, <1>a DEF Reports, Ending, ReadDone, ReaderGoes, env, hist
  <2> QED BY <2>1, <2>2, <2>3, <2>4, <2>5, <2>6, <2>7 DEF IInv
<1>35. CASE PeerSends
  <2>1. TypeOK'
    BY <1>35, <1>a DEF TypeOK, PeerSends, shared, hist, Msgs
  <2>2. Owners' /\ Threads' /\ Stopping' /\ Reports' /\ Lateness' /\ Whole'
    BY <1>35, <1>a DEF Owners, Threads, Stopping, Reports, Lateness, Whole,
           Ending, Failing, PeerSends, shared, hist, Msgs
  <2> QED BY <2>1, <2>2 DEF IInv
<1>36. CASE PeerReads
  <2>1. TypeOK'
    BY <1>36, <1>a, SendRoomAssumption DEF TypeOK, PeerReads, shared, hist
  <2>2. Owners' /\ Threads' /\ Stopping' /\ Reports' /\ Lateness' /\ Whole'
    BY <1>36, <1>a DEF Owners, Threads, Stopping, Reports, Lateness, Whole,
           Ending, Failing, PeerReads, shared, hist
  <2> QED BY <2>1, <2>2 DEF IInv
<1>37. CASE PeerCloses
  <2>1. TypeOK'
    BY <1>37, <1>a DEF TypeOK, PeerCloses, shared, hist
  <2>2. Owners' /\ Threads' /\ Stopping' /\ Reports' /\ Lateness' /\ Whole'
    BY <1>37, <1>a DEF Owners, Threads, Stopping, Reports, Lateness, Whole,
           Ending, Failing, PeerCloses, shared, hist
  <2> QED BY <2>1, <2>2 DEF IInv
<1>38. CASE DeviceFails
  <2>1. TypeOK'
    BY <1>38, <1>a DEF TypeOK, DeviceFails, env, hist
  <2>2. Threads'
    BY <1>38, <1>a DEF Threads, DeviceFails, env, hist
  <2>3. Owners' /\ Stopping' /\ Reports' /\ Lateness' /\ Whole'
    BY <1>38, <1>a DEF Owners, Stopping, Reports, Lateness, Whole, Ending,
           Failing, DeviceFails, env, hist
  <2> QED BY <2>1, <2>2, <2>3 DEF IInv
<1>39. CASE SendErrs
  <2>1. TypeOK'
    BY <1>39, <1>a DEF TypeOK, MainPcs, ReaderPcs, SendErrs, MainGoes, ReaderGoes,
           MainFails, Alive, env
  <2>2. Owners'
    BY <1>39, <1>a DEF Owners, SendErrs, MainGoes, ReaderGoes, MainFails, Alive,
           env
  <2>3. Threads'
    BY <1>39, <1>a DEF Threads, SendErrs, MainGoes, ReaderGoes, MainFails, Alive,
           env
  <2>4. Stopping'
    BY <1>39, <1>a DEF Stopping, Ending, Failing, SendErrs, MainGoes, ReaderGoes,
           MainFails, Alive, env
  <2>5. Reports'
    BY <1>39, <1>a DEF Reports, Ending, SendErrs, MainGoes, ReaderGoes, MainFails,
           Alive, env
  <2>6. Lateness'
    BY <1>39, <1>a DEF Lateness, SendErrs, MainGoes, ReaderGoes, MainFails, Alive,
           env
  <2>7. Whole'
    BY <1>39, <1>a DEF Whole, SendErrs, MainGoes, ReaderGoes, MainFails, Alive,
           env
  <2> QED BY <2>1, <2>2, <2>3, <2>4, <2>5, <2>6, <2>7 DEF IInv
<1>40. CASE WaitFails
  <2>1. TypeOK'
    BY <1>40, <1>a DEF TypeOK, MainPcs, WaitFails, MainGoes, shared, env, hist
  <2>2. Owners'
    BY <1>40, <1>a DEF Owners, WaitFails, MainGoes, shared, env, hist
  <2>3. Threads'
    BY <1>40, <1>a DEF Threads, WaitFails, MainGoes, shared, env, hist
  <2>4. Stopping'
    BY <1>40, <1>a DEF Stopping, Ending, Failing, WaitFails, MainGoes, shared,
           env, hist
  <2>5. Reports'
    BY <1>40, <1>a DEF Reports, Ending, WaitFails, MainGoes, shared, env, hist
  <2>6. Lateness' /\ Whole'
    BY <1>40, <1>a DEF Lateness, Whole, WaitFails, MainGoes, shared, env, hist
  <2> QED BY <2>1, <2>2, <2>3, <2>4, <2>5, <2>6 DEF IInv
<1> QED
  BY <1>1, <1>2, <1>3, <1>4, <1>5, <1>6, <1>7, <1>8, <1>9, <1>10, <1>11, <1>12,
         <1>13, <1>14, <1>15, <1>16, <1>17, <1>18, <1>19, <1>20, <1>21, <1>22,
         <1>23, <1>24, <1>25, <1>26, <1>27, <1>28, <1>29, <1>30, <1>31, <1>32,
         <1>33, <1>34, <1>35, <1>36, <1>37, <1>38, <1>39, <1>40 DEF Next,
         MainStep, ReaderStep, Environment

(* So does a stuttering step, and the first state satisfies it. *)
LEMMA StepKeeps == IInv /\ [Next]_vars => IInv'
<1> SUFFICES ASSUME IInv, [Next]_vars PROVE IInv'
  OBVIOUS
<1>1. CASE Next
  BY <1>1, NextKeeps
<1>2. CASE UNCHANGED vars
  <2>1. TypeOK' /\ Owners' /\ Threads'
    BY <1>2 DEF IInv, TypeOK, Owners, Threads, vars
  <2>2. Stopping' /\ Reports'
    BY <1>2 DEF IInv, Stopping, Reports, vars
  <2>3. Lateness' /\ Whole'
    BY <1>2 DEF IInv, Lateness, Whole, vars
  <2> QED BY <2>1, <2>2, <2>3 DEF IInv
<1> QED BY <1>1, <1>2

LEMMA Start == Init => IInv
<1> SUFFICES ASSUME Init PROVE IInv
  OBVIOUS
<1>1. TypeOK
  <2>1. room \in 0 .. SendRoom
    BY SendRoomAssumption DEF Init
  <2>2. io \in [{"main", "reader"} -> {"idle", "pending", "cancelled"}]
    BY DEF Init
  <2>3. /\ heartbeat \in BOOLEAN /\ m = "OPEN" /\ r = "NONE"
        /\ stop = FALSE /\ error = FALSE /\ text = FALSE
        /\ mu = "free" /\ shut = FALSE /\ tap = "closed" /\ errOut = "none"
        /\ inq = "none" /\ peerClosed = FALSE
        /\ wire = "none" /\ stopBy = "none" /\ lost = FALSE /\ late = 0
    BY DEF Init
  <2>4. /\ heartbeat \in BOOLEAN /\ stop \in BOOLEAN /\ error \in BOOLEAN
        /\ text \in BOOLEAN /\ shut \in BOOLEAN /\ peerClosed \in BOOLEAN
        /\ lost \in BOOLEAN
    BY <2>3
  <2>5. /\ m \in MainPcs /\ r \in ReaderPcs /\ mu \in {"free", "main", "reader", "deleted"}
        /\ tap \in {"open", "closed"} /\ errOut \in {"none", "main", "torn", "reader"}
        /\ inq \in {"none", "part"} \union Msgs
        /\ wire \in {"none", "PING", "HEADER", "PAYLOAD"}
        /\ stopBy \in {"none", "main", "reader"} /\ late \in 0 .. 2
    BY <2>3 DEF MainPcs, ReaderPcs
  <2> QED BY <2>1, <2>2, <2>4, <2>5 DEF TypeOK
<1>2. Owners /\ Threads /\ Lateness /\ Whole
  BY DEF Init, Owners, Threads, Lateness, Whole
<1>3. Stopping /\ Reports
  BY DEF Init, Stopping, Reports, Ending, Failing
<1> QED BY <1>1, <1>2, <1>3 DEF IInv

-----------------------------------------------------------------------------
(* IInv holds in every reachable state. *)
THEOREM Inductive == Spec => []IInv
<1> QED BY Start, StepKeeps, PTL DEF Spec

(* TypeOK: in particular the connection never holds more unread sends than   *)
(* the socket buffer takes.                                                  *)
THEOREM TypeCorrect == Spec => []TypeOK
<1>1. IInv => TypeOK
  BY DEF IInv
<1> QED BY <1>1, Inductive, PTL

(* ReaderGoneBeforeCleanup, of done: in run_windows_tap_loop: when pump.err  *)
(* is read for the last time, send_mu deleted and the TAP closed, the reader *)
(* has ended, or never began, and left neither the lock nor a read behind.   *)
THEOREM StackOutlivesReader == Spec => []ReaderGoneBeforeCleanup
<1>1. IInv => ReaderGoneBeforeCleanup
  BY DEF IInv, TypeOK, Owners, Threads, ReaderGoneBeforeCleanup
<1> QED BY <1>1, Inductive, PTL

(* FirstFailureReported, of win_tap_fail and the copies of pump.err: who set *)
(* stop first is who the caller hears of, with the whole message.            *)
THEOREM FirstFailureTold == Spec => []FirstFailureReported
<1>1. IInv => FirstFailureReported
  BY DEF IInv, TypeOK, Reports, FirstFailureReported
<1> QED BY <1>1, Inductive, PTL

(* AtMostOneLateFrame, of win_tap_reader_thread: stop is looked at once per  *)
(* frame, so that one frame at most is sent after it was set.                *)
THEOREM OneLateFrame == Spec => []AtMostOneLateFrame
<1>1. IInv => AtMostOneLateFrame
  BY DEF IInv, Lateness, AtMostOneLateFrame
<1> QED BY <1>1, Inductive, PTL

(* MessagesWhole, of send_mu: neither the heartbeat nor another frame gets   *)
(* between the header of a frame and its payload.                            *)
THEOREM FramesStayWhole == Spec => MessagesWhole
<1>1. IInv /\ [Next]_vars =>
        [wire = "HEADER" /\ wire' # wire => wire' = "PAYLOAD" \/ lost]_vars
  <2> SUFFICES ASSUME IInv, Next, wire = "HEADER", wire' # wire, lost = FALSE
               PROVE  wire' = "PAYLOAD"
    BY DEF IInv, TypeOK
  <2>1. r = "SEND_PAYLOAD" /\ m # "PING_SEND"
    BY DEF IInv, Owners, Whole
  <2>2. PingSent \/ FrameHeader \/ FramePayload
    BY DEF Next, MainStep, ReaderStep, Environment, hist, TapOpenFails, TapOpen,
           CreateThreadFails, CreateThread, PingLock, PingFails, WaitReturns,
           PumpErrorSeen, WaitHandled, RecvMsg, RecvFails, WriteIssued,
           WriteFails, SetStop, Interrupt, Join, Report, Close, CheckStop,
           ReadIssued, ReadFails, ReadFailureHandled, FrameLock, FrameFails, Fail,
           FailError, FailText, FailShutdown, FailInterrupt, WriteDone, ReadDone,
           PeerSends, PeerReads, PeerCloses, DeviceFails, SendErrs, WaitFails
  <2> QED BY <2>1, <2>2 DEF PingSent, FrameHeader, FramePayload, Put
<1> QED BY <1>1, Inductive, PTL DEF Spec, MessagesWhole
=============================================================================
