------------------------------ MODULE Logging ------------------------------
(***************************************************************************)
(* The global logger (logging.cpp) as the kernel library's logging         *)
(* connections use it (LoggingConnection in kernel/bitcoinkernel.cpp).     *)
(* Messages are kept in a bounded buffer until the first connection, which *)
(* receives them, and go to the callbacks of all connections from then on; *)
(* when the last connection is destroyed the logger buffers again.         *)
(*                                                                         *)
(* A connection is created and destroyed under cs_main, in several         *)
(* sections of the logger's own mutex m_cs; other threads log in between.  *)
(* The callbacks run with m_cs held, one step each.  They return, and they *)
(* do not log themselves.  There is no log file and no console: the        *)
(* library's interface cannot ask for them, so StartLogging cannot fail.   *)
(* The lines the connections log about themselves are like any others.     *)
(***************************************************************************)
EXTENDS Naturals, FiniteSets, Sequences, Functions

CONSTANTS
    Thread, Connection,
    NoThread, NoConnection,
    Size,       \* what a message may take of the buffer
    MaxBuffer,  \* m_max_buffer_memusage
    MaxMsg      \* bound: messages

ASSUME LoggingAssumption ==
    /\ Size \subseteq Nat \ {0} /\ MaxBuffer \in Nat /\ MaxMsg \in Nat
    /\ NoThread \notin Thread /\ NoConnection \notin Connection

VARIABLES
    m_buffering, m_msgs_before_open, m_cur_buffer_memusage,
    m_buffer_lines_discarded,
    m_print_callbacks,  \* the connections whose callbacks are in the list
    m_cs, cs_main,      \* who holds them
    calls,              \* the callbacks the holder of m_cs has still to call
    pc, connection,     \* where a thread is, and with which connection
    data,               \* user data: "none" yet, "live" or "destroyed"
    disabled,           \* btck_logging_disable has been called
    logged,             \* history: messages are numbered as they take m_cs
    heard,              \* history: what each callback was given
    discarded, missed,  \* history: dropped for space, and with no one to tell
    announced           \* history: how many "log lines discarded" were told

buffer == <<m_msgs_before_open, m_cur_buffer_memusage, m_buffer_lines_discarded>>
history == <<logged, heard, discarded, missed, announced>>
vars == <<m_buffering, buffer, m_print_callbacks, m_cs, cs_main, calls, pc,
          connection, data, disabled, history>>

Message == 1 .. MaxMsg

Init ==
    /\ m_buffering = TRUE
    /\ m_msgs_before_open = <<>> /\ m_cur_buffer_memusage = 0
    /\ m_buffer_lines_discarded = 0
    /\ m_print_callbacks = <<>>
    /\ m_cs = NoThread /\ cs_main = NoThread /\ calls = <<>>
    /\ pc = [t \in Thread |-> "idle"]
    /\ connection = [t \in Thread |-> NoConnection]
    /\ data = [c \in Connection |-> "none"]
    /\ disabled = FALSE
    /\ logged = 0 /\ heard = [c \in Connection |-> <<>>]
    /\ discarded = {} /\ missed = {} /\ announced = 0

Goto(t, label) == pc' = [pc EXCEPT ![t] = label]

\* A call is over; a constructor or destructor gives cs_main back.
Return(t) ==
    /\ Goto(t, "idle")
    /\ connection' = [connection EXCEPT ![t] = NoConnection]
    /\ cs_main' = IF cs_main = t THEN NoThread ELSE cs_main

m_cs_free == m_cs = NoThread

\* The calls of all callbacks, in their order, for the messages ms
CallsFor(ms) ==
    LET n == Len(m_print_callbacks)
    IN  [k \in 1 .. Len(ms) * n |->
            [to |-> m_print_callbacks[((k - 1) % n) + 1], msg |-> ms[((k - 1) \div n) + 1]]]

\* t calls them with m_cs held, and then returns.
CallAll(t, ms) ==
    IF ms = <<>> \/ m_print_callbacks = <<>>
    THEN Return(t) /\ UNCHANGED <<m_cs, calls>>
    ELSE /\ calls' = CallsFor(ms)
         /\ m_cs' = t
         /\ Goto(t, "callback")
         /\ UNCHANGED <<cs_main, connection>>

-----------------------------------------------------------------------------
(* Logging a message                                                       *)

\* The sum of the sizes of the lines, counted as the bytes of all of them
Bytes(buf) == UNION {{i} \X (1 .. buf[i].size) : i \in DOMAIN buf}

Usage(buf) == Cardinality(Bytes(buf))

\* What is left of the counter when the first k lines have been taken
Remaining(usage, buf, k) == usage - Usage(SubSeq(buf, 1, k))

\* How many lines the loop of LogPrintStr_ takes from the front of the buffer: it
\* goes on while the counter is over the limit and there is a line.
Excess(usage, buf) ==
    CHOOSE k \in 0 .. Len(buf) :
        /\ k = Len(buf) \/ Remaining(usage, buf, k) <= MaxBuffer
        /\ \A j \in 0 .. k - 1 : Remaining(usage, buf, j) > MaxBuffer

\* Mutant: the buffer is for want of a callback.
Buffering_NoCallback == m_buffering /\ m_print_callbacks = <<>>

Buffering == m_buffering

BufferMessage(n, size) ==
    LET usage == m_cur_buffer_memusage + size
        buf == Append(m_msgs_before_open, [msg |-> n, size |-> size])
        k == Excess(usage, buf)
        left == Remaining(usage, buf, k)
    IN  /\ m_msgs_before_open' = SubSeq(buf, k + 1, Len(buf))
        /\ m_cur_buffer_memusage' = IF left > MaxBuffer THEN 0 ELSE left
        /\ m_buffer_lines_discarded' = m_buffer_lines_discarded + k
        /\ discarded' = discarded \cup {buf[i].msg : i \in 1 .. k}

LogPrintStr(t, size) ==
    /\ pc[t] = "idle" /\ m_cs_free
    /\ logged < MaxMsg
    /\ logged' = logged + 1
    /\ \/ /\ Buffering
          /\ BufferMessage(logged', size)
          /\ UNCHANGED <<m_cs, cs_main, calls, pc, connection, missed>>
       \/ /\ ~Buffering
          /\ CallAll(t, <<logged'>>)
          /\ missed' = IF m_print_callbacks = <<>> THEN missed \cup {logged'} ELSE missed
          /\ UNCHANGED <<buffer, discarded>>
    /\ UNCHANGED <<m_buffering, m_print_callbacks, data, disabled, heard, announced>>

\* A callback returns; after the last one m_cs is released.
Callback(t) ==
    LET call == Head(calls)
    IN  /\ pc[t] = "callback"
        /\ heard' = [heard EXCEPT ![call.to] = Append(@, call.msg)]
        /\ calls' = Tail(calls)
        /\ IF calls' # <<>>
           THEN UNCHANGED <<m_cs, pc, cs_main, connection>>
           ELSE m_cs' = NoThread /\ Return(t)
        /\ UNCHANGED <<m_buffering, buffer, m_print_callbacks, data, disabled,
                       logged, discarded, missed, announced>>

-----------------------------------------------------------------------------
(* LoggingConnection::LoggingConnection                                    *)

Connect(t, c) ==
    /\ pc[t] = "idle" /\ cs_main = NoThread
    /\ data[c] = "none" /\ ~disabled
    /\ cs_main' = t
    /\ connection' = [connection EXCEPT ![t] = c]
    /\ data' = [data EXCEPT ![c] = "live"]
    /\ Goto(t, "PushBackCallback")
    /\ UNCHANGED <<m_buffering, buffer, m_print_callbacks, m_cs, calls, disabled,
                   history>>

\* PushBackCallback and NumConnections(): the list changes under cs_main only.
\* The first connection starts the logging.
PushBackCallback(t) ==
    /\ pc[t] = "PushBackCallback" /\ m_cs_free
    /\ m_print_callbacks' = Append(m_print_callbacks, connection[t])
    /\ IF Len(m_print_callbacks') = 1
       THEN Goto(t, "StartLogging") /\ UNCHANGED <<cs_main, connection>>
       ELSE Return(t)
    /\ UNCHANGED <<m_buffering, buffer, m_cs, calls, data, disabled, history>>

\* Mutant: the usage is not reset with the buffer.
UsageAfterStart_Stale == m_cur_buffer_memusage

UsageAfterStart == 0

\* Mutant: the loop leaves the last line in the buffer.
BufferedMessages_ButLast ==
    [i \in 1 .. Len(m_msgs_before_open) - 1 |-> m_msgs_before_open[i].msg]

BufferedMessages == [i \in DOMAIN m_msgs_before_open |-> m_msgs_before_open[i].msg]

\* StartLogging, called by a connection's constructor or by DisableLogging
StartLogging(t) ==
    LET ms == BufferedMessages
    IN  /\ pc[t] = "StartLogging" /\ m_cs_free
        /\ m_buffering' = FALSE
        /\ m_msgs_before_open' = <<>> /\ m_cur_buffer_memusage' = UsageAfterStart
        /\ CallAll(t, ms)
        /\ announced' = announced + m_buffer_lines_discarded
        /\ missed' = IF m_print_callbacks = <<>> THEN missed \cup Range(ms) ELSE missed
        /\ UNCHANGED <<m_buffer_lines_discarded, m_print_callbacks, data, disabled,
                       logged, heard, discarded>>

\* btck_logging_disable, "not thread or re-entry safe": called once, with no
\* connection.  Its second section is StartLogging.
DisableLogging(t) ==
    /\ ~disabled
    /\ pc[t] = "idle" /\ cs_main = NoThread /\ m_cs_free
    /\ m_buffering /\ m_print_callbacks = <<>>
    /\ disabled' = TRUE
    /\ Goto(t, "StartLogging")
    /\ UNCHANGED <<m_buffering, buffer, m_print_callbacks, m_cs, cs_main, calls,
                   connection, data, history>>

-----------------------------------------------------------------------------
(* LoggingConnection::~LoggingConnection                                   *)

\* Mutant: the callback stays in the list.
FirstOfDestructor_Data == "deleter"

FirstOfDestructor == "DeleteCallback"

Destroy(t, c) ==
    /\ pc[t] = "idle" /\ cs_main = NoThread
    /\ c \in Range(m_print_callbacks)
    /\ cs_main' = t
    /\ connection' = [connection EXCEPT ![t] = c]
    /\ Goto(t, FirstOfDestructor)
    /\ UNCHANGED <<m_buffering, buffer, m_print_callbacks, m_cs, calls, data,
                   disabled, history>>

\* erase(it) of the list, for the iterator to e
Erase(s, e) ==
    LET it == CHOOSE i \in 1 .. Len(s) : s[i] = e
    IN  SubSeq(s, 1, it - 1) \o SubSeq(s, it + 1, Len(s))

DeleteCallback(t) ==
    /\ pc[t] = "DeleteCallback" /\ m_cs_free
    /\ m_print_callbacks' = Erase(m_print_callbacks, connection[t])
    /\ Goto(t, "deleter")
    /\ UNCHANGED <<m_buffering, buffer, m_cs, cs_main, calls, connection, data,
                   disabled, history>>

deleter(t) ==
    /\ pc[t] = "deleter"
    /\ data' = [data EXCEPT ![connection[t]] = "destroyed"]
    /\ Goto(t, "Enabled")
    /\ UNCHANGED <<m_buffering, buffer, m_print_callbacks, m_cs, cs_main, calls,
                   connection, disabled, history>>

\* What Enabled() returns, without console and file
StaysEnabled == m_buffering \/ m_print_callbacks # <<>>

Enabled(t) ==
    /\ pc[t] = "Enabled" /\ m_cs_free
    /\ IF StaysEnabled
       THEN Return(t)
       ELSE Goto(t, "DisconnectTestLogger") /\ UNCHANGED <<cs_main, connection>>
    /\ UNCHANGED <<m_buffering, buffer, m_print_callbacks, m_cs, calls, data,
                   disabled, history>>

DisconnectTestLogger(t) ==
    /\ pc[t] = "DisconnectTestLogger" /\ m_cs_free
    /\ m_buffering' = TRUE
    /\ m_print_callbacks' = <<>>
    /\ m_msgs_before_open' = <<>> /\ m_cur_buffer_memusage' = 0
    /\ m_buffer_lines_discarded' = 0
    /\ Return(t)
    /\ UNCHANGED <<m_cs, calls, data, disabled, history>>

-----------------------------------------------------------------------------
Continue(t) ==
    \/ Callback(t) \/ PushBackCallback(t) \/ StartLogging(t)
    \/ DeleteCallback(t) \/ deleter(t) \/ Enabled(t) \/ DisconnectTestLogger(t)

Next ==
    \E t \in Thread :
        \/ \E size \in Size : LogPrintStr(t, size)
        \/ \E c \in Connection : Connect(t, c) \/ Destroy(t, c)
        \/ DisableLogging(t)
        \/ Continue(t)

Spec == Init /\ [][Next]_vars

-----------------------------------------------------------------------------
(* Properties                                                              *)

\* The members have their types; the buffer keeps to its limit, even after a
\* message that is larger than the limit.
TypeOK ==
    /\ m_buffering \in BOOLEAN /\ disabled \in BOOLEAN
    /\ m_msgs_before_open \in Seq([msg : Message, size : Size])
    /\ m_cur_buffer_memusage \in 0 .. MaxBuffer
    /\ m_buffer_lines_discarded \in 0 .. MaxMsg
    /\ m_print_callbacks \in Seq(Connection)
    /\ m_cs \in Thread \cup {NoThread} /\ cs_main \in Thread \cup {NoThread}
    /\ calls \in Seq([to : Connection, msg : Message])
    /\ connection \in [Thread -> Connection \cup {NoConnection}]
    /\ data \in [Connection -> {"none", "live", "destroyed"}]

\* m_cur_buffer_memusage, kept up to date by additions and subtractions and
\* resets, is what the buffered lines take; and when logging has started, the
\* connections have been told of as many discarded lines as there were, however
\* often logging stopped and started.
BufferExact ==
    /\ TypeOK
    /\ m_cur_buffer_memusage = Usage(m_msgs_before_open)
    /\ ~m_buffering => announced = Cardinality(discarded)

\* Whoever holds m_cs to call the callbacks finds the user data of each of them
\* alive, although other threads destroy connections meanwhile.
UserDataAlive == \A i \in DOMAIN calls : data[calls[i].to] = "live"

\* A connection hears all messages from the first it hears, each once and in
\* the order they were logged in: those of the buffer come before those that
\* other threads log while the connection is made, and none is left out.
HeardInOrder ==
    \A c \in Connection : \A i \in 1 .. Len(heard[c]) - 1 : heard[c][i + 1] = heard[c][i] + 1

\* While no call is under way, every message has been given to a connection, or
\* waits in the buffer, or was discarded for space and counted, or was logged
\* when nobody listened.  That happens only while the destructor of the last
\* connection is between two of its sections, or after btck_logging_disable.
Accounted ==
    /\ m_cs = NoThread =>
           1 .. logged = (UNION {Range(heard[c]) : c \in Connection})
                           \cup {m.msg : m \in Range(m_msgs_before_open)}
                           \cup discarded \cup missed
    /\ ~m_buffering /\ m_print_callbacks = <<>> =>
           \/ disabled
           \/ \E t \in Thread : pc[t] \in {"deleter", "Enabled", "DisconnectTestLogger"}

\* "Messages that were logged before a connection is created are buffered"
\* (bitcoinkernel.h), unless logging has been disabled.  The code does not keep
\* this: see the README.
NothingMissed == disabled \/ missed = {}
=============================================================================
