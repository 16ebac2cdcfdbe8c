-------------------------------- MODULE Logger --------------------------------
(* Logger, the singleton behind Log::Msg() and its companions.  It is a          *)
(* LoggingBase whose addLogHandler() does not wait for its work and replaces a    *)
(* ConsoleInterface by another, and whose constructor adds a ConsoleInterface.    *)
EXTENDS LoggingBase

CONSTANT Console  \* the handlers that are ConsoleInterfaces
CONSTANT Default  \* the one the constructor adds; the application has no pointer to it

ASSUME ConsoleAssumption == Console \subseteq Handler /\ Default \in Console

\* Logger::addLogHandler()
AddLogHandlerAsync(t, h) == Adds(t, h, "replace") /\ UNCHANGED waits

\* Defects: a second console is added to the first, or it is refused.
Appended(list, h) == Append(list, h)
Kept(list, h) ==
  IF h \in Console /\ Set(list) \cap Console # {} THEN list ELSE Append(list, h)

Replaced(list, h) ==
  IF h \in Console /\ Set(list) \cap Console # {}
  THEN [i \in DOMAIN list |-> IF list[i] \in Console THEN h ELSE list[i]]
  ELSE Append(list, h)

\* The consoles that the list holds, in its order.
Consoles(list) ==
  LET places == {i \in DOMAIN list : list[i] \in Console}
      place  == CHOOSE s \in [1..Cardinality(places) -> places] :
                  \A i, j \in DOMAIN s : i < j => s[i] < s[j]
  IN  [i \in DOMAIN place |-> list[place[i]]]

\* Each console in Handlers is overwritten, which drops the pointer to it; the
\* promise-free work ends when the old handlers are destroyed.
RunReplace(t) ==
  /\ Works("replace", t)
  /\ LET h   == WorkOf(t).arg
         old == Consoles(handlers)
     IN /\ handlers' = Replaced(handlers, h)
        /\ Drops("drop", WorkOf(t).call, IF h \in Console THEN old ELSE << >>, handlers')
        /\ dropped' = IF h \in Console THEN dropped \cup Set(old) ELSE dropped
  /\ UNCHANGED <<flushing, minSeverity, baseMsg, sink, answer, given, stopper,
                 lastField, creatorSet, outsideVars>>

\* Logger(): the base's work, then that of its own addLogHandler().
LoggerInit ==
  Constructed(<<Identify, Item("replace", <<Main, 0>>, Default)>>, Handler \ {Default})

LoggerNext ==
  \/ \E t \in Thread : \/ Application(t)
                       \/ RunReplace(t)
                       \/ \E h \in Handler : AddLogHandlerAsync(t, h)
  \/ Worker \/ Async
  \/ \E h \in Handler : HandlerThread(h)

LoggerSpec == LoggerInit /\ [][LoggerNext]_vars

-----------------------------------------------------------------------------
\* No message appears on the console twice, whatever handlers are added: it goes
\* to one ConsoleInterface.
OneConsole ==
  /\ \A i, j \in DOMAIN handlers :
       handlers[i] \in Console /\ handlers[j] \in Console => i = j
  /\ \A h, k \in Console : h # k =>
       {msg.call : msg \in Set(given[h])} \cap {msg.call : msg \in Set(given[k])} = {}

\* When the constructing thread has replaced the console, its messages never reach
\* the default one again.  (Another thread's console may be replaced by it: nothing
\* orders that thread's work after the constructor's.)
NoStaleConsole == \A h \in Console \ {Default} : \A msg \in Set(given[Default]) :
  adder[h][1] = Main /\ msg.call[1] = Main =>
    adder[h] = NoCall \/ msg.call[2] < adder[h][2]

\* Once addLogHandler() has returned to a thread, getHandlers() includes the
\* handler, unless it was removed or replaced (examples.md:147).
AddedIsVisible == \A h \in Handler \ {Default} :
  adder[h] # NoCall => h \in Set(handlers) \cup dropped
=============================================================================
