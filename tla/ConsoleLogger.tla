----------------------------- MODULE ConsoleLogger -----------------------------
(* main() of console_logger: it reads its options with getopt_long(), one answer *)
(* in each step, and then makes its calls of the library.                        *)
EXTENDS Getopt

CONSTANTS
  Number,   \* the tokens that are numbers, with their values
  TooLarge  \* the tokens that are numbers no int or float holds

ASSUME NumberAssumption == DOMAIN Number \cap TooLarge = {}

VARIABLES
  fileName, address1, port, timeout, msg, sevLevel, extraKey, extraField,
  phase,  \* options, usage (printed, and returned), aborted, done
  calls   \* the calls of the library, in their order

optionVars == <<fileName, address1, port, timeout, msg, sevLevel, extraKey, extraField>>
vars == <<getoptVars, optionVars, phase, calls>>

OptString == [c \in {"h", "f", "p", "t", "l", "m", "a", "e"} |->
  CASE c = "h" -> "none" [] c \in {"f", "a"} -> "optional" [] OTHER -> "required"]

LongOptions ==
  << [name |-> <<"h", "elp">>,     takes |-> "none",     val |-> "h"],
     [name |-> <<"f", "ile">>,     takes |-> "optional", val |-> "f"],
     [name |-> <<"a", "ddress">>,  takes |-> "optional", val |-> "a"],
     [name |-> <<"p", "ort">>,     takes |-> "required", val |-> "p"],
     [name |-> <<"t", "ime">>,     takes |-> "required", val |-> "t"],
     [name |-> <<"l", "evel">>,    takes |-> "required", val |-> "l"],
     [name |-> <<"m", "essage">>,  takes |-> "required", val |-> "m"],
     [name |-> <<"e", "xtra">>,    takes |-> "optional", val |-> "e"] >>
-----------------------------------------------------------------------------
Init ==
  /\ GetoptInit
  /\ fileName = <<"messages.log">> /\ address1 = <<"localhost">>
  /\ port = 12201 /\ timeout = 1 /\ sevLevel = 7
  /\ msg = << >> /\ extraKey = << >> /\ extraField = << >>
  /\ phase = "options"
  /\ calls = << >>

Parse ==
  /\ phase = "options"
  /\ GetoptStep
  /\ UNCHANGED <<optionVars, phase, calls>>

On(c) == phase = "options" /\ answer = c

\* PrintAlternatives() and return.
Usage == phase' = "usage" /\ UNCHANGED <<getoptVars, optionVars, calls>>

Goes == CallAgain /\ UNCHANGED <<phase, calls>>

OnHelp == On("h") /\ Usage

\* Defect: without a name, the one set before is kept.
OnFileKept ==
  /\ On("f")
  /\ fileName' = IF optarg # Null THEN optarg ELSE fileName
  /\ Goes
  /\ UNCHANGED <<address1, port, timeout, msg, sevLevel, extraKey, extraField>>

OnFile ==
  /\ On("f")
  /\ fileName' = IF optarg # Null THEN optarg ELSE << >>
  /\ Goes
  /\ UNCHANGED <<address1, port, timeout, msg, sevLevel, extraKey, extraField>>

OnAddress ==
  /\ On("a")
  /\ address1' = IF optarg # Null THEN optarg ELSE << >>
  /\ Goes
  /\ UNCHANGED <<fileName, port, timeout, msg, sevLevel, extraKey, extraField>>

\* std::stoi() and std::stof() read as much as is a number.
IsNumber(value) == value # << >> /\ value[1] \in DOMAIN Number

\* Only std::invalid_argument is caught; std::out_of_range ends the program.
Unreadable ==
  /\ ~IsNumber(optarg)
  /\ IF optarg # << >> /\ optarg[1] \in TooLarge
     THEN phase' = "aborted" /\ UNCHANGED <<getoptVars, optionVars, calls>>
     ELSE Usage

OnPort ==
  /\ On("p")
  /\ \/ Unreadable
     \/ /\ IsNumber(optarg)
        /\ port' = Number[optarg[1]] % 2^16
        /\ Goes
        /\ UNCHANGED <<fileName, address1, timeout, msg, sevLevel, extraKey, extraField>>

OnTime ==
  /\ On("t")
  /\ \/ Unreadable
     \/ /\ IsNumber(optarg)
        /\ timeout' = Number[optarg[1]]
        /\ Goes
        /\ UNCHANGED <<fileName, address1, port, msg, sevLevel, extraKey, extraField>>

OnMessage ==
  /\ On("m")
  /\ msg' = optarg
  /\ Goes
  /\ UNCHANGED <<fileName, address1, port, timeout, sevLevel, extraKey, extraField>>

\* Defect: the lower bound is not looked at.
OnLevelBelow ==
  /\ On("l")
  /\ \/ Unreadable
     \/ IsNumber(optarg) /\ Number[optarg[1]] > 7 /\ Usage
     \/ /\ IsNumber(optarg) /\ Number[optarg[1]] <= 7
        /\ sevLevel' = Number[optarg[1]]
        /\ Goes
        /\ UNCHANGED <<fileName, address1, port, timeout, msg, extraKey, extraField>>

\* The level is checked after it is set, which is not seen: main() returns.
OnLevel ==
  /\ On("l")
  /\ \/ Unreadable
     \/ IsNumber(optarg) /\ Number[optarg[1]] \notin 0..7 /\ Usage
     \/ /\ IsNumber(optarg) /\ Number[optarg[1]] \in 0..7
        /\ sevLevel' = Number[optarg[1]]
        /\ Goes
        /\ UNCHANGED <<fileName, address1, port, timeout, msg, extraKey, extraField>>

Colon(value) == FirstOf({i \in DOMAIN value : value[i] = ":"})

\* Defect: a field that cannot be parsed leaves the key.
OnExtraHalf ==
  /\ On("e")
  /\ IF optarg = Null \/ ":" \notin {optarg[i] : i \in DOMAIN optarg}
     THEN UNCHANGED <<extraKey, extraField>>
     ELSE /\ extraField' = SubSeq(optarg, Colon(optarg) + 1, Len(optarg))
          /\ extraKey' = SubSeq(optarg, 1, Colon(optarg) - 1)
  /\ Goes
  /\ UNCHANGED <<fileName, address1, port, timeout, msg, sevLevel>>

\* "key:value".  Without a colon nothing changes; with an empty half the field is
\* given up, though extraField stays as it was read.
OnExtra ==
  /\ On("e")
  /\ IF optarg = Null \/ ":" \notin {optarg[i] : i \in DOMAIN optarg}
     THEN UNCHANGED <<extraKey, extraField>>
     ELSE /\ extraField' = SubSeq(optarg, Colon(optarg) + 1, Len(optarg))
          /\ extraKey' = IF extraField' = << >> THEN << >>
                         ELSE SubSeq(optarg, 1, Colon(optarg) - 1)
  /\ Goes
  /\ UNCHANGED <<fileName, address1, port, timeout, msg, sevLevel>>

\* The switch has no default.
OnUnknown == On(Unknown) /\ Goes /\ UNCHANGED optionVars

OptionsEnd == On(Nothing) /\ msg = << >> /\ Usage

\* What main() calls once it has a message; the arguments are argv as getopt left it.
Offer(wanted, handler) == IF wanted THEN <<handler>> ELSE << >>
HandlerCalls ==
  << [call |-> "RemoveAllHandlers"],
     [call |-> "AddLogHandler", handler |-> "ConsoleInterface"] >>
  \o Offer(fileName # << >>,
           [call |-> "AddLogHandler", handler |-> "FileInterface", name |-> fileName])
  \o Offer(address1 # << >>,
           [call |-> "AddLogHandler", handler |-> "GraylogInterface",
            name |-> address1, port |-> port])
LibraryCalls ==
  << [call |-> "AddField", key |-> "arguments",
      value |-> [i \in 1..(Argc - 1) |-> argv[i]]],
     [call |-> "SetMinimumSeverity", level |-> 7] >>
  \o HandlerCalls
  \o << [call |-> "Msg", level |-> sevLevel, msg |-> msg,
         extra |-> IF extraKey # << >> THEN <<extraKey, extraField>> ELSE << >>],
        [call |-> "FmtMsg", level |-> 6],
        [call |-> "Flush", seconds |-> timeout] >>

LogAndFlush ==
  /\ On(Nothing) /\ msg # << >>
  /\ calls' = LibraryCalls
  /\ phase' = "done"
  /\ UNCHANGED <<getoptVars, optionVars>>

Next ==
  \/ Parse
  \/ OnHelp \/ OnFile \/ OnAddress \/ OnPort \/ OnTime \/ OnMessage \/ OnLevel
  \/ OnExtra \/ OnUnknown \/ OptionsEnd \/ LogAndFlush

Spec == Init /\ [][Next]_vars /\ WF_vars(Next)
-----------------------------------------------------------------------------
(* Properties *)

LastOf(S) == {i \in S : \A j \in S : j <= i}
CallsOf(name) == {calls[i] : i \in {j \in DOMAIN calls : calls[j].call = name}}

\* The field that is logged was given as a whole by one -e, the last that has a
\* colon: no key goes with the value of another one.
Fields == {i \in DOMAIN reported :
             LET v == reported[i].value
             IN reported[i].answer = "e" /\ v # Null /\ \E n \in DOMAIN v : v[n] = ":"}
ExtraFromOneOption == \A c \in CallsOf("Msg") :
  /\ c.extra # << >> => Fields # {} /\ c.extra[1] # << >> /\ c.extra[2] # << >>
  /\ \A i \in LastOf(Fields) :
       LET v == reported[i].value
       IN IF c.extra = << >> THEN v[1] = ":" \/ v[Len(v)] = ":"
          ELSE v = c.extra[1] \o <<":">> \o c.extra[2]

\* A log file is written to, and a server sent to, exactly if the last -f, or -a,
\* has a name or there is none (ConsoleLogger.cpp:185).
NameGiven(c, default) ==
  LET places == {i \in DOMAIN reported : reported[i].answer = c}
  IN (IF places = {} THEN {default} ELSE {reported[i].value : i \in LastOf(places)})
     \ {Null, << >>}
HandlersAsAsked == phase = "done" =>
  LET names(h) == {c.name : c \in {x \in CallsOf("AddLogHandler") : x.handler = h}}
  IN /\ names("FileInterface") = NameGiven("f", <<"messages.log">>)
     /\ names("GraylogInterface") = NameGiven("a", <<"localhost">>)

\* Whatever the options, the message has text, a severity that SetMinimumSeverity()
\* lets pass and ConsoleInterface's table of names has (ConsoleInterface.cpp:16),
\* and every handler is there before it.
MessageGoesOut == \A i \in DOMAIN calls : calls[i].call = "Msg" =>
  /\ calls[i].msg # << >>
  /\ \A c \in CallsOf("SetMinimumSeverity") : calls[i].level \in 0..c.level
  /\ \A j \in DOMAIN calls :
       calls[j].call \in {"RemoveAllHandlers", "AddLogHandler"} => j < i

\* Every command line is read to its end, unless the program leaves the table of
\* long options.
Ends == <>(phase # "options" \/ answer = "undefined")
=============================================================================
