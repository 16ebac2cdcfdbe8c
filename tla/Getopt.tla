-------------------------------- MODULE Getopt --------------------------------
(* getopt_long() of console_logger/getopt.h: one option of the command line for *)
(* each call.  Words that are no options are passed over and, block by block,    *)
(* exchanged with the options that follow them.                                  *)
(*                                                                             *)
(* An argument is a sequence of tokens; a token is a character, or several that *)
(* are always read together (a number, the rest of a name).  argv is indexed as  *)
(* in C: argv[0] is the program's name.                                          *)
EXTENDS Integers, Sequences, FiniteSets

CONSTANTS
  Token,        \* the tokens
  ShortOption,  \* the option string: what each letter takes
  LongOption,   \* long_options[]: name, what it takes, the letter it stands for
  CommandLine   \* the command lines, each a sequence of arguments

ASSUME CommandAssumption == CommandLine \subseteq Seq(Seq(Token))

Null    == <<"NULL">>
Nothing == "-1"
Unknown == "?"
Program == <<"console_logger">>

\* No letter is -1, or one of the states below.
ASSUME OptionAssumption ==
  /\ \A c \in DOMAIN ShortOption :
       /\ c \notin {Nothing, "running", "undefined"}
       /\ ShortOption[c] \in {"none", "required", "optional"}
  /\ DOMAIN LongOption \subseteq Nat
  /\ \A i \in DOMAIN LongOption :
       /\ LongOption[i].val \notin {Nothing, "running", "undefined"}
       /\ LongOption[i].takes \in {"none", "required", "optional"}

VARIABLES
  argv, optind, optarg, place,  \* as in the code; place holds what is left to scan
  nonoptStart, nonoptEnd,       \* nonopt_start, nonopt_end
  permute,   \* FLAG_PERMUTE is on: POSIXLY_CORRECT is not set
  answer,    \* running, or what getopt_long() returned
  given,     \* history: argv as the program got it
  role,      \* history: what became of each argument: unread, option or word
  reported   \* history: the answers, each with its value and its argument's place

scanVars == <<argv, place, nonoptStart, nonoptEnd>>
getoptVars == <<scanVars, optind, optarg, permute, answer, given, role, reported>>

Argc == Cardinality(DOMAIN argv)
-----------------------------------------------------------------------------
(* permute_args() exchanges two neighbouring blocks in place, cycle by cycle.    *)

\* gcd(a, b) is gcd[b][a].
gcd[b \in Nat \ {0}] == [a \in Nat |-> IF a % b = 0 THEN b ELSE gcd[a % b][b]]

\* The k-th exchange, after `last`: argv, and the place that was met.
Exchange(start, end, optEnd, k, last) ==
  LET nnonopts == end - start
      nopts    == optEnd - end
      cyclelen == (optEnd - start) \div gcd[nopts][nnonopts]
      cstart   == end + ((k - 1) \div cyclelen)
      from     == IF (k - 1) % cyclelen = 0 THEN cstart ELSE last.pos
      pos      == IF from >= end THEN from - nnonopts ELSE from + nopts
      v        == last.argv
  IN [argv |-> [v EXCEPT ![pos] = v[cstart], ![cstart] = v[pos]], pos |-> pos]

Exchanges(start, end, optEnd, v) ==
  LET moved[k \in 0..(optEnd - start)] ==
        IF k = 0 THEN [argv |-> v, pos |-> end]
        ELSE Exchange(start, end, optEnd, k, moved[k - 1])
  IN moved

\* Defect: only the first cycle is followed.
PermuteFirstCycle(start, end, optEnd, v) ==
  Exchanges(start, end, optEnd, v)
    [(optEnd - start) \div gcd[optEnd - end][end - start]].argv

PermuteArgs(start, end, optEnd, v) ==
  Exchanges(start, end, optEnd, v)[optEnd - start].argv

Exchanged == PermuteArgs(nonoptStart, nonoptEnd, optind, argv)
-----------------------------------------------------------------------------
(* Scanning: `place` is empty, the next argument is looked at.                   *)

Scanning == answer = "running" /\ place = << >>

\* "-" alone is a word: it is not in the option string.
IsWord(a) == ~(Len(a) > 1 /\ a[1] = "-")

Answers(c, value) == answer' = c /\ optarg' = value

\* Arguments `from` to `to` of the given ones have been read as `kind`.
Reads(from, to, kind) ==
  role' = [i \in DOMAIN role |-> IF i \in from..to THEN kind ELSE role[i]]

EndOfArguments ==
  /\ Scanning
  /\ optind >= Argc
  /\ IF nonoptEnd # -1
     THEN argv' = Exchanged /\ optind' = optind - (nonoptEnd - nonoptStart)
     ELSE /\ optind' = IF nonoptStart # -1 THEN nonoptStart ELSE optind
          /\ UNCHANGED argv
  /\ nonoptStart' = -1 /\ nonoptEnd' = -1
  /\ Answers(Nothing, optarg)
  /\ UNCHANGED <<place, permute, given, role, reported>>

StopAtWord ==
  /\ Scanning
  /\ optind < Argc /\ IsWord(argv[optind])
  /\ ~permute
  /\ Answers(Nothing, optarg)
  /\ UNCHANGED <<scanVars, optind, permute, given, role, reported>>

\* Defect: the word is looked at again and again.
SkipNoWord ==
  /\ Scanning
  /\ optind < Argc /\ IsWord(argv[optind])
  /\ permute
  /\ nonoptStart' = IF nonoptStart = -1 THEN optind ELSE nonoptStart
  /\ UNCHANGED <<argv, place, nonoptEnd, optind, optarg, permute, answer, given, role,
                 reported>>

SkipWord ==
  /\ Scanning
  /\ optind < Argc /\ IsWord(argv[optind])
  /\ permute
  /\ \/ /\ nonoptStart = -1
        /\ nonoptStart' = optind
        /\ UNCHANGED <<argv, nonoptEnd>>
     \/ /\ nonoptEnd # -1
        /\ argv' = Exchanged
        /\ nonoptStart' = optind - (nonoptEnd - nonoptStart)
        /\ nonoptEnd' = -1
     \/ /\ nonoptStart # -1 /\ nonoptEnd = -1
        /\ UNCHANGED <<argv, nonoptStart, nonoptEnd>>
  /\ Reads(optind, optind, "word")
  /\ optind' = optind + 1
  /\ UNCHANGED <<place, optarg, permute, answer, given, reported>>

\* nonopt_end once an argument that is no word is found.
WordsEnd == IF nonoptStart # -1 /\ nonoptEnd = -1 THEN optind ELSE nonoptEnd

\* "--": what has been passed over goes behind it.
EndOfOptions ==
  /\ Scanning
  /\ optind < Argc /\ argv[optind] = <<"-", "-">>
  /\ IF WordsEnd # -1
     THEN /\ argv' = PermuteArgs(nonoptStart, WordsEnd, optind + 1, argv)
          /\ optind' = optind + 1 - (WordsEnd - nonoptStart)
     ELSE optind' = optind + 1 /\ UNCHANGED argv
  /\ nonoptStart' = -1 /\ nonoptEnd' = -1
  /\ Reads(optind, optind, "option")
  /\ Answers(Nothing, optarg)
  /\ UNCHANGED <<place, permute, given, reported>>

OpenArgument ==
  /\ Scanning
  /\ optind < Argc /\ ~IsWord(argv[optind]) /\ argv[optind] # <<"-", "-">>
  /\ place' = Tail(argv[optind])
  /\ nonoptEnd' = WordsEnd
  /\ UNCHANGED <<argv, nonoptStart, optind, optarg, permute, answer, given, role,
                 reported>>
-----------------------------------------------------------------------------
(* parse_long_options(), for "--name" and "--name=value".                        *)

InArgument == answer = "running" /\ place # << >>
IsLong     == place[1] = "-"

\* The answer `c` with a value, the argument at optind being left at `next`.
Reports(c, value, next) ==
  /\ Answers(c, value)
  /\ optind' = next
  /\ reported' = Append(reported, [answer |-> c, value |-> value, at |-> optind])
  /\ Reads(optind, next - 1, "option")

Equals(text)    == {i \in DOMAIN text : text[i] = "="}
FirstOf(S)      == CHOOSE i \in S : \A j \in S : i <= j
NameIn(text)    == IF Equals(text) = {} THEN text
                   ELSE SubSeq(text, 1, FirstOf(Equals(text)) - 1)
ValueIn(text)   == IF Equals(text) = {} THEN Null
                   ELSE SubSeq(text, FirstOf(Equals(text)) + 1, Len(text))

Begins(name, full) == Len(name) <= Len(full) /\ SubSeq(full, 1, Len(name)) = name

Exact(name)   == {i \in DOMAIN LongOption : LongOption[i].name = name}
Partial(name) == {i \in DOMAIN LongOption : Begins(name, LongOption[i].name)}

\* The indices the loop may end with: none, one, or several that differ.
Matches(name) == IF Exact(name) # {} THEN {FirstOf(Exact(name))}
                 ELSE Partial(name)
IsAmbiguous(name) == \E i, j \in Matches(name) :
  \/ LongOption[i].takes # LongOption[j].takes
  \/ LongOption[i].val # LongOption[j].val

LongRejected ==
  /\ InArgument /\ IsLong
  /\ LET name  == NameIn(Tail(place))
         match == Matches(name)
     IN match # {} /\ ~IsAmbiguous(name) =>
          LongOption[FirstOf(match)].takes = "none" /\ ValueIn(Tail(place)) # Null
  /\ Reports(Unknown, optarg, optind + 1)
  /\ place' = << >>
  /\ UNCHANGED <<argv, nonoptStart, nonoptEnd, permute, given>>

\* An optional value is never the next argument; a required one is, whatever it
\* looks like, and argv[argc] is null.
LongAccepted ==
  /\ InArgument /\ IsLong
  /\ LET name  == NameIn(Tail(place))
         value == ValueIn(Tail(place))
     IN /\ Matches(name) # {} /\ ~IsAmbiguous(name)
        /\ LET o == LongOption[FirstOf(Matches(name))] IN
           \/ /\ o.takes = "none" /\ value = Null
              /\ Reports(o.val, optarg, optind + 1)
           \/ /\ o.takes # "none" /\ value # Null
              /\ Reports(o.val, value, optind + 1)
           \/ /\ o.takes = "optional" /\ value = Null
              /\ Reports(o.val, optarg, optind + 1)
           \/ /\ o.takes = "required" /\ value = Null
              /\ IF optind + 1 < Argc
                 THEN Reports(o.val, argv[optind + 1], optind + 2)
                 ELSE Reports(Unknown, Null, optind + 1)
  /\ place' = << >>
  /\ UNCHANGED <<argv, nonoptStart, nonoptEnd, permute, given>>

\* No entry of long_options[] ends the table (ConsoleLogger.cpp:46): unless a name
\* is found in full, the loop reads what lies behind it.
ReadsPastTable ==
  /\ InArgument /\ IsLong
  /\ Exact(NameIn(Tail(place))) = {}
  /\ answer' = "undefined"
  /\ UNCHANGED <<scanVars, optind, optarg, permute, given, role, reported>>
-----------------------------------------------------------------------------
(* The letters of "-abc".                                                        *)

Letter == place[1]
Takes(c) == IF c \in DOMAIN ShortOption THEN ShortOption[c] ELSE "unknown"

\* Where the argument is left once its first letter has been read.
NextAfterLetter == IF Tail(place) = << >> THEN optind + 1 ELSE optind

ShortUnknown ==
  /\ InArgument /\ ~IsLong
  /\ Takes(Letter) = "unknown"
  /\ Reports(Unknown, optarg, NextAfterLetter)
  /\ place' = Tail(place)
  /\ UNCHANGED <<argv, nonoptStart, nonoptEnd, permute, given>>

ShortPlain ==
  /\ InArgument /\ ~IsLong
  /\ Takes(Letter) = "none"
  /\ Reports(Letter, optarg, NextAfterLetter)
  /\ place' = Tail(place)
  /\ UNCHANGED <<argv, nonoptStart, nonoptEnd, permute, given>>

\* Defect: the value is looked for among the words that were passed over.
ShortValueFromWords ==
  /\ InArgument /\ ~IsLong
  /\ Takes(Letter) \in {"required", "optional"}
  /\ \/ /\ Tail(place) # << >>
        /\ Reports(Letter, Tail(place), optind + 1)
     \/ /\ Tail(place) = << >> /\ Takes(Letter) = "optional"
        /\ Reports(Letter, Null, optind + 1)
     \/ /\ Tail(place) = << >> /\ Takes(Letter) = "required"
        /\ IF optind + 1 < Argc
           THEN Reports(Letter, argv[IF nonoptStart = -1 THEN optind + 1 ELSE nonoptStart],
                        optind + 2)
           ELSE Reports(Unknown, Null, optind + 1)
  /\ place' = << >>
  /\ UNCHANGED <<argv, nonoptStart, nonoptEnd, permute, given>>

ShortWithValue ==
  /\ InArgument /\ ~IsLong
  /\ Takes(Letter) \in {"required", "optional"}
  /\ \/ /\ Tail(place) # << >>
        /\ Reports(Letter, Tail(place), optind + 1)
     \/ /\ Tail(place) = << >> /\ Takes(Letter) = "optional"
        /\ Reports(Letter, Null, optind + 1)
     \/ /\ Tail(place) = << >> /\ Takes(Letter) = "required"
        /\ IF optind + 1 < Argc
           THEN Reports(Letter, argv[optind + 1], optind + 2)
           ELSE Reports(Unknown, Null, optind + 1)
  /\ place' = << >>
  /\ UNCHANGED <<argv, nonoptStart, nonoptEnd, permute, given>>
-----------------------------------------------------------------------------
(* The caller: getopt_long() is called once, and again after each answer.        *)

GetoptInit ==
  /\ argv \in {[i \in 0..Len(line) |-> IF i = 0 THEN Program ELSE line[i]] :
                line \in CommandLine}
  /\ permute \in BOOLEAN
  /\ given = argv
  /\ role = [i \in DOMAIN argv |-> IF i = 0 THEN "option" ELSE "unread"]
  /\ optind = 1 /\ optarg = Null /\ place = << >>
  /\ nonoptStart = -1 /\ nonoptEnd = -1
  /\ answer = "running"
  /\ reported = << >>

CallAgain ==
  /\ answer' = "running" /\ optarg' = Null
  /\ UNCHANGED <<scanVars, optind, permute, given, role, reported>>

GetoptStep ==
  \/ EndOfArguments \/ StopAtWord \/ SkipWord \/ EndOfOptions \/ OpenArgument
  \/ LongRejected \/ LongAccepted \/ ReadsPastTable
  \/ ShortUnknown \/ ShortPlain \/ ShortWithValue
-----------------------------------------------------------------------------
(* Properties *)

\* The number of arguments of one role that were given before argument i.
NrBefore(kind, i) == Cardinality({j \in DOMAIN given : j < i /\ role[j] = kind})

\* Where argument i is to be: options, words, what was not read.
PlaceOf(i) ==
  NrBefore(role[i], i)
  + (IF role[i] # "option" THEN NrBefore("option", Argc) ELSE 0)
  + (IF role[i] = "unread" THEN NrBefore("word", Argc) ELSE 0)

\* When the options are at their end, they and their values come first and the
\* rest follows from optind on, each block in the order it was given in
\* (getopt.h:169).
Parted ==
  answer = Nothing =>
    /\ \A i \in DOMAIN given : argv[PlaceOf(i)] = given[i]
    /\ optind = NrBefore("option", Argc)

\* Options are reported in the order given, each letter once, and a value is part
\* of its option's argument or the argument given next.
InArgumentOf(value, a) == \E i \in DOMAIN a : value = SubSeq(a, i + 1, Len(a))
ReportedAsGiven ==
  /\ \A i, j \in DOMAIN reported : i < j => reported[i].at <= reported[j].at
  /\ \A i \in DOMAIN reported :
       LET r == reported[i]
           k == Cardinality({j \in 1..i : reported[j].at = r.at})
           o == given[r.at][k + 1]
       IN /\ role[r.at] = "option" \/ r.at = optind
          /\ k < Len(given[r.at])
          /\ o # "-" => r.answer \in {o, Unknown}
          /\ r.value # Null => \/ InArgumentOf(r.value, given[r.at])
                               \/ /\ r.value = given[r.at + 1]
                                  /\ role[r.at + 1] = "option"
=============================================================================
