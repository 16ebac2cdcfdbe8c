---------------------------- MODULE MCConsoleLogger ----------------------------
(* Command lines for TLC.                                                       *)
EXTENDS ConsoleLogger, TLC

MCNumber == "7" :> 7 @@ "8" :> 8 @@ "-1" :> -1 @@ "70000" :> 70000

\* Words, options with and without values of every form, and mistakes.
Various ==
  { <<"x">>, <<"y">>, << >>, <<"-">>, <<"-", "-">>,
    <<"-", "h">>, <<"-", "-", "h", "elp">>, <<"-", "q">>, <<"-", "q", "m">>, <<"-", "m", "x">>, <<"-", "f">>, <<"-", "a", "x">>,
    <<"-", "-", "m">>, <<"-", "-", "p", "ort", "=", "70000">>,
    <<"-", "-", "z">>, <<"-", "-", "h", "=", "x">>, <<"-", "-", "f", "ile">>,
    <<"-", "q", "-">>, <<"-", "t", "huge">>, <<"-", "t">>,
    <<"-", "l", "-1">>, <<"-", "l">>, <<"7">>, <<"8">>,
    <<"-", "e", "k", ":", "x">>, <<"-", "e", ":", "x">>, <<"-", "-", "e", "xtra">>,
    <<"-", "-", "e", "=", "k", ":">> }

MCToken == UNION {{a[i] : i \in DOMAIN a} : a \in Various}

\* Some of each kind.
Mixed ==
  { <<"x">>, << >>, <<"-">>, <<"-", "-">>, <<"-", "m", "x">>, <<"-", "f">>,
    <<"-", "-", "m">>, <<"-", "-", "p", "ort", "=", "70000">>, <<"-", "h">>,
    <<"-", "q", "-">>, <<"-", "t">>, <<"-", "l">>, <<"7">>,
    <<"-", "e", "k", ":", "x">>, <<"-", "e", ":", "x">>, <<"-", "-", "e", "=", "k", ":">> }

\* What moves: words, options, options that take the next argument.
Movable == { <<"x">>, <<"y">>, <<"-", "f">>, <<"-", "m">>, <<"-", "-">> }

LinesOf(arguments, lengths) == UNION {[1..n -> arguments] : n \in lengths}
MCCommandLine == LinesOf(Various, 0..2) \cup LinesOf(Mixed, {3})
                 \cup LinesOf(Movable, {4}) \cup LinesOf({<<"x">>, <<"y">>, <<"-", "f">>}, {5})
=============================================================================
