----------------------------- MODULE ShellParse -----------------------------
(***************************************************************************)
(* The shell's parser (sh.c), from tokens to commands: its recursive       *)
(* descent against a definition by splitting the line at its operators.    *)
(* A word is the number of its token, so that commands tell words apart.   *)
(***************************************************************************)
EXTENDS Naturals, Sequences, FiniteSets, FiniteSetsExt

CONSTANTS Tokens,        \* "a" for a word, and symbols
          MAXARGS

VARIABLE s               \* the line typed so far

-----------------------------------------------------------------------------
Exec(argv) == [t |-> "EXEC", argv |-> argv]
Redir(c, mode, file) == [t |-> "REDIR", c |-> c, mode |-> mode, file |-> file]
Pipe(l, r) == [t |-> "PIPE", l |-> l, r |-> r]
List(l, r) == [t |-> "LIST", l |-> l, r |-> r]
Back(c) == [t |-> "BACK", c |-> c]
Panic == [c |-> [t |-> "panic"], i |-> 0]
Result(c, i) == [c |-> c, i |-> i]

(* is the next token, number i, one of toks *)
peek(i, toks) == i <= Len(s) /\ s[i] \in toks

RedirOps == {"<", ">", ">>"}

RECURSIVE parseline(_), parseredirs(_, _), parsepipe(_), Args(_, _, _), Ampersands(_)

parseredirs(c, i) ==
  IF ~peek(i, RedirOps) THEN Result(c, i)
  ELSE IF ~peek(i + 1, {"a"}) THEN Panic
  ELSE parseredirs(Redir(c, s[i], i + 1), i + 2)

(* the arguments of cmd inside the redirections of ret *)
RECURSIVE AddArg(_, _)
AddArg(ret, q) == IF ret.t = "REDIR" THEN [ret EXCEPT !.c = AddArg(@, q)] ELSE [ret EXCEPT !.argv = Append(@, q)]
Args(ret, argc, i) ==
  IF peek(i, {"|", ")", "&", ";"}) \/ i > Len(s) THEN Result(ret, i)
  ELSE IF s[i] # "a" \/ argc + 1 >= MAXARGS THEN Panic
  ELSE LET r == parseredirs(AddArg(ret, i), i + 1)
       IN IF r = Panic THEN Panic ELSE Args(r.c, argc + 1, r.i)
parseblock(i) ==
  LET r == parseline(i + 1) IN
  IF r = Panic \/ ~peek(r.i, {")"}) THEN Panic ELSE parseredirs(r.c, r.i + 1)
parseexec(i) ==
  IF peek(i, {"("}) THEN parseblock(i)
  ELSE LET r == parseredirs(Exec(<<>>), i) IN IF r = Panic THEN Panic ELSE Args(r.c, 0, r.i)

(* fault: a pipeline of two commands only *)
parsepipe_Two(i) ==
  LET l == parseexec(i)
      r == parseexec(l.i + 1)
  IN IF l = Panic THEN Panic
     ELSE IF ~peek(l.i, {"|"}) THEN l
     ELSE IF r = Panic THEN Panic ELSE Result(Pipe(l.c, r.c), r.i)

parsepipe(i) ==
  LET l == parseexec(i)
      r == parsepipe(l.i + 1)
  IN IF l = Panic THEN Panic
     ELSE IF ~peek(l.i, {"|"}) THEN l
     ELSE IF r = Panic THEN Panic ELSE Result(Pipe(l.c, r.c), r.i)
Ampersands(r) == IF r # Panic /\ peek(r.i, {"&"}) THEN Ampersands(Result(Back(r.c), r.i + 1)) ELSE r
parseline(i) ==
  LET l == Ampersands(parsepipe(i))
      r == parseline(l.i + 1)
  IN IF l = Panic THEN Panic
     ELSE IF ~peek(l.i, {";"}) THEN l
     ELSE IF r = Panic THEN Panic ELSE Result(List(l.c, r.c), r.i)
parsecmd == LET r == parseline(1) IN IF r.i # Len(s) + 1 THEN Panic.c ELSE r.c

(* the words that are NUL-terminated *)
RECURSIVE nulterminate(_)

nulterminate(c) ==
  CASE c.t = "EXEC" -> {c.argv[k] : k \in DOMAIN c.argv}
    [] c.t = "REDIR" -> nulterminate(c.c) \cup {c.file}
    [] c.t = "BACK" -> nulterminate(c.c)
    [] OTHER -> nulterminate(c.l) \cup nulterminate(c.r)

-----------------------------------------------------------------------------
(* the reference: tokens lo..hi of the line, split at operators outside     *)
(* parentheses *)
Count(lo, hi, t) == Cardinality({k \in lo..hi : s[k] = t})
Outside(lo, hi, t) == {k \in lo..hi : s[k] = t /\ Count(lo, k, "(") = Count(lo, k, ")")}
Bad == Panic.c
Both(l, r, c) == IF l = Bad \/ r = Bad THEN Bad ELSE c

(* redirections and words, in any order *)
Redirs(lo, hi) == {k \in lo..hi : s[k] \in RedirOps}
RECURSIVE Wrapped(_, _)
Wrapped(c, ks) == IF ks = {} THEN c ELSE Redir(Wrapped(c, ks \ {Max(ks)}), s[Max(ks)], Max(ks) + 1)
Words(lo, hi) == {k \in lo..hi : s[k] = "a" /\ ~(k > lo /\ s[k-1] \in RedirOps)}
RECURSIVE Sorted(_)
Sorted(S) == IF S = {} THEN <<>> ELSE <<Min(S)>> \o Sorted(S \ {Min(S)})
FilesGiven(lo, hi) == \A k \in Redirs(lo, hi) : k < hi /\ s[k+1] = "a"

RECURSIVE RefLine(_, _)
RefSimple(lo, hi) ==
  IF (\E k \in lo..hi : s[k] \notin RedirOps \cup {"a"}) \/ ~FilesGiven(lo, hi) \/ Cardinality(Words(lo, hi)) >= MAXARGS
  THEN Bad ELSE Wrapped(Exec(Sorted(Words(lo, hi))), Redirs(lo, hi))
RefGroup(lo, hi) ==
  LET ends == Outside(lo, hi, ")") IN
  IF ends = {} THEN Bad
  ELSE LET m == Min(ends)
           c == RefLine(lo + 1, m - 1)
       IN IF c = Bad \/ ~FilesGiven(m + 1, hi) \/ Words(m + 1, hi) # {} \/ \E k \in m+1..hi : s[k] \notin RedirOps \cup {"a"}
          THEN Bad ELSE Wrapped(c, Redirs(m + 1, hi))
RefCommand(lo, hi) == IF lo <= hi /\ s[lo] = "(" THEN RefGroup(lo, hi) ELSE RefSimple(lo, hi)
RECURSIVE RefPipe(_, _), RefBack(_, _)
RefPipe(lo, hi) ==
  LET bars == Outside(lo, hi, "|") IN
  IF bars = {} THEN RefCommand(lo, hi)
  ELSE LET l == RefCommand(lo, Min(bars) - 1)
           r == RefPipe(Min(bars) + 1, hi)
       IN Both(l, r, Pipe(l, r))
RefBack(lo, hi) ==
  IF lo <= hi /\ s[hi] = "&" THEN LET c == RefBack(lo, hi - 1) IN Both(c, c, Back(c))
  ELSE RefPipe(lo, hi)
RefLine(lo, hi) ==
  LET semis == Outside(lo, hi, ";") IN
  IF semis = {} THEN RefBack(lo, hi)
  ELSE LET l == RefBack(lo, Min(semis) - 1)
           r == RefLine(Min(semis) + 1, hi)
       IN Both(l, r, List(l, r))

(* The parser accepts exactly the lines the operators split into commands,  *)
(* and binds | before &, & before ;, redirections to the command they       *)
(* follow, whatever is in parentheses.  In a command that is accepted every *)
(* word and file name is terminated: none runs into the rest of the line. *)
ParseExact ==
  /\ parsecmd = RefLine(1, Len(s))
  /\ parsecmd # Bad => nulterminate(parsecmd) = {k \in 1..Len(s) : s[k] = "a"}
=============================================================================
