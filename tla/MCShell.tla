------------------------------- MODULE MCShell -------------------------------
EXTENDS Shell
Echo1 == <<"echo", "f">>
Cat1 == <<"cat">>
To(c, op, f) == c \o <<op, f>>
From(c, f) == c \o <<"<", f>>
PipeOf(l, r) == l \o <<"|">> \o r
ListOf(l, r) == l \o <<";">> \o r
BackOf(c) == c \o <<"&">>
Group(c) == <<"(">> \o c \o <<")">>
(* f is a file that exists and no program, g does not exist *)
Simple == {Echo1, Cat1, <<"f">>, To(Echo1, ">", "g"), From(Cat1, "f"), From(Cat1, "g")}
(* every pair of simple commands, three-stage pipelines, groups, &, and     *)
(* lines the parser refuses *)
MCLines ==
  Simple \cup {PipeOf(l, r) : l \in Simple, r \in Simple} \cup {ListOf(l, r) : l \in Simple, r \in Simple}
  \cup {To(From(Cat1, "f"), ">>", "g"), <<"cat", "g", "f">>, PipeOf(<<"cat", "f", "f">>, Cat1),
        PipeOf(Echo1, PipeOf(Cat1, Cat1)),
        PipeOf(Group(ListOf(Echo1, Echo1)), To(Cat1, ">", "g")),
        PipeOf(Echo1, Group(ListOf(Cat1, Cat1))),
        From(Group(ListOf(Cat1, Cat1)), "f"),
        ListOf(PipeOf(Echo1, Cat1), Echo1),
        To(To(Echo1, ">", "g"), ">", "f"),
        BackOf(PipeOf(Echo1, Cat1)), ListOf(BackOf(Echo1), Cat1), PipeOf(Group(BackOf(Echo1)), Cat1),
        To(Echo1, ">>", "f"), To(Echo1, ">>", "g"), To(<<"echo", "f", "g">>, ">>", "f"),
        To(Group(ListOf(Echo1, <<"cat", "f">>)), ">", "g"), ListOf(To(Echo1, ">", "g"), To(<<"echo", "g", "f">>, ">>", "g")),
        <<"cd", "g">>, <<>>, <<"|">>, <<"echo", "<">>, <<"echo", "&", "echo">>}
=============================================================================
