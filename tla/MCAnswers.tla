----------------------------- MODULE MCAnswers -----------------------------
(***************************************************************************)
(* Answers for TLC: a few texts of every sort, alone, in lists, with       *)
(* blanks and semicolons; two blocks with names, and two of one name.      *)
(***************************************************************************)
EXTENDS Answers, TLC

MCTexts == {"", "email", "red", "blue", "other", "1", "01", "0", "true", "false",
            "a@b.pl", "600100200", "#fff", "2026-05-01", "u1", "u2", "u3", "u9",
            "Hall", "Room", "{}", "Email"}
MCNumerals == "" :> "0" @@ "1" :> "1" @@ "01" :> "1" @@ "0" :> "0" @@ "600100200" :> "600100200"
MCUuids == {"u1", "u2", "u3", "u9"}
MCNameOf == "u1" :> "Hall" @@ "u2" :> "Room" @@ "u3" :> "Room"

Raw(options, other, max, fields) ==
    [given |-> TRUE, options |-> options, allowOther |-> other, max |-> max, fields |-> fields]
Padded(t) == <<[text |-> t, padded |-> TRUE]>>
Two(t, u) == Plain(t) \o Padded(u)

MCMoments == {Plain("2026-05-01"), Padded("2026-05-01"), Plain("1")}
MCPhones == {Plain("600100200"), Padded("600100200")}
MCOptions == {{}, {Padded("")}, {Plain("red"), Plain("blue")}, {Plain("red"), Plain("")},
              {Padded("red")}, {Padded("red"), Plain("blue")}, {Two("red", "blue")}}
MCRaws ==
    {[given |-> FALSE, options |-> None, allowOther |-> FALSE, max |-> None, fields |-> None]}
    \cup {Raw(o, b, m, f) : o \in MCOptions \cup {None}, b \in BOOLEAN, m \in {None, 0, 1, 2},
                            f \in {None, {"email", "u1"}, {"red"}}}
Array(seq) == [kind |-> "array", strs |-> seq]
MCValues ==
    {Null, Array(<< >>), Of("object", Plain("{}")), Of("date", Plain("2026-05-01")),
     Spoken(TRUE), Spoken(FALSE)}
    \cup {Of("string", Plain(t)) : t \in MCTexts}
    \cup {Of("string", Padded(t)) : t \in {"", "red", "1", "600100200", "2026-05-01"}}
    \cup {Of("number", Plain(t)) : t \in {"0", "1", "600100200"}}
    \cup {Of("string", Two(t, u)) : t, u \in {"red", "blue", "other", "", "u1", "u2"}}
    \cup {Array(<<Plain(t)>>) : t \in MCTexts}
    \cup {Array(<<Plain(t), Padded(u)>>) : t, u \in {"red", "blue", "other", "", "u1", "u2", "u9"}}
    \cup {Of("array", Padded(t)) : t \in {"", "red"}}
    \cup {Array(<<NotString>>), Array(<<Two("red", "blue")>>), Array(<<Two("red", "")>>)}

Attr(u, n, p) == [uuid |-> u, name |-> n, padded |-> p]
Names == {<<"red", FALSE>>, <<"red", TRUE>>, <<"", FALSE>>, <<"email", FALSE>>, <<"Email", FALSE>>,
          <<"blue", FALSE>>}
MCAttributes ==
    {<<Attr("u1", n[1], n[2]), Attr("u2", m[1], m[2]), Attr("u3", k[1], k[2])>> : n, m, k \in Names}
=============================================================================
