------------------------------ MODULE Answers ------------------------------
(***************************************************************************)
(* What becomes of a participant's answer: an organizer configures an      *)
(* attribute, a form or a request brings a value, which is normalized and  *)
(* stored, shown in mails and at the door, exported to a sheet and         *)
(* imported from it.                                                       *)
(*                                                                         *)
(* A string is the sequence of its pieces between semicolons; a piece is a *)
(* text, perhaps with a blank before it.  A text stands for what the code  *)
(* recognises in it: a number, a date, an option, a block's uuid.          *)
(***************************************************************************)
EXTENDS Naturals, Sequences, FiniteSets, SequencesExt

CONSTANTS
    Texts,          \* "" among them
    Numerals,       \* what reads as a number, and the number's own text
    Truths, Falsehoods, Emails, Colors, Uuids,
    Moments, Phones,        \* strings that read as a date, as a phone's number
    NameOf,         \* a block's name, for the blocks of the attribute
    Raws,           \* configs that organizers send
    Values,         \* values that participants send
    Attributes,     \* lists of an event's attributes: uuid, name, padded
    None

NoText == ""                                     \* the empty text

AttributeTypes == {"text", "textArea", "number", "file", "select", "multiSelect", "block",
                   "date", "time", "datetime", "email", "tel", "color", "checkbox", "drawing"}
OptionTypes == {"select", "multiSelect"}
FileLike == {"file", "drawing"}

Piece == [text : Texts, padded : BOOLEAN]
Plain(t) == <<[text |-> t, padded |-> FALSE]>>
Kinds == {"null", "string", "array", "number", "boolean", "date", "object", "refused"}
Null == [kind |-> "null", strs |-> << >>]        \* null or undefined
Refused == [kind |-> "refused", strs |-> << >>]
Of(kind, s) == [kind |-> kind, strs |-> <<s>>]
NotString == << >>                               \* an item of an array

Blocks == DOMAIN NameOf
Options == SUBSET (Seq(Piece) \ {NotString})     \* of a select or multiSelect
RawConfig == [given : BOOLEAN, options : Options \cup {None},
              allowOther : BOOLEAN, max : Nat \cup {None}, fields : (SUBSET Texts) \cup {None}]
Config == [options : Options, allowOther : BOOLEAN, max : Nat \cup {None}, fields : SUBSET Texts]
NoConfig == [options |-> {}, allowOther |-> FALSE, max |-> None, fields |-> {}]

ASSUME AnswersAssumption ==
    /\ {NoText, "email"} \subseteq Texts /\ None \notin Texts /\ None \notin Nat
    /\ DOMAIN Numerals \subseteq Texts
    /\ \A t \in DOMAIN Numerals : /\ Numerals[t] \in DOMAIN Numerals \ {NoText}
                                  /\ Numerals[Numerals[t]] = Numerals[t]
    /\ Truths \cup Falsehoods \cup Emails \cup Colors \cup Uuids \subseteq Texts \ {NoText}
    /\ Moments \cup Phones \subseteq Seq(Piece) \ {NotString, Plain(NoText)}
    /\ {} \notin {DOMAIN Numerals, Moments, Emails, Phones, Colors}
    /\ Truths \cap Falsehoods = {}
    /\ {"true", "1"} \subseteq Truths /\ {"false", "0"} \subseteq Falsehoods
    /\ Blocks \subseteq Uuids /\ \A b \in Blocks : NameOf[b] \in Texts \ Uuids
    /\ Raws \subseteq RawConfig

VARIABLES
    step,
    type, raw,      \* the attribute as it is asked for
    config,         \* its config column
    stored,         \* the participant's value
    cell,           \* the cell of the exported sheet
    back,           \* the value stored when the sheet is imported
    attributes, asked, sheet,       \* the event's attributes, those exported,
    columns                         \* the header, and what its columns become

vars == <<step, type, raw, config, stored, cell, back, attributes, asked, sheet, columns>>
headers == <<attributes, asked, sheet, columns>>

-----------------------------------------------------------------------------
(* The config of an attribute.                                             *)

\* String.trim: a blank at the start, and one behind the last semicolon.
Trim(s) == [i \in DOMAIN s |-> IF i = 1 \/ (i = Len(s) /\ s[i].text = NoText)
                               THEN [s[i] EXCEPT !.padded = FALSE] ELSE s[i]]
Blank(s) == Trim(s) = Plain(NoText)

\* What the validator of the request's body lets through.
ValidBody(t, r) ==
    t \in OptionTypes =>
        r.given /\ r.options \notin {None, {}} /\ \A o \in r.options : ~Blank(o)

Positive(m) == m = None \/ m > 0
FieldsValid(f) == f = None \/ f \ {NoText} \subseteq Uuids \cup {"email"}

\* getConfigStringArrayStrict: blank options go, the others stay as they are.
Kept(options) == {o \in options : ~Blank(o)}

\* normalizeConfig
AcceptsConfig(t, r) ==
    CASE t \in OptionTypes -> /\ r.given /\ r.options # None /\ Kept(r.options) # {}
                              /\ t = "multiSelect" => Positive(r.max)
      [] t = "block" -> ~r.given \/ (Positive(r.max) /\ FieldsValid(r.fields))
      [] OTHER -> TRUE
NormalConfig(t, r) ==
    CASE t \in OptionTypes ->
           [NoConfig EXCEPT !.options = Kept(r.options), !.allowOther = r.allowOther,
                            !.max = IF t = "multiSelect" THEN r.max ELSE None]
      [] t = "block" ->
           [NoConfig EXCEPT !.max = IF r.given /\ r.max # None THEN r.max ELSE 1,
                            !.fields = IF r.given /\ r.fields # None
                                       THEN r.fields \ {NoText} ELSE {}]
      [] OTHER -> NoConfig

-----------------------------------------------------------------------------
(* normalizeParticipantAttributeValue.                                     *)

Missing(v) == \/ v.kind = "null" \/ v = Of("string", Plain(NoText))
              \/ v.kind = "array" /\ v.strs = << >>

Split(s) == [i \in DOMAIN s |-> <<s[i]>>]

\* splitToStringArray, each item trimmed; << >> when it is neither.
Items(v) == LET items == IF v.kind = "array" THEN v.strs
                         ELSE IF v.kind = "string" THEN Split(v.strs[1]) ELSE << >>
            IN [i \in DOMAIN items |-> Trim(items[i])]

OneOf(s, texts) == \E t \in texts : s = Plain(t)
Within(n, max) == max = None \/ n <= max

AsSelect(c, v) ==
    IF /\ v.kind = "string"
       /\ c.options # {} \/ c.allowOther
       /\ c.allowOther \/ v.strs[1] \in c.options
    THEN v ELSE Refused

\* Mutant of AsMulti: the answer stays as it came.
AsMultiUntrimmed(c, v) ==
    IF /\ Items(v) # << >>
       /\ \A i \in DOMAIN Items(v) : Items(v)[i] \notin {NotString, Plain(NoText)}
       /\ c.allowOther \/ Range(Items(v)) \subseteq c.options
       /\ Within(Len(Items(v)), c.max)
    THEN v ELSE Refused

AsMulti(c, v) ==
    LET items == Items(v) IN
    IF /\ items # << >>
       /\ \A i \in DOMAIN items : items[i] \notin {NotString, Plain(NoText)}
       /\ c.options # {} \/ c.allowOther
       /\ c.allowOther \/ Range(items) \subseteq c.options
       /\ Within(Len(items), c.max)
    THEN [kind |-> "array", strs |-> items] ELSE Refused

\* The blocks are counted in the database, each once.
AsBlock(c, v) ==
    LET items == Items(v)
        found == {b \in Blocks : \E i \in DOMAIN items : items[i] = Plain(b)}
    IN
    IF /\ items # << >>
       /\ \A i \in DOMAIN items : OneOf(items[i], Uuids)
       /\ Len(items) <= (IF c.max = None THEN 1 ELSE c.max)
       /\ Cardinality(found) = Len(items)
    THEN [kind |-> "array", strs |-> items] ELSE Refused

AsNumber(v) ==
    IF v.kind = "number" THEN v
    ELSE IF /\ v.kind = "string" /\ Len(v.strs[1]) = 1
            /\ v.strs[1][1].text \in DOMAIN Numerals
         THEN Of("number", Plain(Numerals[v.strs[1][1].text]))
         ELSE Refused

\* Mutant of AsDate: a date stays a date.
AsDateAsIs(v) ==
    IF v.kind = "date" \/ (v.kind = "string" /\ v.strs[1] \in Moments) THEN v ELSE Refused

AsDate(v) ==
    IF v.kind = "date" THEN Of("string", v.strs[1])
    ELSE IF v.kind = "string" /\ v.strs[1] \in Moments THEN v ELSE Refused

Spoken(b) == Of("boolean", Plain(IF b THEN "true" ELSE "false"))

AsCheckbox(v) ==
    IF v.kind = "boolean" THEN v
    ELSE IF \/ v = Of("number", Plain("1"))
            \/ v.kind = "string" /\ OneOf(v.strs[1], Truths) THEN Spoken(TRUE)
    ELSE IF \/ v = Of("number", Plain("0"))
            \/ v.kind = "string" /\ OneOf(v.strs[1], Falsehoods) THEN Spoken(FALSE)
    ELSE Refused

\* isEmail, TEL_REGEX and isHexColor
HasFormat(t, s) == CASE t = "email" -> OneOf(s, Emails)
                     [] t = "tel" -> s \in Phones
                     [] t = "color" -> OneOf(s, Colors)
                     [] OTHER -> TRUE
AsString(t, v) == IF v.kind = "string" /\ HasFormat(t, v.strs[1]) THEN v ELSE Refused

Normalize(t, c, v) ==
    IF Missing(v) THEN Null
    ELSE CASE t = "select" -> AsSelect(c, v)
           [] t = "multiSelect" -> AsMulti(c, v)
           [] t = "block" -> AsBlock(c, v)
           [] t = "number" -> AsNumber(v)
           [] t \in {"date", "datetime"} -> AsDate(v)
           [] t = "checkbox" -> AsCheckbox(v)
           [] OTHER -> AsString(t, v)

-----------------------------------------------------------------------------
(* Where a stored value is shown.                                          *)

Selected(v) == IF v.kind \in {"array", "string"} THEN Range(v.strs) ELSE {}
NamesOf(v) == {NameOf[b] : b \in {b \in Blocks : Plain(b) \in Selected(v)}}

\* parseEmailContent, the part about a participant's attribute: the strings
\* that stand in the mail.
Mailed(t, c, v) ==
    CASE t = "multiSelect" /\ v.kind = "array" /\ c.options # {} ->
           c.options \cap Selected(v)
      [] t = "block" -> {Plain(n) : n \in NamesOf(v)}
      [] OTHER -> Range(v.strs)

\* The names of the blocks that a ticket shows at the door.
Shown(t, v) == IF t = "block" THEN {Plain(n) : n \in NamesOf(v)} ELSE {}

-----------------------------------------------------------------------------
(* Export and import.                                                      *)

\* formatAttributeValue: an array is joined with a semicolon and a blank.
Format(v) ==
    CASE v.kind = "null" -> Plain(NoText)
      [] v.kind = "array" ->
           FlattenSeq([i \in DOMAIN v.strs |->
               IF i = 1 THEN v.strs[1] ELSE [v.strs[i] EXCEPT ![1].padded = TRUE]])
      [] OTHER -> v.strs[1]

\* resolveBlockNames: each name that is not blank is the name of one block.
Named(s) == {b \in Blocks : s = Plain(NameOf[b])}
\* Mutant of ByName: unknown names are left out.
ByNameSkipping(s) ==
    LET names == SelectSeq(Items(Of("string", s)), LAMBDA n : Cardinality(Named(n)) = 1) IN
    IF names = << >> THEN Of("string", Plain(NoText))
    ELSE Of("string", FlattenSeq([i \in DOMAIN names |->
                          Plain(CHOOSE b \in Named(names[i]) : TRUE)]))

ByName(s) ==
    LET items == Items(Of("string", s))
        names == SelectSeq(items, LAMBDA n : n # Plain(NoText)) IN
    IF \E i \in DOMAIN items : items[i] # Plain(NoText) /\ Cardinality(Named(items[i])) # 1
    THEN Refused
    ELSE IF names = << >> THEN Of("string", Plain(NoText))
    ELSE Of("string", FlattenSeq([i \in DOMAIN names |->
                          Plain(CHOOSE b \in Named(names[i]) : TRUE)]))

\* A row of the sheet registers a new participant: an empty cell is no value,
\* and nobody has a file yet that a cell could name (resolveUntrustedFileValue).
Reimport(t, c, s) ==
    IF Trim(s) = Plain(NoText) THEN Null
    ELSE IF t = "block"
         THEN IF ByName(Trim(s)).kind = "refused" THEN Refused
              ELSE Normalize(t, c, ByName(Trim(s)))
    ELSE IF t \in FileLike THEN Refused
    ELSE Normalize(t, c, Of("string", Trim(s)))

\* buildAttributeHeaders: the second attribute of a name has its uuid behind.
Base(a) == IF a.name = NoText THEN [text |-> "N/A", padded |-> FALSE]
           ELSE [text |-> a.name, padded |-> a.padded]
Headers(list) ==
    [i \in DOMAIN list |->
        [base |-> Base(list[i]),
         uuid |-> IF \E j \in 1..(i - 1) : Base(list[j]) = Base(list[i])
                  THEN list[i].uuid ELSE None]]

\* parseXlsxToDto: the header of a column, trimmed, is reserved or the header of
\* one of the event's attributes; `refused' when it is neither.
Reserved == {"email", "Email"}
ColumnOf(h, list) ==
    LET trimmed == [h EXCEPT !.base = [text |-> h.base.text, padded |-> FALSE]]
        found == {i \in DOMAIN list : Headers(list)[i] = trimmed}
    IN IF h.base.text \in Reserved /\ h.uuid = None THEN h.base.text
       ELSE IF found = {} THEN "refused"
       ELSE list[CHOOSE i \in found : \A j \in found : j <= i].uuid
\* Mutant of ColumnsOf: the columns are the event's attributes, in order.
ColumnsByPlace(hs, list) == [i \in DOMAIN hs |-> list[i].uuid]

ColumnsOf(hs, list) ==
    LET found == [i \in DOMAIN hs |-> ColumnOf(hs[i], list)] IN
    IF \/ \E i \in DOMAIN found : found[i] \in {"refused", "email"}   \* the first column
       \/ \E i, j \in DOMAIN found : i # j /\ found[i] = found[j]
    THEN << >> ELSE found

-----------------------------------------------------------------------------
(* What requests bring.                                                    *)

\* A value of the body of a request; a date stands for a valid one.
Sendable(v) ==
    /\ v \in [kind : Kinds \ {"refused"}, strs : Seq(Seq(Piece))]
    /\ v.kind = "null" => v = Null
    /\ v.kind \notin {"null", "array"} => Len(v.strs) = 1 /\ v.strs[1] # NotString
    /\ v.kind = "number" => OneOf(v.strs[1], {Numerals[t] : t \in DOMAIN Numerals})
    /\ v.kind = "boolean" => v \in {Spoken(TRUE), Spoken(FALSE)}
    /\ v.kind = "date" => v.strs[1] \in Moments

\* Anybody can send any text, any date or number, and any option.
ASSUME InputAssumption ==
    /\ \A v \in Values : Sendable(v)
    /\ \A t \in Texts : Of("string", Plain(t)) \in Values
    /\ \A s \in Moments \cup Phones : Of("string", s) \in Values
    /\ \A r \in Raws : r.options # None =>
         \A o \in r.options : Of("string", o) \in Values /\ Of("array", o) \in Values
    /\ Attributes \subseteq Seq([uuid : Uuids, name : Texts, padded : BOOLEAN])

-----------------------------------------------------------------------------
Init ==
    /\ step = "new"
    /\ type = None /\ raw = None /\ config = NoConfig
    /\ stored = Null /\ cell = Plain(NoText) /\ back = Null
    /\ attributes = << >> /\ asked = {} /\ sheet = << >> /\ columns = << >>

Configure(t, r) ==
    /\ step = "new"
    /\ type' = t /\ raw' = r
    /\ step' = IF ValidBody(t, r) /\ AcceptsConfig(t, r) THEN "configured" ELSE "refused"
    /\ config' = IF step' = "configured" THEN NormalConfig(t, r) ELSE NoConfig
    /\ UNCHANGED <<stored, cell, back, headers>>

\* A file's value is the key of an upload.
Answer(v) ==
    /\ step = "configured"
    /\ type \in FileLike => Missing(v) \/ (v.kind = "string" /\ OneOf(v.strs[1], Uuids))
    /\ LET n == Normalize(type, config, v) IN
       /\ step' = IF n.kind = "refused" THEN "refused" ELSE "answered"
       /\ stored' = IF n.kind = "refused" THEN Null ELSE n
    /\ UNCHANGED <<type, raw, config, cell, back, headers>>

Export ==
    /\ step = "answered"
    /\ step' = "exported" /\ cell' = Format(stored)
    /\ UNCHANGED <<type, raw, config, stored, back, headers>>

Import ==
    /\ step = "exported"
    /\ step' = "imported" /\ back' = Reimport(type, config, cell)
    /\ UNCHANGED <<type, raw, config, stored, cell, headers>>

\* The attributes of S, in the event's order.
Exported(list, S) ==
    LET rank(i) == Cardinality({j \in S : j <= i})
    IN [k \in 1..Cardinality(S) |-> list[CHOOSE i \in S : rank(i) = k]]

ExportSheet(list, S) ==
    /\ step = "new" /\ S \subseteq DOMAIN list /\ S # {}
    /\ step' = "sheet"
    /\ attributes' = list /\ asked' = S
    /\ sheet' = Headers(Exported(list, S))
    /\ UNCHANGED <<type, raw, config, stored, cell, back, columns>>

ImportSheet ==
    /\ step = "sheet"
    /\ step' = "columns" /\ columns' = ColumnsOf(sheet, attributes)
    /\ UNCHANGED <<type, raw, config, stored, cell, back, attributes, asked, sheet>>

Next ==
    \/ \E t \in AttributeTypes, r \in Raws : Configure(t, r)
    \/ \E v \in Values : Answer(v)
    \/ Export \/ Import
    \/ \E list \in Attributes : \E S \in SUBSET DOMAIN list : ExportSheet(list, S)
    \/ ImportSheet

Spec == Init /\ [][Next]_vars

-----------------------------------------------------------------------------
ValueType(v) ==
    /\ v.kind \in Kinds
    /\ \A i \in DOMAIN v.strs : \A j \in DOMAIN v.strs[i] : v.strs[i][j] \in Piece

TypeOK ==
    /\ config \in Config
    /\ ValueType(stored) /\ stored.kind \notin {"refused", "date", "object"}
    /\ ValueType(back)
    /\ \A i \in DOMAIN cell : cell[i] \in Piece
    /\ asked \subseteq DOMAIN attributes
    /\ Len(sheet) = Cardinality(asked)

\* What a value of each type is, said without the program: the reference for
\* normalizeParticipantAttributeValue.
Fits(t, c, v) ==
    \/ v = Null
    \/ CASE t = "select" -> v.kind = "string" /\ (c.allowOther \/ v.strs[1] \in c.options)
         [] t = "multiSelect" ->
              /\ v.kind = "array" /\ Len(v.strs) > 0 /\ Within(Len(v.strs), c.max)
              /\ c.allowOther \/ Range(v.strs) \subseteq c.options
              /\ \A s \in Range(v.strs) : s \notin {NotString, Plain(NoText)} /\ s = Trim(s)
         [] t = "block" ->
              /\ v.kind = "array" /\ Range(v.strs) \subseteq {Plain(b) : b \in Blocks}
              /\ Len(v.strs) \in 1..c.max /\ IsInjective(v.strs)
         [] t = "number" -> v.kind = "number"
         [] t = "checkbox" -> v \in {Spoken(TRUE), Spoken(FALSE)}
         [] t \in {"date", "datetime"} -> v.kind = "string" /\ v.strs[1] \in Moments
         [] t \in {"email", "tel", "color"} -> v.kind = "string" /\ HasFormat(t, v.strs[1])
         [] OTHER -> v.kind = "string" /\ v.strs[1] # Plain(NoText)

\* Whatever is sent, what is stored is a value of the attribute's type and
\* config; a value that is one already is never refused.
StoredFits ==
    /\ step = "answered" => Fits(type, config, stored)
    /\ step = "configured" =>
         \A v \in Values : Fits(type, config, v) => Normalize(type, config, v).kind # "refused"

\* A stored value that comes back unchanged (a form is opened and submitted
\* again, an organizer saves a participant) stays as it is.
Stable == step = "answered" => Normalize(type, config, stored) = stored

\* A multiple choice all of whose options have blanks at their ends: answers are
\* trimmed before they are compared with the options, which are not.
Unanswerable(t, c) ==
    t = "multiSelect" /\ ~c.allowOther /\ \A o \in c.options : Trim(o) # o

\* Whoever configures an attribute leaves something to answer: no config that is
\* accepted refuses every answer, but for that one, which does.
Fillable ==
    step = "configured" /\ (type = "block" => Blocks # {}) =>
        (\E v \in Values : Normalize(type, config, v).kind \notin {"refused", "null"})
            <=> ~Unanswerable(type, config)

\* Values are what their attribute's type and config say, from the first answer on.
ValuesSound == StoredFits /\ Stable /\ Fillable

\* What a sheet cannot keep: blanks at the ends, and semicolons inside an answer.
Clean(v) ==
    \A i \in DOMAIN v.strs :
        /\ v.strs[i] = Trim(v.strs[i])
        /\ v.kind = "array" => Len(v.strs[i]) = 1

\* A sheet that is exported and imported again gives every participant the same
\* answers, but for blanks and semicolons inside them; answers about blocks and
\* files, which it does not hold, are refused and never become others.
RoundTrip ==
    step = "imported" =>
        IF type \in FileLike \cup {"block"} THEN back \in {stored, Refused}
        ELSE Clean(stored) => back = stored

\* A mail names everything that was chosen: every option and every block; only
\* other answers, beside the options, are left out.  The ticket names the same
\* blocks.
MailShowsAnswer ==
    step = "answered" /\ stored.kind = "array" =>
        LET mail == Mailed(type, config, stored) IN
        /\ \A s \in Range(stored.strs) :
             CASE type = "block" -> \E b \in Blocks : s = Plain(b) /\ Plain(NameOf[b]) \in mail
               [] OTHER -> s \in mail \/ s \notin config.options
        /\ type = "block" => Shown(type, stored) = mail

\* What leaves the system says what was answered: a sheet when it comes back, a
\* mail, a ticket.
AnswersOut == RoundTrip /\ MailShowsAnswer

\* Every column of an imported sheet goes to the attribute that it was exported
\* from, unless the sheet leaves out an attribute of the same name, or the name
\* is reserved.
ColumnsKept ==
    LET list == Exported(attributes, asked) IN
    \A k \in DOMAIN columns :
        \/ columns[k] = list[k].uuid
        \/ columns[k] \in Reserved
        \/ \E i \in DOMAIN attributes \ asked : Base(attributes[i]).text = Base(list[k]).text
=============================================================================
