----------------------------- MODULE MessageText -----------------------------
(***************************************************************************)
(* services/template_engine.py: a template body becomes the text that is   *)
(* sent and the entities that format it, whose offsets and lengths count   *)
(* UTF-16 code units.                                                      *)
(*                                                                         *)
(* A body is a sequence of pieces, as the tag regex cuts it: text, a       *)
(* {placeholder}, or a [Tag=value].  A character is a number, an even one  *)
(* if it takes two UTF-16 units; that is all there is to know of it.       *)
(***************************************************************************)
EXTENDS Integers, SequencesExt

Width(char) == IF char % 2 = 0 THEN 2 ELSE 1
Bracket == 1
Emoji == 2

NoComma == <<>>         \* the head of a value without a comma

\* tag: "text", "name", a formatting tag, "Pre", "TextURL", "Random" or a name
\* nobody knows.  value is the text of the tag, for Pre and TextURL the part
\* behind the comma, with the part before it in head.  count is the number of
\* a Random tag, -1 when it is none.
Pieces == [tag: STRING, head: Seq(Nat), value: Seq(Nat), count: Int]

Piece(tag, head, value, count) ==
    [tag |-> tag, head |-> head, value |-> value, count |-> count]

FormattingTags ==
    {"Bold", "Italic", "Underline", "Strike", "Code", "URL", "Email",
     "Mention", "Hashtag", "Phone"}

\* _to_telethon_entities: the types for which there is a constructor.
KnownTypes == FormattingTags \cup {"Pre", "TextURL"}

\* _utf16_len.
Utf16Len(chars) ==
    LET upTo[n \in 0..Len(chars)] == IF n = 0 THEN 0 ELSE upTo[n - 1] + Width(chars[n])
    IN  upTo[Len(chars)]

\* _apply_context: a placeholder becomes the pieces its value is read as, for
\* the tags are looked for after the substitution; the name has a default.
ApplyContext(body, name) ==
    FlattenSeq([i \in 1..Len(body) |->
        IF body[i].tag = "name" THEN name ELSE <<body[i]>>])

\* match.group(0): brackets, tag name and value as they stand.
Literal(p) ==
    <<Bracket>> \o p.head \o p.value \o <<Bracket>>

\* _expand_pre, _expand_text_url, _expand_random and the value of a plain tag:
\* the characters that a piece contributes to the text.
Shown(p) ==
    CASE p.tag \in FormattingTags \cup {"text"} -> p.value
      [] p.tag = "Pre"     -> p.value
      [] p.tag = "TextURL" -> IF p.head = NoComma THEN p.value ELSE p.head
      [] p.tag = "Random"  -> IF p.count < 0 THEN Literal(p)
                              ELSE [i \in 1..p.count |-> Emoji]
      [] OTHER             -> Literal(p)

IsEntity(p) == p.tag \in FormattingTags \cup {"Pre", "TextURL"}

\* Bug: lengths in characters, as len() counts them.
RenderPieceInChars(acc, p) ==
    [text     |-> acc.text \o Shown(p),
     entities |-> IF IsEntity(p)
                  THEN Append(acc.entities, [type |-> p.tag, offset |-> acc.out,
                                             length |-> Len(Shown(p))])
                  ELSE acc.entities,
     out      |-> acc.out + Len(Shown(p))]

\* One turn of the loop of render_message: out is out_utf16_offset.
RenderPiece(acc, p) ==
    [text     |-> acc.text \o Shown(p),
     entities |-> IF IsEntity(p)
                  THEN Append(acc.entities, [type |-> p.tag, offset |-> acc.out,
                                             length |-> Utf16Len(Shown(p))])
                  ELSE acc.entities,
     out      |-> acc.out + Utf16Len(Shown(p))]

RenderMessage(body, name) ==
    LET pieces == ApplyContext(body, name)
        upTo[n \in 0..Len(pieces)] ==
            IF n = 0 THEN [text |-> <<>>, entities |-> <<>>, out |-> 0]
            ELSE RenderPiece(upTo[n - 1], pieces[n])
    IN  upTo[Len(pieces)]

\* _to_telethon_entities: what is passed on to Telegram.
ToTelethonEntities(entities) ==
    LET upTo[n \in 0..Len(entities)] ==
            IF n = 0 THEN <<>>
            ELSE IF entities[n].type \in KnownTypes THEN Append(upTo[n - 1], entities[n])
            ELSE upTo[n - 1]
    IN  upTo[Len(entities)]

-----------------------------------------------------------------------------
(* Reference: the UTF-16 units of a text, each <<character, half>>, and    *)
(* the span an entity cuts out of them.                                    *)
Units(chars) ==
    FlattenSeq([i \in 1..Len(chars) |-> [h \in 1..Width(chars[i]) |-> <<chars[i], h>>]])

\* The first n pieces that become entities, by their positions.
Tagged(pieces, n) == {i \in 1..n : IsEntity(pieces[i])}

Span(text, e) == SubSeq(Units(text), e.offset + 1, e.offset + e.length)
=============================================================================
