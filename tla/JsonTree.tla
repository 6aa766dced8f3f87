------------------------------ MODULE JsonTree ------------------------------
(***************************************************************************)
(* How value.cpp prints a tree.                                            *)
(***************************************************************************)
EXTENDS JsonCursor

-----------------------------------------------------------------------------
(* quotestring *)
Escape(c) == CASE c = "bslash" -> <<"bslash", "bslash">>
               [] c = "quote" -> <<"bslash", "quote">>
               [] c = "eol" -> <<"bslash", "n">>
               [] OTHER -> <<c>>

(* The page's json.dump writes a character that is not ASCII as its code,   *)
(* getstring as it is.                                                      *)
Dumped(c) == IF c = "wide" THEN <<"bslash", "u", "digit", "digit", "digit", "digit">>
             ELSE Escape(c)
Quoted(s, space) ==
  LET escape(c) == IF space = <<>> THEN Dumped(c) ELSE Escape(c)
  IN  <<"quote">> \o FlattenSeq([i \in DOMAIN s |-> escape(s[i])]) \o <<"quote">>

(* Parts separated by commas, each after the first with before in front.    *)
Joined(parts, before) ==
  FlattenSeq([i \in DOMAIN parts |->
                IF i = 1 THEN parts[i] ELSE before \o <<",", "ws">> \o parts[i]])

(* getstring with enquote, arraygetstring and objectgetstring (space =      *)
(* <<"ws">>), and the text json.dump writes (space = <<>>).  The members    *)
(* come in some order.                                                      *)
RECURSIVE Printed(_, _)
Printed(v, space) ==
  LET Bracketed(open, parts, close) ==
        space \o <<open>> \o space \o Joined(parts, space) \o space \o <<close>> \o space
      names == SetToSeq(DOMAIN v[2])
  IN CASE v = Undefined -> <<"null">>
       [] v[1] = "literal" -> <<v[2]>>
       [] v[1] = "number" -> v[2]
       [] v[1] = "string" -> Quoted(v[2], space)
       [] IsArray(v) ->
            Bracketed("[", [i \in DOMAIN v[2] |-> Printed(v[2][i], space)], "]")
       [] IsObject(v) ->
            Bracketed("{", [i \in DOMAIN names |->
              Quoted(names[i], space) \o space \o <<":", "ws">> \o Printed(v[2][names[i]], space)], "}")

=============================================================================
