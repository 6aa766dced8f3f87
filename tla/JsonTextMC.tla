---------------------------- MODULE JsonTextMC ----------------------------
(***************************************************************************)
(* Values two containers deep, with the strings and the names in them that *)
(* need quoting, and texts that begin in the middle of everything a parser *)
(* can be in, for TLC.                                                     *)
(***************************************************************************)
EXTENDS JsonCopies, JsonTree

Str(s) == <<"string", s>>
Two == <<"number", <<"digit", "digit">>>>
Atoms == {Two, <<"number", <<"sign", "digit">>>>, <<"literal", "true">>,
          <<"number", <<"digit", "point", "digit">>>>,
          Str(<<"x", "quote">>), Str(<<"bslash", "eol">>), Str(<<"wide", "x", "hex", "hex">>)}
Names == {<<"x">>, <<"quote">>}

Arrays(elements) == {<<"array", items>> : items \in UNION {[1 .. n -> elements] : n \in 0 .. 2}}
Objects(values) == {<<"object", members>> :
                      members \in UNION {[names -> values] : names \in SUBSET Names}}

Small == {Two, <<"array", <<>>>>, <<"array", <<Null>>>>,
          <<"object", (<<"x">> :> Two)>>}
MCDocs == Atoms \cup Arrays(Atoms) \cup Objects(Atoms) \cup Arrays(Small) \cup Objects(Small)

(* MCDocs has no string that ends in a backslash, because such a one is not *)
(* read back: readstring takes its closing quote for an escaped one, the    *)
(* string goes on to the next quote, and the array is read with an error.   *)
Backslash == Str(<<"x", "bslash">>)
BackslashDocs == {<<"array", <<Backslash>>>>} \cup {<<"array", <<Backslash, s>>>> : s \in Atoms}

ASSUME BackslashRunsOn ==
  \A d \in BackslashDocs, ws \in {<<"ws">>, <<>>} :
    Fail(Parse(Printed(d, ws)))

MCTails == {<<"]">>, <<",", "digit", "}">>, <<"quote", "}", "}">>}
MCComments == {<<"/", "/", "quote", "]", "eol">>, <<"/", "/", "eol">>,
               <<"/", "*", "*", "/">>, <<"/", "*", "}", "*", "x", "*", "/">>}
MCStrays == {"x", "u", "quote", "bslash", ":", ",", "]", "/", "*", "digit", "point"}

(* Every text of at most three symbols behind each of the beginnings.       *)
OneMember == <<"{", "quote", "x", "quote", ":">>
Beginnings ==
  {<<>>, <<"[">>, <<"{">>, <<"{", "quote">>,
   OneMember, OneMember \o <<"digit", ",">>, <<"{", "bslash">>, <<"{", "x">>,
   <<"[", "digit", ",">>, <<"[", "true">>, <<"[", "/">>, <<"/", "*", "*">>,
   <<"quote", "bslash", "x">>, <<"quote", "bslash", "u", "digit">>}
Letters ==
  {"ws", "eol", "digit", "hex", "/", "*", "quote", "bslash", "[", "]", "{", "}", ":", ",",
   "x", "u", "true", "sign"}
MCWritten == {b \o rest : b \in Beginnings, rest \in UNION {[1 .. n -> Letters] : n \in 0 .. 3}}
============================================================================
