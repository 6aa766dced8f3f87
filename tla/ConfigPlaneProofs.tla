-------------------------- MODULE ConfigPlaneProofs --------------------------
(***************************************************************************)
(* What holds of the way of a setting for every number of requests at      *)
(* once, every form, every installed document and every width.             *)
(***************************************************************************)
EXTENDS ConfigPlane, ConfigLoadProofs, FiniteSetTheorems

(* The file holds a document json.load takes, and what was last saved.      *)
Good == /\ file # Empty /\ JsonLoads(file)
        /\ \A key \in Fields : file.doc[key].num = wanted[key]

(* What w is about to write is the form it serves over what was last saved. *)
Submitted(w) ==
  \A key \in Fields :
    fields[w][key].num = IF key \in DOMAIN form[w] THEN form[w][key] ELSE wanted[key]

(* A worker that is in a request has a form and the fields made of it.      *)
Equipped ==
  \A w \in Workers : wpc[w] \in {"read", "open"} =>
    /\ fields[w] \in [Fields -> Value]
    /\ form[w] \in Forms /\ DOMAIN form[w] \subseteq Fields

(* Requests that come one after the other find the file as the last one     *)
(* left it, and are right about what was in it.                             *)
OneAfterTheOther ==
  ~raced =>
    /\ \A v, w \in Workers : wpc[v] # "idle" /\ wpc[w] # "idle" => v = w
    /\ \A w \in Workers : wpc[w] = "open" => file = Empty
FileKept == ~raced /\ ~torn => (\E w \in Workers : wpc[w] = "open") \/ Good
FormsKept ==
  ~raced /\ ~torn => \A w \in Workers : wpc[w] \in {"read", "open"} => Submitted(w)

(* However many come at once, the file is empty only as long as one has it  *)
(* open.                                                                    *)
FileWritten == ~torn => (\E w \in Workers : wpc[w] = "open") \/ file # Empty

(* The daemon, unless a worker has come between, still finds what it has    *)
(* mapped.                                                                  *)
MappingKept ==
  ~overlap =>
    /\ dpc \in {"mapped", "parsing", "loaded"} => file # Empty
    /\ dpc \in {"mapped", "parsing"} => file.len <= mapped
    /\ dpc = "parsing" => seen = file.doc
    /\ dpc = "loaded" => config \in Results(file.doc)

(* Half-way through the parse there is a document it walks over.            *)
Walking == dpc = "parsing" => seen \in [Fields -> Value]

PlaneInv ==
  /\ TypeOK /\ wanted \in [Fields -> Int]
  /\ Equipped /\ OneAfterTheOther /\ FileKept /\ FormsKept
  /\ FileWritten /\ MappingKept /\ Walking

-----------------------------------------------------------------------------
(* The text of a document has a length, and is not empty.                   *)
LEMMA FieldsFinite == IsFiniteSet(Fields)
<1>1. \A x : IsFiniteSet({x})
  BY FS_Singleton
<1>2. Fields = {"drop_percent"} \cup ({"corrupt_packet_percent"}
                 \cup ({"corrupt_packet_bytes"} \cup ({"truncate_len"} \cup {"bandwidth"})))
  BY DEF Fields
<1>3. IsFiniteSet({"truncate_len"} \cup {"bandwidth"})
  BY <1>1, FS_Union
<1>4. IsFiniteSet({"corrupt_packet_bytes"} \cup ({"truncate_len"} \cup {"bandwidth"}))
  BY <1>1, <1>3, FS_Union
<1>5. IsFiniteSet({"corrupt_packet_percent"}
                  \cup ({"corrupt_packet_bytes"} \cup ({"truncate_len"} \cup {"bandwidth"})))
  BY <1>1, <1>4, FS_Union
<1> QED BY <1>1, <1>2, <1>5, FS_Union

LEMMA TextLenType ==
  ASSUME NEW doc \in [Fields -> Value]
  PROVE  TextLen(doc) \in Nat \ {0}
<1> DEFINE strings == {key \in DOMAIN doc : doc[key].type = "string"}
           digits == {key \in DOMAIN doc : doc[key].num > 9}
<1>1. strings \subseteq Fields /\ digits \subseteq Fields
  OBVIOUS
<1>2. Cardinality(strings) \in Nat /\ Cardinality(digits) \in Nat
  BY <1>1, FieldsFinite, FS_Subset, FS_CardinalityType
<1> QED BY <1>2 DEF TextLen

(* A file that is not empty holds a document of the five fields.            *)
LEMMA FileType ==
  ASSUME TypeOK
  PROVE  /\ file # Empty <=> file.size # 0
         /\ file # Empty =>
              /\ file.doc \in [Fields -> Value]
              /\ file.len = TextLen(file.doc) /\ file.len \in Nat \ {0}
              /\ file.size >= file.len
<1>1. CASE file = Empty
  BY <1>1 DEF Empty
<1>2. CASE file # Empty
  BY <1>2, TextLenType DEF TypeOK
<1> QED BY <1>1, <1>2

(* What was written is a file, and a document json.load takes if nothing    *)
(* was there before.                                                        *)
LEMMA WrittenFile ==
  ASSUME TypeOK, NEW doc \in [Fields -> Value]
  PROVE  LET f == Dumped(file, doc)
         IN  /\ f # Empty /\ f.doc = doc
             /\ f.len = TextLen(doc) /\ f.size >= f.len /\ f.size \in Nat
             /\ file = Empty => JsonLoads(f)
<1>1. TextLen(doc) \in Nat \ {0}
  BY TextLenType
<1>2. file.size \in Nat
  BY FileType, TextLenType DEF TypeOK, Empty
<1> QED BY <1>1, <1>2 DEF Dumped, JsonLoads, Empty

(* A document written by a form has values of the numbers it spells.        *)
LEMMA MergeType ==
  ASSUME NEW doc \in [Fields -> Value], NEW filled \in Forms, DOMAIN filled \subseteq Fields
  PROVE  /\ Merge(doc, filled) \in [Fields -> Value]
         /\ \A key \in Fields : Merge(doc, filled)[key].num =
              IF key \in DOMAIN filled THEN filled[key] ELSE doc[key].num
<1>1. \A key \in DOMAIN filled : [type |-> "string", num |-> filled[key]] \in Value
  BY PlaneAssumption DEF Value, OtherTypes
<1> QED BY <1>1 DEF Merge

(* A load of a document of the five fields leaves a configuration.          *)
LEMMA ResultsType ==
  ASSUME NEW doc \in [Fields -> Value]
  PROVE  Results(doc) \subseteq config_t /\ Results(doc) # {}
<1> DEFINE whole == [parses |-> TRUE, fields |-> doc]
<1>1. IsDoc(whole)
  BY DEF IsDoc
<1> QED BY <1>1, LoadResultsType, LoadSucceeds DEF Results

LEMMA MixesType ==
  ASSUME NEW old \in [Fields -> Value], NEW new \in [Fields -> Value]
  PROVE  /\ Mixes(old, new) \subseteq [Fields -> Value]
         /\ old = new => \A doc \in Mixes(old, new) : doc = old
BY DEF Mixes

-----------------------------------------------------------------------------
(* The file is as it was installed, and nobody is at work on it.            *)
LEMMA PlaneInit == Init => PlaneInv
<1> SUFFICES ASSUME Init PROVE PlaneInv
  OBVIOUS
<1>1. PICK doc \in Initial \cup ByHand : file = Contents(doc)
  BY DEF Init
<1>2. doc \in [Fields -> Value]
  BY <1>1, PlaneAssumption
<1>3. TextLen(doc) \in Nat \ {0}
  BY <1>2, TextLenType
<1>4. ZeroConfig \in config_t
  BY ConfigAssumption DEF ZeroConfig, config_t, Ulong
<1>5. file # Empty /\ JsonLoads(file) /\ file.doc = doc
  BY <1>1, <1>3 DEF Contents, Empty, JsonLoads
<1>6. TypeOK
  <2>1. file.doc \in [Fields -> Value] /\ file.len = TextLen(file.doc)
        /\ file.size \in Nat /\ file.size >= file.len
    BY <1>1, <1>2, <1>3 DEF Contents
  <2>2. form \in [Workers -> Forms \cup {<<>>}] /\ wpc \in [Workers -> {"idle"}]
        /\ fields \in [Workers -> {<<>>} \cup [Fields -> Value]]
    BY DEF Init
  <2> QED BY <1>4, <2>1, <2>2 DEF Init, TypeOK
<1>7. wanted \in [Fields -> Int]
  BY <1>2, <1>5 DEF Init, Value
<1>8. \A w \in Workers : wpc[w] = "idle"
  BY DEF Init
<1>9. Good
  BY <1>5 DEF Good, Init
<1> QED BY <1>5, <1>6, <1>7, <1>8, <1>9
        DEF Init, PlaneInv, Equipped, OneAfterTheOther, FileKept, FormsKept, FileWritten, MappingKept, Walking

(* set_config reads the file and merges the form. *)
LEMMA ReadAndMergeStep ==
  ASSUME PlaneInv, NEW w \in Workers, ReadAndMerge(w)
  PROVE  PlaneInv'
<1>1. PICK filled \in Forms :
        /\ DOMAIN filled \subseteq Fields
        /\ form' = [form EXCEPT ![w] = filled]
        /\ fields' = [fields EXCEPT ![w] = Merge(file.doc, filled)]
  BY DEF ReadAndMerge
<1>2. /\ wpc[w] = "idle" /\ wpc' = [wpc EXCEPT ![w] = "read"]
      /\ UNCHANGED <<file, wanted, overlap, torn>>
      /\ UNCHANGED <<dpc, reload_config, config, mapped, seen>>
  BY DEF ReadAndMerge, daemon
<1>3. file.doc \in [Fields -> Value] /\ file # Empty
  BY FileType DEF PlaneInv, ReadAndMerge, JsonLoads, Empty
<1>4. fields'[w] = Merge(file.doc, filled) /\ fields'[w] \in [Fields -> Value]
      /\ form'[w] = filled /\ wpc'[w] = "read"
  BY <1>1, <1>2, <1>3, MergeType DEF PlaneInv, TypeOK
<1>5. \A v \in Workers : v # w => /\ wpc'[v] = wpc[v] /\ form'[v] = form[v]
                                  /\ fields'[v] = fields[v]
  BY <1>1, <1>2 DEF PlaneInv, TypeOK
<1>6. raced' \in BOOLEAN /\ (~raced' => ~raced /\ \A v \in Workers : wpc[v] = "idle")
  BY DEF ReadAndMerge, PlaneInv, TypeOK
<1>7. TypeOK' /\ wanted' \in [Fields -> Int]
  <2>1. wpc' \in [Workers -> {"idle", "read", "open", "saved"}]
        /\ form' \in [Workers -> Forms \cup {<<>>}]
    BY <1>1, <1>2 DEF PlaneInv, TypeOK
  <2>2. fields' \in [Workers -> {<<>>} \cup [Fields -> Value]]
    BY <1>1, <1>3, MergeType DEF PlaneInv, TypeOK
  <2> QED BY <1>2, <1>6, <2>1, <2>2 DEF PlaneInv, TypeOK
<1>8. Equipped'
  BY <1>1, <1>4, <1>5 DEF PlaneInv, Equipped
<1>9. OneAfterTheOther'
  BY <1>4, <1>5, <1>6 DEF OneAfterTheOther
<1>10. FileKept' /\ FormsKept'
  <2> SUFFICES ASSUME ~raced', ~torn' PROVE Good' /\ Submitted(w)'
    BY <1>5, <1>6 DEF FileKept, FormsKept
  <2>1. Good
    BY <1>2, <1>6 DEF PlaneInv, FileKept
  <2>2. \A key \in Fields : fields'[w][key].num =
           IF key \in DOMAIN filled THEN filled[key] ELSE file.doc[key].num
    BY <1>1, <1>3, <1>4, MergeType
  <2> QED BY <2>1, <2>2, <1>2, <1>4 DEF Good, Submitted
<1>11. FileWritten'
  <2>1. \A v \in Workers : wpc[v] = "open" => wpc'[v] = "open"
    BY <1>2, <1>5
  <2> QED BY <1>2, <2>1 DEF PlaneInv, FileWritten
<1>12. MappingKept' /\ Walking'
  BY <1>2 DEF PlaneInv, MappingKept, Walking
<1> QED BY <1>7, <1>8, <1>9, <1>10, <1>11, <1>12 DEF PlaneInv

(* The file is opened, and emptied. *)
LEMMA OpenFileStep ==
  ASSUME PlaneInv, NEW w \in Workers, OpenFile(w)
  PROVE  PlaneInv'
<1>1. /\ wpc[w] = "read" /\ wpc' = [wpc EXCEPT ![w] = "open"]
      /\ file' = Empty /\ overlap' = TRUE
      /\ UNCHANGED <<form, fields, wanted, torn, raced>>
      /\ UNCHANGED <<dpc, reload_config, config, mapped, seen>>
  BY DEF OpenFile, Truncate, daemon
<1>2. wpc'[w] = "open" /\ \A v \in Workers : v # w => wpc'[v] = wpc[v]
  BY <1>1 DEF PlaneInv, TypeOK
<1>3. TypeOK' /\ wanted' \in [Fields -> Int]
  BY <1>1 DEF PlaneInv, TypeOK
<1>4. \A v \in Workers : /\ wpc'[v] \in {"read", "open"} => wpc[v] \in {"read", "open"}
                        /\ wpc'[v] # "idle" => wpc[v] # "idle"
  BY <1>1, <1>2
<1>5. Equipped'
  BY <1>1, <1>4 DEF PlaneInv, Equipped
<1>6. OneAfterTheOther'
  BY <1>1, <1>4 DEF PlaneInv, OneAfterTheOther
<1>7. FileKept' /\ FileWritten'
  BY <1>2 DEF FileKept, FileWritten
<1>8. FormsKept'
  <2>1. \A v \in Workers : Submitted(v) => Submitted(v)'
    BY <1>1 DEF Submitted
  <2> QED BY <1>1, <1>4, <2>1 DEF PlaneInv, FormsKept
<1>9. MappingKept' /\ Walking'
  BY <1>1 DEF PlaneInv, MappingKept, Walking
<1> QED BY <1>3, <1>5, <1>6, <1>7, <1>8, <1>9 DEF PlaneInv

(* The document is written, and the file closed. *)
LEMMA DumpStep ==
  ASSUME PlaneInv, NEW w \in Workers, Dump(w)
  PROVE  PlaneInv'
<1>1. /\ wpc[w] = "open" /\ wpc' = [wpc EXCEPT ![w] = "saved"]
      /\ file' = Dumped(file, fields[w]) /\ overlap' = TRUE
      /\ wanted' = [key \in Fields |-> IF key \in DOMAIN form[w]
                                        THEN form[w][key] ELSE wanted[key]]
      /\ UNCHANGED <<form, fields, torn, raced>>
      /\ UNCHANGED <<dpc, reload_config, config, mapped, seen>>
  BY DEF Dump, daemon
<1>2. wpc'[w] = "saved" /\ \A v \in Workers : v # w => wpc'[v] = wpc[v]
  BY <1>1 DEF PlaneInv, TypeOK
<1>3. fields[w] \in [Fields -> Value] /\ form[w] \in Forms
  BY <1>1 DEF PlaneInv, Equipped
<1>4. /\ file' # Empty /\ file'.doc = fields[w]
      /\ file'.len = TextLen(file'.doc) /\ file'.size >= file'.len
      /\ file'.size \in Nat /\ (file = Empty => JsonLoads(file'))
  BY <1>1, <1>3, WrittenFile DEF PlaneInv
<1>5. wanted' \in [Fields -> Int]
  BY <1>1, <1>3, PlaneAssumption DEF PlaneInv
<1>6. TypeOK'
  BY <1>1, <1>3, <1>4 DEF PlaneInv, TypeOK
<1>7. \A v \in Workers :
        /\ wpc'[v] # "idle" => wpc[v] # "idle"
        /\ wpc'[v] \in {"read", "open"} => wpc[v] \in {"read", "open"} /\ v # w
  BY <1>1, <1>2
<1>8. Equipped'
  BY <1>1, <1>7 DEF PlaneInv, Equipped
<1>9. ~raced => \A v \in Workers : wpc'[v] \notin {"read", "open"}
  BY <1>1, <1>7 DEF PlaneInv, OneAfterTheOther
<1>10. OneAfterTheOther'
  BY <1>1, <1>7, <1>9 DEF PlaneInv, OneAfterTheOther
<1>11. FileKept'
  <2> SUFFICES ASSUME ~raced, ~torn PROVE Good'
    BY <1>1 DEF FileKept
  <2>1. JsonLoads(file')
    BY <1>1, <1>4 DEF PlaneInv, OneAfterTheOther
  <2>2. Submitted(w)
    BY <1>1 DEF PlaneInv, FormsKept
  <2>3. \A key \in Fields : file'.doc[key].num = wanted'[key]
    BY <1>1, <1>4, <2>2 DEF Submitted
  <2> QED BY <1>4, <2>1, <2>3 DEF Good
<1>12. FormsKept'
  BY <1>1, <1>9 DEF FormsKept
<1>13. FileWritten'
  BY <1>4 DEF FileWritten
<1>14. MappingKept' /\ Walking'
  BY <1>1 DEF PlaneInv, MappingKept, Walking
<1> QED BY <1>5, <1>6, <1>8, <1>10, <1>11, <1>12, <1>13, <1>14 DEF PlaneInv
(* The request ends, or the web server does. *)
LEMMA CallInitScriptStep ==
  ASSUME PlaneInv, NEW w \in Workers, CallInitScript(w)
  PROVE  PlaneInv'
<1>1. /\ wpc[w] = "saved" /\ wpc' = [wpc EXCEPT ![w] = "idle"]
      /\ form' = [form EXCEPT ![w] = <<>>] /\ fields' = [fields EXCEPT ![w] = <<>>]
      /\ UNCHANGED <<file, wanted, overlap, torn, raced>>
      /\ UNCHANGED <<dpc, reload_config, config, mapped, seen>>
  BY DEF CallInitScript, daemon
<1>2. wpc'[w] = "idle" /\ \A v \in Workers : v # w =>
        wpc'[v] = wpc[v] /\ form'[v] = form[v] /\ fields'[v] = fields[v]
  BY <1>1 DEF PlaneInv, TypeOK
<1>3. \A v \in Workers :
        /\ wpc'[v] # "idle" => v # w /\ wpc'[v] = wpc[v]
        /\ wpc'[v] = "open" <=> wpc[v] = "open"
  BY <1>1, <1>2
<1>4. TypeOK' /\ wanted' \in [Fields -> Int]
  BY <1>1 DEF PlaneInv, TypeOK
<1>5. Equipped'
  BY <1>2 DEF PlaneInv, Equipped
<1>6. OneAfterTheOther'
  BY <1>1, <1>3 DEF PlaneInv, OneAfterTheOther
<1>7. FileKept' /\ FileWritten'
  BY <1>1, <1>3 DEF PlaneInv, FileKept, FileWritten, Good
<1>8. FormsKept'
  BY <1>1, <1>2 DEF PlaneInv, FormsKept, Submitted
<1>9. MappingKept' /\ Walking'
  BY <1>1 DEF PlaneInv, MappingKept, Walking
<1> QED BY <1>4, <1>5, <1>6, <1>7, <1>8, <1>9 DEF PlaneInv

LEMMA WebRestartsStep == PlaneInv /\ WebRestarts => PlaneInv'
<1> SUFFICES ASSUME PlaneInv, WebRestarts PROVE PlaneInv'
  OBVIOUS
<1>1. /\ torn' = (torn \/ \E w \in Workers : wpc[w] = "open")
      /\ wpc' = [w \in Workers |-> "idle"]
      /\ form' = [w \in Workers |-> <<>>] /\ fields' = [w \in Workers |-> <<>>]
      /\ UNCHANGED <<file, wanted, overlap, raced>>
      /\ UNCHANGED <<dpc, reload_config, config, mapped, seen>>
  BY DEF WebRestarts, daemon
<1>2. \A w \in Workers : wpc'[w] = "idle"
  BY <1>1
<1>3. TypeOK' /\ wanted' \in [Fields -> Int]
  BY <1>1 DEF PlaneInv, TypeOK
<1>4. Equipped' /\ OneAfterTheOther' /\ FormsKept'
  BY <1>2 DEF Equipped, OneAfterTheOther, FormsKept
<1>5. FileKept' /\ FileWritten'
  BY <1>1 DEF PlaneInv, FileKept, FileWritten, Good
<1>6. MappingKept' /\ Walking'
  BY <1>1 DEF PlaneInv, MappingKept, Walking
<1> QED BY <1>3, <1>4, <1>5, <1>6 DEF PlaneInv

-----------------------------------------------------------------------------
(* No step of the daemon or its init script touches the file or a request.  *)
LEMMA WebUntouched ==
  ASSUME PlaneInv, UNCHANGED <<web, file, wanted, torn, raced>>, TypeOK', MappingKept', Walking'
  PROVE  PlaneInv'
<1>1. UNCHANGED <<wpc, form, fields, file, wanted, torn, raced>>
  BY DEF web
<1>2. Equipped' /\ OneAfterTheOther' /\ FileKept' /\ FormsKept' /\ FileWritten'
  BY <1>1 DEF PlaneInv, Equipped, OneAfterTheOther, FileKept, FormsKept, FileWritten,
              Good, Submitted
<1> QED BY <1>1, <1>2 DEF PlaneInv

LEMMA MapFileStep ==
  ASSUME PlaneInv, MapFile
  PROVE  PlaneInv' /\ (dpc' = "down" => torn \/ overlap')
<1>1. /\ dpc' = IF file.size = 0 THEN "down" ELSE "mapped"
      /\ mapped' = file.size
      /\ overlap' = \E w \in Workers : wpc[w] = "open"
      /\ UNCHANGED <<web, file, reload_config, config, seen, wanted, torn, raced>>
  BY DEF MapFile, MappedLength
<1>2. /\ file # Empty <=> file.size # 0
      /\ file # Empty => file.len \in Nat /\ file.size >= file.len /\ file.size \in Nat
  BY FileType DEF PlaneInv, TypeOK
<1>3. file.size \in Nat
  BY <1>2 DEF Empty
<1>4. TypeOK'
  BY <1>1, <1>3 DEF PlaneInv, TypeOK, web
<1>5. MappingKept' /\ Walking'
  BY <1>1, <1>2 DEF MappingKept, Walking
<1>6. dpc' = "down" => torn \/ overlap'
  BY <1>1, <1>2 DEF PlaneInv, FileWritten
<1> QED BY <1>1, <1>4, <1>5, <1>6, WebUntouched

LEMMA ParseFirstStep ==
  ASSUME PlaneInv, ParseFirst
  PROVE  PlaneInv' /\ (dpc' = "down" => torn \/ overlap')
<1>1. /\ dpc = "mapped"
      /\ dpc' = IF file = Empty \/ ~(file.len <= mapped) THEN "down" ELSE "parsing"
      /\ seen' = file.doc
      /\ UNCHANGED <<web, file, reload_config, config, mapped, wanted, overlap, torn, raced>>
  BY DEF ParseFirst, InMapping
<1>2. file.doc = <<>> \/ file.doc \in [Fields -> Value]
  BY FileType DEF PlaneInv, Empty
<1>3. TypeOK'
  BY <1>1, <1>2 DEF PlaneInv, TypeOK, web
<1>4. MappingKept' /\ (dpc' = "down" => overlap')
  BY <1>1 DEF PlaneInv, TypeOK, MappingKept
<1>5. Walking'
  BY <1>1, FileType DEF PlaneInv, Walking
<1> QED BY <1>1, <1>3, <1>4, <1>5, WebUntouched

LEMMA ParseRestStep ==
  ASSUME PlaneInv, ParseRest
  PROVE  PlaneInv' /\ (dpc' = "down" => torn \/ overlap')
<1>1. /\ dpc = "parsing" /\ seen' = <<>>
      /\ UNCHANGED <<web, file, reload_config, mapped, wanted, overlap, torn, raced>>
  BY DEF ParseRest
<1>2. CASE /\ file # Empty /\ dpc' = "loaded"
           /\ \E doc \in Mixes(seen, file.doc) : config' \in Results(doc)
  <2>1. PICK doc \in Mixes(seen, file.doc) : config' \in Results(doc)
    BY <1>2
  <2>2. file.doc \in [Fields -> Value]
    BY <1>2, FileType DEF PlaneInv
  <2>3. doc \in [Fields -> Value]
    BY <1>1, <2>2, MixesType DEF PlaneInv, Walking
  <2>4. config' \in config_t
    BY <2>1, <2>3, ResultsType
  <2>5. TypeOK'
    BY <1>1, <1>2, <2>4 DEF PlaneInv, TypeOK, web
  <2>6. MappingKept' /\ Walking'
    BY <1>1, <1>2, <2>1, <2>2, MixesType DEF PlaneInv, MappingKept, Walking
  <2> QED BY <1>1, <1>2, <2>5, <2>6, WebUntouched
<1>3. CASE /\ file.doc # seen \/ ~(file.len <= mapped) \/ Results(file.doc) = {}
           /\ dpc' = "down" /\ UNCHANGED config
  <2>1. overlap
    BY <1>1, <1>3, FileType, ResultsType DEF PlaneInv, TypeOK, MappingKept
  <2>2. TypeOK' /\ MappingKept' /\ Walking'
    BY <1>1, <1>3, <2>1 DEF PlaneInv, TypeOK, MappingKept, Walking, web
  <2> QED BY <1>1, <2>1, <2>2, WebUntouched
<1> QED BY <1>2, <1>3 DEF ParseRest, InMapping
(* Start, stop, reload, and what the daemon does without the file. *)
LEMMA OtherStep ==
  ASSUME PlaneInv, Start \/ Stop \/ Reload \/ EnterLoop \/ ClearFlag
  PROVE  PlaneInv'
<1>1. UNCHANGED <<web, file, wanted, torn, raced, overlap>>
  BY DEF Start, Stop, Reload, EnterLoop, ClearFlag
<1>2. ZeroConfig \in config_t
  BY ConfigAssumption DEF ZeroConfig, config_t, Ulong
<1>3. TypeOK'
  <2>1. dpc' \in {"down", "starting", "loop"} \/ dpc' = dpc
    BY DEF Start, Stop, Reload, EnterLoop, ClearFlag
  <2>2. reload_config' \in BOOLEAN
    BY DEF Start, Stop, Reload, EnterLoop, ClearFlag, PlaneInv, TypeOK
  <2>3. \/ UNCHANGED <<config, mapped, seen>>
        \/ config' = ZeroConfig /\ mapped' = 0 /\ seen' = <<>>
    BY DEF Start, Stop, Reload, EnterLoop, ClearFlag
  <2> QED BY <1>1, <1>2, <2>1, <2>2, <2>3 DEF PlaneInv, TypeOK, web
<1>4. dpc' \in {"mapped", "parsing", "loaded"} => UNCHANGED <<dpc, config, mapped, seen>>
  BY DEF Start, Stop, Reload, EnterLoop, ClearFlag
<1>5. MappingKept' /\ Walking'
  BY <1>1, <1>4 DEF PlaneInv, MappingKept, Walking
<1> QED BY <1>1, <1>3, <1>5, WebUntouched

LEMMA PlaneNext == PlaneInv /\ [Next]_vars => PlaneInv'
<1> SUFFICES ASSUME PlaneInv, [Next]_vars PROVE PlaneInv'
  OBVIOUS
<1>1. CASE Web
  BY <1>1, ReadAndMergeStep, OpenFileStep, DumpStep, CallInitScriptStep, WebRestartsStep DEF Web
<1>2. CASE MapFile \/ ParseFirst \/ ParseRest
  BY <1>2, MapFileStep, ParseFirstStep, ParseRestStep
<1>3. CASE Start \/ Stop \/ Reload \/ EnterLoop \/ ClearFlag
  BY <1>3, OtherStep
<1>4. CASE UNCHANGED vars
  <2>1. /\ UNCHANGED <<web, file, wanted, torn, raced, overlap>>
        /\ UNCHANGED <<dpc, reload_config, config, mapped, seen>>
    BY <1>4 DEF vars, daemon
  <2>2. TypeOK' /\ MappingKept' /\ Walking'
    BY <2>1 DEF PlaneInv, TypeOK, MappingKept, Walking, web
  <2> QED BY <2>1, <2>2, WebUntouched
<1> QED BY <1>1, <1>2, <1>3, <1>4 DEF Next, Daemon

LEMMA PlaneInvHolds == Spec => []PlaneInv
BY PlaneInit, PlaneNext, PTL DEF Spec

-----------------------------------------------------------------------------
(* The state of the workers, the file and the daemon stays within its type. *)
THEOREM PlaneTypeCorrect == Spec => []TypeOK
<1>1. PlaneInv => TypeOK
  BY DEF PlaneInv
<1> QED BY <1>1, PlaneInvHolds, PTL

(* Requests that come one after the other leave a file json.load takes, for *)
(* every form, every value and however the lengths of documents differ.     *)
THEOREM PageStaysUsable == Spec => []PageUsable
<1>1. PlaneInv => PageUsable
  BY DEF PlaneInv, FileKept, Good, PageUsable, Undisturbed
<1> QED BY <1>1, PlaneInvHolds, PTL

(* They lose no setting. *)
THEOREM UpdatesAreKept == Spec => []UpdateKept
<1>1. PlaneInv => UpdateKept
  BY FileType DEF PlaneInv, FileKept, Good, UpdateKept, Undisturbed
<1> QED BY <1>1, PlaneInvHolds, PTL

(* Any number of requests at once leave a file the daemon can load.         *)
THEOREM DaemonCanAlwaysLoad == Spec => []DaemonCanLoad
<1>1. PlaneInv => DaemonCanLoad
  BY FileType, ResultsType DEF PlaneInv, FileWritten, DaemonCanLoad
<1> QED BY <1>1, PlaneInvHolds, PTL

(* A load that no open file comes upon does not kill the daemon.            *)
THEOREM LoadsSurvive == Spec => DiesOnlyOnOverlap
<1>1. PlaneInv => [(MapFile \/ ParseFirst \/ ParseRest) /\ dpc' = "down" => torn \/ overlap']_vars
  BY MapFileStep, ParseFirstStep, ParseRestStep
<1> QED BY <1>1, PlaneInvHolds, PTL DEF DiesOnlyOnOverlap

(* What has been loaded undisturbed is one of the results of the file's     *)
(* document.                                                                *)
LEMMA LoadedResult ==
  ASSUME PlaneInv, LoadedAlone
  PROVE  /\ \A key \in Fields : file.doc[key] \in Value /\ Given(key) = Said(file.doc[key])
         /\ config.drop \in Percent(file.doc["drop_percent"])
         /\ config.corrupt_bytes \in
               {ToUlong(ToInt(i)) : i \in GetInteger(file.doc["corrupt_packet_bytes"])}
         /\ config.truncate_len \in {ToUlong(i) : i \in GetInteger(file.doc["truncate_len"])}
         /\ config.bandwidth \in NsPerByte(file.doc["bandwidth"])
<1>1. file.doc \in [Fields -> Value] /\ config \in Results(file.doc)
  BY FileType DEF PlaneInv, MappingKept, LoadedAlone
<1>2. \A key \in Fields : file.doc[key] \in Value /\ Given(key) = Said(file.doc[key])
  BY <1>1 DEF Given, Said
<1>3. DOMAIN file.doc = Fields
  BY <1>1
<1> QED BY <1>1, <1>2, <1>3 DEF Results, LoadResults

(* Every percentage that is not rounded to 100 is honoured, whatever the    *)
(* widths of float, double and word.                                        *)
THEOREM SharesAreHonoured == Spec => []ShareHonoured
<1>1. ASSUME PlaneInv PROVE ShareHonoured
  <2> DEFINE p == Given("drop_percent")
  <2> SUFFICES ASSUME LoadedAlone, p >= 0, (Ulps + 2) * p < Ulps * 100 * Den
               PROVE  /\ Ulps * config.drop * 100 * Den <= (Ulps + 2) * p * Word
                      /\ (Ulps - 2) * p * Word < Ulps * (config.drop + 1) * 100 * Den
    BY DEF ShareHonoured
  <2>1. file.doc["drop_percent"] \in Value /\ p = Said(file.doc["drop_percent"])
    BY <1>1, LoadedResult DEF Fields
  <2>2. p \in Nat
    BY <2>1 DEF Said, Value
  <2>3. config.drop \in Percent(file.doc["drop_percent"])
    BY <1>1, LoadedResult
  <2> HIDE DEF p
  <2> QED BY <2>1, <2>2, <2>3, ShareFacts, WidthAssumption DEF Ulps
<1> QED BY <1>1, PlaneInvHolds, PTL

(* Every bandwidth of one KiB/s or more is honoured to the nanosecond and   *)
(* what a float makes of it.                                                *)
THEOREM RatesAreHonoured == Spec => []RateHonoured
<1>1. ASSUME PlaneInv PROVE RateHonoured
  <2> DEFINE kps == Given("bandwidth")
  <2> SUFFICES ASSUME LoadedAlone, kps >= Den, kps <= LongMax * Den
               PROVE  /\ Ulps * config.bandwidth * kps * KiB <= (Ulps + 2) * NsPerS * Den
                      /\ (Ulps - 2) * NsPerS * Den < Ulps * (config.bandwidth + 1) * kps * KiB
    BY DEF RateHonoured
  <2>1. file.doc["bandwidth"] \in Value /\ kps = Said(file.doc["bandwidth"])
    BY <1>1, LoadedResult DEF Fields
  <2>2. kps \in Int
    BY <2>1 DEF Said, Value
  <2>3. config.bandwidth \in NsPerByte(file.doc["bandwidth"])
    BY <1>1, LoadedResult
  <2> HIDE DEF kps
  <2> QED BY <2>1, <2>2, <2>3, RateFacts, WidthAssumption, ConfigAssumption DEF Ulps
<1> QED BY <1>1, PlaneInvHolds, PTL

(* Every count without a point is stored as it was asked for, up to the end *)
(* of a long, or of the int it goes through.                                *)
THEOREM CountsAreHonoured == Spec => []CountsHonoured
<1>1. ASSUME PlaneInv PROVE CountsHonoured
  <2> DEFINE count(key) == Given(key) \div Den
             Asked(key) == file.doc[key].type = "fixed_number" /\ count(key) >= 0
  <2> SUFFICES ASSUME LoadedAlone
               PROVE  /\ Asked("truncate_len") =>
                           IF count("truncate_len") > LongMax THEN config.truncate_len = LongMax
                           ELSE config.truncate_len = count("truncate_len")
                      /\ Asked("corrupt_packet_bytes")
                           /\ count("corrupt_packet_bytes") < IntMod \div 2 =>
                           config.corrupt_bytes = count("corrupt_packet_bytes")
    BY DEF CountsHonoured
  <2>1. ASSUME NEW key \in Fields, Asked(key)
        PROVE  /\ file.doc[key] \in Value /\ file.doc[key].type = "fixed_number"
               /\ count(key) = file.doc[key].num \div Den
               /\ file.doc[key].num \div Den >= 0
    BY <1>1, <2>1, LoadedResult DEF Said, NumericTypes
  <2>2. "truncate_len" \in Fields /\ "corrupt_packet_bytes" \in Fields
    BY DEF Fields
  <2>3. ASSUME Asked("truncate_len")
        PROVE  IF count("truncate_len") > LongMax THEN config.truncate_len = LongMax
               ELSE config.truncate_len = count("truncate_len")
    <3> DEFINE v == file.doc["truncate_len"]
               i == v.num \div Den
    <3>1. v \in Value /\ v.type = "fixed_number" /\ count("truncate_len") = i /\ i >= 0
      BY <2>1, <2>2, <2>3
    <3>2. config.truncate_len \in {ToUlong(j) : j \in GetInteger(v)}
      BY <1>1, LoadedResult
    <3> HIDE DEF v, Asked
    <3>3. /\ i \in Nat
          /\ i > LongMax => GetInteger(v) = {LongMax} /\ ToUlong(LongMax) = LongMax
          /\ i <= LongMax => GetInteger(v) = {i} /\ ToUlong(i) = i
      BY <3>1, FixedFacts
    <3> HIDE DEF i, count
    <3>4. i > LongMax \/ i <= LongMax
      BY <3>3, LongFacts
    <3> QED BY <3>1, <3>2, <3>3, <3>4, LongFacts
  <2>4. ASSUME Asked("corrupt_packet_bytes"), count("corrupt_packet_bytes") < IntMod \div 2
        PROVE  config.corrupt_bytes = count("corrupt_packet_bytes")
    <3> DEFINE v == file.doc["corrupt_packet_bytes"]
               i == v.num \div Den
    <3>1. v \in Value /\ v.type = "fixed_number" /\ count("corrupt_packet_bytes") = i /\ i >= 0
      BY <2>1, <2>2, <2>4
    <3>2. config.corrupt_bytes \in {ToUlong(ToInt(j)) : j \in GetInteger(v)}
      BY <1>1, LoadedResult
    <3> HIDE DEF v, Asked
    <3>3. i < IntMod \div 2 /\ IntMod <= Word => GetInteger(v) = {i} /\ ToUlong(ToInt(i)) = i
      BY <3>1, FixedFacts
    <3> HIDE DEF i, count
    <3>4. GetInteger(v) = {i} /\ ToUlong(ToInt(i)) = i
      BY <2>4, <3>1, <3>3, WidthAssumption
    <3> QED BY <3>1, <3>2, <3>4
  <2> HIDE DEF Asked, count
  <2> QED BY <2>3, <2>4
<1> QED BY <1>1, PlaneInvHolds, PTL
=============================================================================
