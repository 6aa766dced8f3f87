----------------------------- MODULE ConfigPlane -----------------------------
(***************************************************************************)
(* The way of a setting from the web page to the hub: the workers of       *)
(* server.py, the file /etc/brokenhub.conf, the SIGHUP of the init script  *)
(* and the daemon's loading of the file through a shared mapping.          *)
(*                                                                         *)
(* One step is one system call on the file, or one stretch of code between *)
(* two of them.  The parser walks the mapping and not a copy, so what the  *)
(* workers do to the file in the meantime shows; it is cut in two, and a   *)
(* document that changes between the cuts is seen with some members of     *)
(* each, or refused.  The rest of the daemon is in module Hub.             *)
(***************************************************************************)
EXTENDS ConfigLoad, FiniteSets

CONSTANTS
  Workers,   \* requests served at once: one in Flask before 1.0, then many
  Forms,     \* submitted forms: the number each named field spells
  Initial,   \* the documents the file may be installed with: field to value
  ByHand,    \* bound: documents written by hand, where the page is not used
  WebStops   \* whether the web server may be killed in a request

ASSUME PlaneAssumption ==
  /\ Workers # {}
  /\ \A filled \in Forms : \A key \in DOMAIN filled : filled[key] \in Int
  /\ Initial # {} /\ Initial \cup ByHand \subseteq [Fields -> Value]
  /\ WebStops \in BOOLEAN

(* A second is far fewer nanoseconds than 2^64, an int has 32 bits, and a   *)
(* percentage is far from the end of a long.                                *)
ASSUME WidthAssumption ==
  /\ (Two[FloatBits] + 2) * NsPerS < Two[FloatBits] * Word * KiB
  /\ IntMod <= Word /\ 200 < Word

VARIABLES
  wpc,            \* wpc[w]: where worker w is in set_config
  form,           \* form[w]: flask.request.form
  fields,         \* fields[w]: its local of that name
  file,           \* the document at the start of the file, its length and the file's
  dpc,            \* where the daemon is
  reload_config,  \* the flag of the daemon
  config,         \* the config_t of the daemon
  mapped,         \* length of the daemon's mapping of the file
  seen,           \* the members the first half of the parse walked over
  wanted,         \* observer: the numbers last saved through the page
  overlap,        \* observer: a worker had the file open during this load
  torn,           \* observer: a worker was killed with the file open
  raced           \* observer: two requests were in progress at the same time

web == <<wpc, form, fields>>
daemon == <<dpc, reload_config, config, mapped, seen>>
vars == <<web, file, daemon, wanted, overlap, torn, raced>>

(* The length of a dumped document: quotes make a member longer, and so     *)
(* does a second digit.                                                     *)
TextLen(doc) == 1 + Cardinality({key \in DOMAIN doc : doc[key].type = "string"})
                  + Cardinality({key \in DOMAIN doc : doc[key].num > 9})

Contents(doc) == [doc |-> doc, len |-> TextLen(doc), size |-> TextLen(doc)]
Empty == [doc |-> <<>>, len |-> 0, size |-> 0]

(* json.load takes a document with nothing behind it. *)
JsonLoads(f) == f.len > 0 /\ f.size = f.len

(* Mutant: the fields the form does not name are reset.                     *)
MergeReset(doc, filled) ==
  [key \in DOMAIN doc |-> IF key \in DOMAIN filled
                          THEN [type |-> "string", num |-> filled[key]]
                          ELSE [type |-> "fixed_number", num |-> 0]]

(* fields[key] = value for each of the form; what a form holds is text.     *)
Merge(doc, filled) ==
  [key \in DOMAIN doc |-> IF key \in DOMAIN filled
                          THEN [type |-> "string", num |-> filled[key]]
                          ELSE doc[key]]

(* Mutant: open(..., "r+b") keeps the contents.                             *)
TruncateNot(f) == f

(* open(..., "wb") *)
Truncate(f) == Empty

(* Mutant: json.dumps, which returns the text and writes nothing.           *)
DumpedNothing(f, doc) == f

(* The dump is one write at offset 0 when the file is closed: what another  *)
(* worker wrote beyond its end stays.                                       *)
Dumped(f, doc) == [doc |-> doc, len |-> TextLen(doc),
                   size |-> IF TextLen(doc) > f.size THEN TextLen(doc) ELSE f.size]

(* Members before any point of the text from one document, the others from  *)
(* the other.                                                               *)
Mixes(old, new) ==
  {[key \in Fields |-> IF key \in first THEN old[key] ELSE new[key]] :
     first \in SUBSET Fields}

(* Mutant: the mapping leaves out the last byte.                            *)
MappedLengthShort(f) == f.size - 1

(* st_size, the length that is mapped and parsed.                           *)
MappedLength(f) == f.size

(* The parser walks over f.len bytes and ignores what is behind.            *)
InMapping(f) == f.len <= mapped

Results(doc) == LoadResults([parses |-> TRUE, fields |-> doc])

TypeOK ==
  /\ wpc \in [Workers -> {"idle", "read", "open", "saved"}]
  /\ form \in [Workers -> Forms \cup {<<>>}]
  /\ fields \in [Workers -> {<<>>} \cup [Fields -> Value]]
  /\ file = Empty \/ (/\ file.doc \in [Fields -> Value]
                      /\ file.len = TextLen(file.doc)
                      /\ file.size \in Nat /\ file.size >= file.len)
  /\ dpc \in {"down", "starting", "loop", "mapped", "parsing", "loaded"}
  /\ reload_config \in BOOLEAN
  /\ config \in config_t
  /\ mapped \in Nat
  /\ seen = <<>> \/ seen \in [Fields -> Value]
  /\ overlap \in BOOLEAN /\ torn \in BOOLEAN /\ raced \in BOOLEAN

-----------------------------------------------------------------------------
Init ==
  /\ wpc = [w \in Workers |-> "idle"]
  /\ form = [w \in Workers |-> <<>>]
  /\ fields = [w \in Workers |-> <<>>]
  /\ file \in {Contents(doc) : doc \in Initial \cup ByHand}
  /\ dpc = "down"
  /\ reload_config = FALSE
  /\ config = ZeroConfig
  /\ mapped = 0
  /\ seen = <<>>
  /\ wanted = [key \in Fields |-> file.doc[key].num]
  /\ overlap = FALSE
  /\ torn = FALSE
  /\ raced = FALSE

(* set_config up to the open: the file is read and the form merged into it. *)
(* A file json.load refuses, or a field that is not one of the five, ends   *)
(* the request with an error and changes nothing.  A GET has an empty form. *)
ReadAndMerge(w) ==
  /\ wpc[w] = "idle"
  /\ JsonLoads(file) /\ file.doc \notin ByHand
  /\ \E filled \in Forms :
       /\ DOMAIN filled \subseteq Fields
       /\ form' = [form EXCEPT ![w] = filled]
       /\ fields' = [fields EXCEPT ![w] = Merge(file.doc, filled)]
  /\ wpc' = [wpc EXCEPT ![w] = "read"]
  /\ raced' = (raced \/ \E v \in Workers : wpc[v] # "idle")
  /\ UNCHANGED <<file, daemon, wanted, overlap, torn>>

(* The file is open, and empty. *)
OpenFile(w) ==
  /\ wpc[w] = "read"
  /\ wpc' = [wpc EXCEPT ![w] = "open"]
  /\ file' = Truncate(file)
  /\ overlap' = TRUE
  /\ UNCHANGED <<form, fields, daemon, wanted, torn, raced>>

(* json.dump and the close at the end of the with. *)
Dump(w) ==
  /\ wpc[w] = "open"
  /\ wpc' = [wpc EXCEPT ![w] = "saved"]
  /\ file' = Dumped(file, fields[w])
  /\ wanted' = [key \in Fields |-> IF key \in DOMAIN form[w]
                                    THEN form[w][key] ELSE wanted[key]]
  /\ overlap' = TRUE
  /\ UNCHANGED <<form, fields, daemon, torn, raced>>

(* subprocess is not imported: a NameError ends the request, and the init   *)
(* script is not called.                                                    *)
CallInitScript(w) ==
  /\ wpc[w] = "saved"
  /\ wpc' = [wpc EXCEPT ![w] = "idle"]
  /\ form' = [form EXCEPT ![w] = <<>>]
  /\ fields' = [fields EXCEPT ![w] = <<>>]
  /\ UNCHANGED <<file, daemon, wanted, overlap, torn, raced>>

(* The web server is killed and started again. *)
WebRestarts ==
  /\ WebStops
  /\ \E w \in Workers : wpc[w] # "idle"
  /\ torn' = (torn \/ \E w \in Workers : wpc[w] = "open")
  /\ wpc' = [w \in Workers |-> "idle"]
  /\ form' = [w \in Workers |-> <<>>]
  /\ fields' = [w \in Workers |-> <<>>]
  /\ UNCHANGED <<file, daemon, wanted, overlap, raced>>

Web == \/ \E w \in Workers : \/ ReadAndMerge(w) \/ OpenFile(w)
                             \/ Dump(w) \/ CallInitScript(w)
       \/ WebRestarts

-----------------------------------------------------------------------------
(* The init script: start, stop, and reload, which is a SIGHUP.  The daemon *)
(* has no handler for it before its loop.                                   *)
Start ==
  /\ dpc = "down"
  /\ dpc' = "starting"
  /\ reload_config' = TRUE
  /\ config' = ZeroConfig
  /\ mapped' = 0 /\ seen' = <<>>
  /\ UNCHANGED <<web, file, wanted, overlap, torn, raced>>

Stop ==
  /\ dpc # "down"
  /\ dpc' = "down"
  /\ UNCHANGED <<web, file, reload_config, config, mapped, seen, wanted, overlap, torn, raced>>

Reload ==
  /\ dpc # "down"
  /\ IF dpc = "starting" THEN dpc' = "down" /\ UNCHANGED reload_config
                         ELSE reload_config' = TRUE /\ UNCHANGED dpc
  /\ UNCHANGED <<web, file, config, mapped, seen, wanted, overlap, torn, raced>>

(* main up to its loop. *)
EnterLoop ==
  /\ dpc = "starting"
  /\ dpc' = "loop"
  /\ UNCHANGED <<web, file, reload_config, config, mapped, seen, wanted, overlap, torn, raced>>

(* mapfile: the mmap of an empty file fails, with a result that is not 0;   *)
(* nothing is parsed, and load_config aborts.                               *)
MapFile ==
  /\ dpc = "loop" /\ reload_config
  /\ dpc' = IF MappedLength(file) = 0 THEN "down" ELSE "mapped"
  /\ mapped' = MappedLength(file)
  /\ overlap' = \E w \in Workers : wpc[w] = "open"
  /\ UNCHANGED <<web, file, reload_config, config, seen, wanted, torn, raced>>

(* The first half of the walk.  Behind the end of a file that was truncated *)
(* to nothing there is no page: SIGBUS.                                     *)
ParseFirst ==
  /\ dpc = "mapped"
  /\ dpc' = IF file = Empty \/ ~InMapping(file) THEN "down" ELSE "parsing"
  /\ seen' = file.doc
  /\ UNCHANGED <<web, file, reload_config, config, mapped, wanted, overlap, torn, raced>>

(* The second half, and load_config's conversions.                          *)
ParseRest ==
  /\ dpc = "parsing"
  /\ \/ /\ file # Empty /\ InMapping(file)
        /\ \E doc \in Mixes(seen, file.doc) : config' \in Results(doc)
        /\ dpc' = "loaded"
     \/ /\ file.doc # seen \/ ~InMapping(file) \/ Results(file.doc) = {}
        /\ dpc' = "down"
        /\ UNCHANGED config
  /\ seen' = <<>>
  /\ UNCHANGED <<web, file, reload_config, mapped, wanted, overlap, torn, raced>>

ClearFlag ==
  /\ dpc = "loaded"
  /\ dpc' = "loop"
  /\ reload_config' = FALSE
  /\ UNCHANGED <<web, file, config, mapped, seen, wanted, overlap, torn, raced>>

Daemon == EnterLoop \/ MapFile \/ ParseFirst \/ ParseRest \/ ClearFlag

Next == Web \/ Start \/ Stop \/ Reload \/ Daemon
Spec == Init /\ [][Next]_vars

-----------------------------------------------------------------------------
(* No request is in progress, and none was ever disturbed.                  *)
Undisturbed == (\A w \in Workers : wpc[w] = "idle") /\ ~raced /\ ~torn

(* The page can be used: after any number of requests, one after the other, *)
(* the file is a document json.load takes, however the lengths of           *)
(* successive documents differ.  (Two requests at once, or one killed with  *)
(* the file open, may leave one it refuses for good.)                       *)
PageUsable == Undisturbed => JsonLoads(file)

(* No saved setting is lost: the file says what was last saved for every    *)
(* field, whichever form named it, and the fields no form has named are as  *)
(* they were installed.                                                     *)
UpdateKept ==
  Undisturbed =>
    DOMAIN file.doc = Fields /\ \A key \in Fields : file.doc[key].num = wanted[key]

(* The daemon can be started again whatever the workers did to the file     *)
(* between them: once none has it open it loads, although json.load may     *)
(* refuse what is left behind a shorter document.                           *)
DaemonCanLoad ==
  ~torn /\ (\A w \in Workers : wpc[w] # "open") =>
    file # Empty /\ Results(file.doc) # {}

(* A load kills the daemon only if the file was open for writing during it, *)
(* or was left torn by a killed web server.                                 *)
DiesOnlyOnOverlap ==
  [][(MapFile \/ ParseFirst \/ ParseRest) /\ dpc' = "down" => torn \/ overlap']_vars

(* What the daemon makes of a file it has loaded undisturbed, whoever wrote *)
(* it.                                                                      *)
LoadedAlone == dpc = "loaded" /\ ~overlap
Given(key) ==
  IF file.doc[key].type \in NumericTypes THEN file.doc[key].num ELSE 0
Ulps == Two[FloatBits]

(* A percentage from 0 up to but not including 100 becomes that share of    *)
(* the values of rand, to within one value and what a float makes of it: it *)
(* goes through three roundings, and is off by less than two parts in       *)
(* 2^FloatBits.  One so near to 100 that it may be rounded to it is out.    *)
ShareHonoured ==
  LoadedAlone =>
    LET p == Given("drop_percent")
    IN  p >= 0 /\ (Ulps + 2) * p < Ulps * 100 * Den =>
          /\ Ulps * config.drop * 100 * Den <= (Ulps + 2) * p * Word
          /\ (Ulps - 2) * p * Word < Ulps * (config.drop + 1) * 100 * Den

(* A bandwidth of one KiB/s or more that fits a long becomes the time of    *)
(* one byte at that rate, to within one nanosecond and the two parts in     *)
(* 2^FloatBits of a float.                                                  *)
RateHonoured ==
  LoadedAlone =>
    LET kps == Given("bandwidth")
    IN  kps >= Den /\ kps <= LongMax * Den =>
          /\ Ulps * config.bandwidth * kps * KiB <= (Ulps + 2) * NsPerS * Den
          /\ (Ulps - 2) * NsPerS * Den < Ulps * (config.bandwidth + 1) * kps * KiB

(* A count that is not negative and has no point is stored as it was asked  *)
(* for: a length up to the end of a long, and as that end beyond it, the    *)
(* number of bytes to corrupt as long as it fits the int it goes through.   *)
CountsHonoured ==
  LoadedAlone =>
    LET count(key) == Given(key) \div Den
        Asked(key) == file.doc[key].type = "fixed_number" /\ count(key) >= 0
    IN  /\ Asked("truncate_len") =>
             IF count("truncate_len") > LongMax THEN config.truncate_len = LongMax
             ELSE config.truncate_len = count("truncate_len")
        /\ Asked("corrupt_packet_bytes") /\ count("corrupt_packet_bytes") < IntMod \div 2 =>
             config.corrupt_bytes = count("corrupt_packet_bytes")

(* The page sets "Drop ... % of packets": a daemon that has loaded the file *)
(* since it was saved drops the share it makes of that number.              *)
FormTakesEffect ==
  dpc = "loaded" /\ ~overlap =>
    config.drop \in Percent([type |-> "number", num |-> wanted["drop_percent"]])
=============================================================================
