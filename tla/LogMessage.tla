------------------------------ MODULE LogMessage ------------------------------
(* The additional fields of a message: addField() on BaseMsg, the copy that log()  *)
(* extends with its own ExtraFields, and the JSON object logMsgToJSON() makes of    *)
(* it.  All of it runs on the worker.                                             *)
EXTENDS Naturals, Sequences, SequencesExt

CONSTANTS
  Key,       \* names of fields
  Reserved,  \* those the message itself uses: process_id, process, thread_id
  Value,
  Own,       \* what the message itself puts in a reserved field
  Absent,    \* what a JSON object says of a field it does not have
  MaxExtra   \* fields added by one log() call

ASSUME FieldAssumption == Reserved \subseteq Key /\ Own \notin Value /\ Absent \notin Value

Field == [key : Key, value : Value]

VARIABLES
  base,    \* BaseMsg.AdditionalFields
  json,    \* the last JSON object, its fields after the '_'
  latest,  \* history: the value last given to each default field
  extra    \* history: the ExtraFields of the last log()

vars == <<base, json, latest, extra>>

\* Defects: a field is always added; a field that is set again moves to the end.
AddFieldAgain(fields, new) == Append(fields, new)
AddFieldLast(fields, new) ==
  Append(SelectSeq(fields, LAMBDA field : field.key # new.key), new)

\* LogMessage::addField(): the first field of that name is overwritten.
AddField(fields, new) ==
  LET same == {i \in DOMAIN fields : fields[i].key = new.key}
  IN IF same = {} THEN Append(fields, new)
     ELSE [fields EXCEPT ![CHOOSE i \in same : \A j \in same : i <= j] = new]

\* Defect: additional fields never overwrite the message's own.
JsonOwnOnly(fields) == [k \in Reserved |-> Own]

\* logMsgToJSON(): a later assignment to a name overwrites an earlier one.
Json(fields) ==
  FoldLeft(LAMBDA object, field : [object EXCEPT ![field.key] = field.value],
           [k \in Key |-> IF k \in Reserved THEN Own ELSE Absent], fields)

Init ==
  /\ base = << >>
  /\ json = Json(<< >>)
  /\ latest = [k \in Key |-> Absent]
  /\ extra = << >>

AddDefault(new) ==
  /\ base' = AddField(base, new)
  /\ latest' = [latest EXCEPT ![new.key] = new.value]
  /\ UNCHANGED <<json, extra>>

\* Defect: the defaults overwrite what the call itself gives.
LogDefaultsLast(fields) ==
  /\ extra' = fields
  /\ json' = Json(FoldLeft(AddField, fields, base))
  /\ UNCHANGED <<base, latest>>

Log(fields) ==
  /\ extra' = fields
  /\ json' = Json(FoldLeft(AddField, base, fields))
  /\ UNCHANGED <<base, latest>>

Next == \/ \E new \in Field : AddDefault(new)
        \/ \E fields \in SeqOf(Field, MaxExtra) : Log(fields)

Spec == Init /\ [][Next]_vars
-----------------------------------------------------------------------------
(* Properties *)

TypeOK ==
  /\ base \in Seq(Field)
  /\ json \in [Key -> Value \cup {Own, Absent}]
  /\ latest \in [Key -> Value \cup {Absent}]
  /\ extra \in Seq(Field)

\* BaseMsg lists exactly the fields that were ever added, each once and with the
\* value it was given last, however often and in whatever order they are set.
Listed == {base[i].key : i \in DOMAIN base}
BaseIsLatest ==
  /\ \A i, j \in DOMAIN base : base[i].key = base[j].key => i = j
  /\ \A i \in DOMAIN base : base[i].value = latest[base[i].key]
  /\ \A k \in Key : k \in Listed <=> latest[k] # Absent

\* Setting a field again changes its value and nothing else: a field keeps its place.
FieldsKeepTheirPlace ==
  [][/\ Len(base) <= Len(base')
     /\ \A i \in DOMAIN base : base'[i].key = base[i].key]_vars

\* What a JSON object says of a field is, in this order, the last value the log()
\* call itself gave, the default at that time, the message's own value.
GivenBy(k) == {i \in DOMAIN extra : extra[i].key = k}
JsonPrecedence ==
  [][extra' # extra \/ json' # json =>
       \A k \in Key :
         json'[k] = IF GivenBy(k)' # {}
                    THEN extra'[CHOOSE i \in GivenBy(k)' : \A j \in GivenBy(k)' : j <= i].value
                    ELSE IF latest[k] # Absent THEN latest[k]
                    ELSE IF k \in Reserved THEN Own ELSE Absent]_vars
=============================================================================
