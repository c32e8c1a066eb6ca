--------------------------- MODULE SchemaRegistry ---------------------------
(***************************************************************************)
(* The schema registry (src/src/schema.rs) for one entity type: what       *)
(* register accepts, what validate lets through at publish time, and what  *)
(* persist leaves in the table strunk_schemas.  Each process has a         *)
(* registry of its own, in memory; nothing reads the table back.           *)
(***************************************************************************)
EXTENDS Integers, Sequences, FiniteSets

CONSTANTS
    Process,
    Version,      \* version strings, as the sequence of their parts between dots
    Field,        \* property names
    Type,         \* declared types
    Kind,         \* what json_type_name says of a value
    MaxRegisters, \* bound: calls of register
    MaxEvents,    \* bound: events published
    MaxFaults     \* bound: restarts and failing statements

NotANumber == -1   \* a part that does not parse as u64

Numbers(v) == SelectSeq(v, LAMBDA part : part # NotANumber)

ASSUME SchemaAssumption ==
    /\ \A v \in Version : Numbers(v) \in Seq(Nat)
    /\ "any" \in Type /\ "null" \in Kind
    /\ {MaxRegisters, MaxEvents, MaxFaults} \subseteq Nat

VARIABLES
    registry,   \* registry[p]: the registered versions and their schemas
    todo,       \* todo[p]: versions a persist under way has not written yet
    saving,     \* saving[p]: "no", "under way", or "done" since the last register
    table,      \* the rows of strunk_schemas
    ordered,    \* history: p has registered each version above all before it
    published,  \* history: published[p], versions and states p has published
    registers, faults  \* history

regVars == <<registry, ordered, published>>
saveVars == <<todo, saving, table>>
vars == <<regVars, saveVars, registers, faults>>

FieldDef == [type : Type, required : BOOLEAN]

\* Functions whose domain is the set of declared, or present, names.
Schema == UNION {[F -> FieldDef] : F \in SUBSET Field}
Payload == UNION {[F -> Kind] : F \in SUBSET Field}

OnVersions(map) == DOMAIN map \subseteq Version /\ \A v \in DOMAIN map : map[v] \in Schema

TypeOK ==
    /\ DOMAIN registry = Process /\ DOMAIN todo = Process
    /\ \A p \in Process : OnVersions(registry[p]) /\ todo[p] \subseteq DOMAIN registry[p]
    /\ saving \in [Process -> {"no", "under way", "done"}]
    /\ OnVersions(table)
    /\ ordered \in [Process -> BOOLEAN]
    /\ published \in [Process -> SUBSET (Version \X Payload)]
    /\ registers \in Nat /\ faults \in Nat

Nothing == [v \in {} |-> [f \in {} |-> {}]]

Init ==
    /\ registry = [p \in Process |-> Nothing]
    /\ todo = [p \in Process |-> {}]
    /\ saving = [p \in Process |-> "no"]
    /\ table = Nothing
    /\ ordered = [p \in Process |-> TRUE]
    /\ published = [p \in Process |-> {}]
    /\ registers = 0 /\ faults = 0

----------------------------------------------------------------------------
(* Versions *)

\* Lexicographic, as Vec<u64> compares.
Less(a, b) ==
    \/ \E i \in DOMAIN a \intersect DOMAIN b :
          a[i] < b[i] /\ \A j \in 1..(i - 1) : a[j] = b[j]
    \/ Len(a) < Len(b) /\ \A i \in DOMAIN a : a[i] = b[i]

\* v is an earlier version than w: what those who number versions mean.
Precedes(v, w) == Less(Numbers(v), Numbers(w))

\* (A mistake: parts compared as text, where "10" comes before "9".)
TextLess(v, w) ==
    LET text(n) == IF n < 10 THEN <<n>> ELSE <<n \div 10, n % 10>>
        a == [i \in DOMAIN Numbers(v) |-> text(Numbers(v)[i])]
        b == [i \in DOMAIN Numbers(w) |-> text(Numbers(w)[i])]
    IN  \/ \E i \in DOMAIN a \intersect DOMAIN b :
              Less(a[i], b[i]) /\ \A j \in 1..(i - 1) : a[j] = b[j]
        \/ Len(a) < Len(b) /\ \A i \in DOMAIN a : a[i] = b[i]

\* version_cmp: parts that are not numbers do not count, so versions may tie.
VersionLess(v, w) == Precedes(v, w)

\* max_by over the keys of a HashMap: any of those nothing exceeds.
Latest(S) == {v \in S : \A w \in S : ~VersionLess(v, w)}

----------------------------------------------------------------------------
(* Schemas *)

\* (A mistake: the types are not compared.)
CompatiblePresence(old, new) ==
    /\ \A f \in DOMAIN old : old[f].required => f \in DOMAIN new
    /\ \A f \in DOMAIN new : new[f].required => f \in DOMAIN old

CheckBackwardCompatible(old, new) ==
    /\ \A f \in DOMAIN old \ DOMAIN new : ~old[f].required
    /\ \A f \in DOMAIN old \intersect DOMAIN new : old[f].type = new[f].type
    /\ \A f \in DOMAIN new \ DOMAIN old : ~new[f].required

\* validate: unknown fields pass, and null passes for every type.
Accepts(schema, payload) ==
    \A f \in DOMAIN schema :
        /\ schema[f].required => f \in DOMAIN payload
        /\ f \in DOMAIN payload => payload[f] \in {"null", schema[f].type}
                                   \/ schema[f].type = "any"

----------------------------------------------------------------------------
(* Calls *)

Extend(map, v, s) == [w \in DOMAIN map \union {v} |-> IF w = v THEN s ELSE map[w]]

\* The new schema is compared with the latest version only, and a version
\* registered before is overwritten.
Accepted(p, s) ==
    \/ DOMAIN registry[p] = {}
    \/ \E v \in Latest(DOMAIN registry[p]) : CheckBackwardCompatible(registry[p][v], s)

Register(p, v, s) ==
    /\ saving[p] # "under way"   \* register borrows the registry alone
    /\ registers < MaxRegisters
    /\ registers' = registers + 1
    /\ Accepted(p, s)
    /\ registry' = [registry EXCEPT ![p] = Extend(registry[p], v, s)]
    /\ ordered' = [ordered EXCEPT ![p] =
                      ordered[p] /\ \A w \in DOMAIN registry[p] : Precedes(w, v)]
    /\ saving' = [saving EXCEPT ![p] = "no"]
    /\ UNCHANGED <<todo, table, published, faults>>

\* (A mistake: the latest schema is consulted, not the one of the event.)
PublishLatest(p, v, payload) ==
    /\ Cardinality(UNION {{q} \X published[q] : q \in Process}) < MaxEvents
    /\ v \in DOMAIN registry[p]
    /\ \E w \in Latest(DOMAIN registry[p]) : Accepts(registry[p][w], payload)
    /\ published' = [published EXCEPT ![p] = published[p] \union {<<v, payload>>}]
    /\ UNCHANGED <<registry, ordered, saveVars, registers, faults>>

\* The check of EventPublish::publish; the event itself is EventLog's.
Publish(p, v, payload) ==
    /\ Cardinality(UNION {{q} \X published[q] : q \in Process}) < MaxEvents
    /\ v \in DOMAIN registry[p]
    /\ Accepts(registry[p][v], payload)
    /\ published' = [published EXCEPT ![p] = published[p] \union {<<v, payload>>}]
    /\ UNCHANGED <<registry, ordered, saveVars, registers, faults>>

Persist(p) ==
    /\ saving[p] # "under way"
    /\ todo' = [todo EXCEPT ![p] = DOMAIN registry[p]]
    /\ saving' = [saving EXCEPT ![p] = "under way"]
    /\ UNCHANGED <<regVars, table, registers, faults>>

\* One INSERT ... ON CONFLICT DO NOTHING per version, in any order.
PersistOne(p, v) ==
    /\ v \in todo[p]
    /\ table' = IF v \in DOMAIN table THEN table ELSE Extend(table, v, registry[p][v])
    /\ todo' = [todo EXCEPT ![p] = todo[p] \ {v}]
    /\ UNCHANGED <<regVars, saving, registers, faults>>

PersistDone(p) ==
    /\ saving[p] = "under way" /\ todo[p] = {}
    /\ saving' = [saving EXCEPT ![p] = "done"]
    /\ UNCHANGED <<regVars, todo, table, registers, faults>>

\* (A mistake: the error of one version is not returned.)
PersistErrorGoesOn(p) ==
    /\ saving[p] = "under way"
    /\ faults < MaxFaults /\ faults' = faults + 1
    /\ \E v \in todo[p] : todo' = [todo EXCEPT ![p] = todo[p] \ {v}]
    /\ UNCHANGED <<regVars, saving, table, registers>>

PersistError(p) ==
    /\ saving[p] = "under way" /\ todo[p] # {}
    /\ faults < MaxFaults /\ faults' = faults + 1
    /\ \/ UNCHANGED table
       \/ \E v \in todo[p] \ DOMAIN table : table' = Extend(table, v, registry[p][v])
    /\ saving' = [saving EXCEPT ![p] = "no"]
    /\ todo' = [todo EXCEPT ![p] = {}]
    /\ UNCHANGED <<regVars, registers>>

\* (A mistake: what was under way is not reset.)
RestartKeepsTodo(p) ==
    /\ faults < MaxFaults /\ faults' = faults + 1
    /\ registry' = [registry EXCEPT ![p] = Nothing]
    /\ ordered' = [ordered EXCEPT ![p] = TRUE]
    /\ published' = [published EXCEPT ![p] = {}]
    /\ UNCHANGED <<saveVars, registers>>

\* The registry is gone with its process.
Restart(p) ==
    /\ faults < MaxFaults /\ faults' = faults + 1
    /\ registry' = [registry EXCEPT ![p] = Nothing]
    /\ ordered' = [ordered EXCEPT ![p] = TRUE]
    /\ published' = [published EXCEPT ![p] = {}]
    /\ saving' = [saving EXCEPT ![p] = "no"]
    /\ todo' = [todo EXCEPT ![p] = {}]
    /\ UNCHANGED <<table, registers>>

Next ==
    \E p \in Process :
        \/ \E v \in Version, s \in Schema : Register(p, v, s)
        \/ \E v \in Version, payload \in Payload : Publish(p, v, payload)
        \/ \E v \in Version : PersistOne(p, v)
        \/ Persist(p) \/ PersistDone(p) \/ PersistError(p) \/ Restart(p)

Spec == Init /\ [][Next]_vars

----------------------------------------------------------------------------
(* What the registry promises *)

Adjacent(S, v, w) ==
    /\ {v, w} \subseteq S /\ Precedes(v, w)
    /\ ~\E u \in S : Precedes(v, u) /\ Precedes(u, w)

\* The ways out of compatibility that the check leaves open.
Tightens(old, new) ==
    \E f \in DOMAIN old \intersect DOMAIN new : ~old[f].required /\ new[f].required

Drops(old, new) == ~(DOMAIN old \subseteq DOMAIN new)

OnlyWidens(map) ==
    \A v, w \in DOMAIN map : Adjacent(DOMAIN map, v, w) =>
        ~Tightens(map[v], map[w]) /\ ~Drops(map[v], map[w])

\* Whoever writes only the fields of the old schema is understood by the new.
Reads(old, new) ==
    \A payload \in Payload :
        DOMAIN payload \subseteq DOMAIN old /\ Accepts(old, payload)
            => Accepts(new, payload)

\* Versions registered in ascending order form a chain: each reads what was
\* written under the one before, if no optional field became required.
StepsCompatible ==
    \A p \in Process : ordered[p] =>
        \A v, w \in DOMAIN registry[p] :
            LET old == registry[p][v]
                new == registry[p][w]
            IN  Adjacent(DOMAIN registry[p], v, w) /\ ~Tightens(old, new)
                    => Reads(old, new)

\* An event that passed validate stays valid under every later version of its
\* publisher, over any number of steps that neither tighten nor drop a field.
EventsStayReadable ==
    \A p \in Process : ordered[p] /\ OnlyWidens(registry[p]) =>
        \A event \in published[p], w \in DOMAIN registry[p] :
            LET v == event[1]
                payload == event[2]
            IN  /\ DOMAIN payload \subseteq DOMAIN registry[p][v]
                /\ v = w \/ Precedes(v, w)
                => Accepts(registry[p][w], payload)

\* Once persist has returned Ok, each version of the registry has a row,
\* whatever other processes write meanwhile and whatever failed before.
PersistTruthful ==
    \A p \in Process : saving[p] = "done" => DOMAIN registry[p] \subseteq DOMAIN table

\* README: "Backward compatibility enforced automatically."
BackwardCompatible ==
    \A p \in Process : ordered[p] =>
        \A v, w \in DOMAIN registry[p] :
            Adjacent(DOMAIN registry[p], v, w) => Reads(registry[p][v], registry[p][w])

=============================================================================
