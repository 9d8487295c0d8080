---------------------------- MODULE GetValuesV1 ----------------------------
(***************************************************************************)
(* V1 requests: keys in several namespaces, answered from the cache, one   *)
(* namespace after the other, or routed through the V2 handler: the        *)
(* adapter makes a key group of each namespace, the default UDF calls the  *)
(* getValues hook for each group, and the adapter sorts its outputs into   *)
(* the namespaces of the response.  The cache changes meanwhile.  A string *)
(* of a request is a list of keys, written with a delimiter between them.  *)
(***************************************************************************)
EXTENDS Integers, Sequences, SequencesExt, FiniteSets

CONSTANTS Keys, Values, JsonValues,  \* values that can be parsed as JSON
          Requests, Routes,
          None, MaxUpdates

V1Assumption == JsonValues \subseteq Values /\ None \notin Values

Namespaces == {"kvInternal", "keys", "renderUrls", "adComponentRenderUrls"}

VARIABLES route, request,
          cache, updates,
          seen,      \* values each key has had since the request arrived
          lookup,    \* the hook is initialized
          pc, left,  \* namespaces still to be looked up, in order
          outputs,   \* keyGroupOutputs
          regular,   \* the lookups succeeded and the UDF kept the tags
          response, status

vars == <<route, request, cache, updates, seen, lookup, pc, left, outputs, regular, response, status>>

Empty == [ns \in Namespaces |-> <<>>]

Asked(order) == SelectSeq(order, LAMBDA ns : request[ns] # <<>>)

Init ==
    /\ route \in Routes /\ request \in Requests /\ lookup \in BOOLEAN
    /\ cache \in [Keys -> Values \cup {None}] /\ updates = 0
    /\ seen = [k \in Keys |-> {cache[k]}]
    /\ pc = IF route = "v2" THEN "udf" ELSE "cache"
    /\ left = IF route = "v2" THEN Asked(<<"keys", "renderUrls", "adComponentRenderUrls", "kvInternal">>)
              ELSE Asked(<<"kvInternal", "keys", "renderUrls", "adComponentRenderUrls">>)
    /\ outputs = <<>> /\ regular = lookup /\ response = Empty /\ status = "OK"

\* A mutation of the cache
Mutate ==
    /\ pc # "done" /\ updates < MaxUpdates /\ updates' = updates + 1
    /\ \E k \in Keys, v \in Values \cup {None} :
          cache' = [cache EXCEPT ![k] = v] /\ seen' = [seen EXCEPT ![k] = @ \cup {v}]
    /\ UNCHANGED <<route, request, lookup, pc, left, outputs, regular, response, status>>

\* GetValuesHook::FinishInit
FinishInit ==
    /\ ~lookup /\ lookup' = TRUE
    /\ UNCHANGED <<route, request, cache, updates, seen, pc, left, outputs, regular, response, status>>

\* GetKeyValuePairs: an entry for each key that is found
Found(keys) == [k \in {k \in keys : cache[k] # None} |-> cache[k]]

-----------------------------------------------------------------------------
(* GetValuesHandler without V2 *)

\* Mutant: strings are not split.
Whole(strings) == {s[1] : s \in {s \in ToSet(strings) : Len(s) = 1}}

\* GetKeys
GetKeys(strings) == UNION {ToSet(s) : s \in ToSet(strings)}

\* JsonStringToMessage, else the string itself
Parsed(v) == [kind |-> IF v \in JsonValues THEN "json" ELSE "string", value |-> v]

ProcessKeys ==
    /\ pc = "cache" /\ left # <<>>
    /\ LET found == Found(GetKeys(request[Head(left)]))
       IN response' = [response EXCEPT ![Head(left)] = [k \in DOMAIN found |-> Parsed(found[k])]]
    /\ left' = Tail(left)
    /\ UNCHANGED <<route, request, cache, updates, seen, lookup, pc, outputs, regular, status>>

Return ==
    /\ pc = "cache" /\ left = <<>> /\ pc' = "done"
    /\ UNCHANGED <<route, request, cache, updates, seen, lookup, left, outputs, regular, response, status>>

-----------------------------------------------------------------------------
(* GetValuesAdapter, the default UDF and the hook *)

NextGroup == left' = Tail(left)

\* The hook answers with a code: it is not initialized, or the lookup fails.  The UDF
\* ignores the group.
HookFails ==
    /\ pc = "udf" /\ left # <<>>
    /\ NextGroup /\ regular' = FALSE
    /\ UNCHANGED <<route, request, cache, updates, seen, lookup, pc, outputs, response, status>>

\* Mutant: values that were not asked for.
All(keys) == Found(Keys)

\* The keys of a key group, as they are
Looked(keys) == Found(keys)

\* The hook answers with kvPairs; a UDF other than the default one may return other tags.
HookAnswers ==
    /\ pc = "udf" /\ left # <<>> /\ lookup
    /\ LET ns == Head(left)
           keys == {s[1] : s \in {s \in ToSet(request[ns]) : Len(s) = 1}}
       IN \E tags \in {<<"custom", ns>>, <<"custom", "custom">>, <<ns>>, <<ns, "other">>} :
             /\ outputs' = Append(outputs, [tags |-> tags, kv |-> Looked(keys)])
             /\ regular' = (regular /\ tags = <<"custom", ns>>)
    /\ NextGroup
    /\ UNCHANGED <<route, request, cache, updates, seen, lookup, pc, response, status>>

\* The UDF cannot be called, or its answer is not understood: the partition is left out
\* and the V2 response is null.
UdfFails ==
    /\ pc = "udf" /\ pc' = "done" /\ status' = "INTERNAL" /\ regular' = FALSE
    /\ UNCHANGED <<route, request, cache, updates, seen, lookup, left, outputs, response>>

UdfReturns ==
    /\ pc = "udf" /\ left = <<>> /\ pc' = "build"
    /\ UNCHANGED <<route, request, cache, updates, seen, lookup, left, outputs, regular, response, status>>

\* FindNamespace; the tag beside "custom", which may be "custom" again
FindNamespace(tags) ==
    IF Len(tags) = 2 /\ "custom" \in ToSet(tags)
    THEN (IF ToSet(tags) = {"custom"} THEN "" ELSE CHOOSE t \in ToSet(tags) : t # "custom")
    ELSE ""

\* ProcessKeyValues: a value that is parsed is replaced by the string after all.
Converted(v) == [kind |-> "string", value |-> v]

\* One round of BuildV1Response: ProcessKeyGroupOutput
ProcessKeyGroupOutput ==
    /\ pc = "build" /\ outputs # <<>>
    /\ LET ns == FindNamespace(Head(outputs).tags)
           kv == Head(outputs).kv
       IN response' = IF ns \notin Namespaces THEN response
                      ELSE [response EXCEPT ![ns] =
                              [k \in DOMAIN @ \cup DOMAIN kv |->
                                  IF k \in DOMAIN kv THEN Converted(kv[k]) ELSE @[k]]]
    /\ outputs' = Tail(outputs)
    /\ UNCHANGED <<route, request, cache, updates, seen, lookup, pc, left, regular, status>>

Built ==
    /\ pc = "build" /\ outputs = <<>> /\ pc' = "done"
    /\ UNCHANGED <<route, request, cache, updates, seen, lookup, left, outputs, regular, response, status>>

Next ==
    \/ Mutate \/ FinishInit \/ ProcessKeys \/ Return
    \/ HookFails \/ HookAnswers \/ UdfFails \/ UdfReturns \/ ProcessKeyGroupOutput \/ Built

Spec == Init /\ [][Next]_vars

-----------------------------------------------------------------------------
(* Properties *)

\* The response names keys of the request's namespaces with values of the store,
\* and never more entries than a request has keys.
TypeOK ==
    /\ cache \in [Keys -> Values \cup {None}] /\ updates \in 0 .. MaxUpdates
    /\ pc \in {"cache", "udf", "build", "done"} /\ status \in {"OK", "INTERNAL"}
    /\ DOMAIN response = Namespaces
    /\ \A ns \in Namespaces :
          \A k \in DOMAIN response[ns] : k \in Keys /\ response[ns][k].value \in Values
    /\ Len(left) + Len(outputs) <= 4

\* Every value of the response was the value of its key at some time during the
\* request, and the key was asked for in that namespace.
ValuesWereStored ==
    \A ns \in Namespaces : \A k \in DOMAIN response[ns] :
        /\ response[ns][k].value \in seen[k]
        /\ k \in UNION {ToSet(s) : s \in ToSet(request[ns])}

\* A key that had a value all the time is in the response, if the lookups succeeded,
\* the UDF kept the tags, and the key was in no list on the route through V2; whatever
\* happened to the other keys.
StoredKeysFound ==
    pc = "done" /\ (route = "v1" \/ regular) =>
        \A ns \in Namespaces : \A s \in ToSet(request[ns]) : \A k \in ToSet(s) :
            None \notin seen[k] /\ (route = "v1" \/ Len(s) = 1) => k \in DOMAIN response[ns]

-----------------------------------------------------------------------------
(* What documentation or comments say.  The code does otherwise, see       *)
(* README.md; these are no properties of the model.                        *)

\* "for a list of keys, they can be written as keys=key1,key2" (constants.h): on either
\* route the keys of a list are found.
ListsAreSplit ==
    pc = "done" /\ (route = "v1" \/ regular) =>
        \A ns \in Namespaces : \A k \in UNION {ToSet(s) : s \in ToSet(request[ns])} :
            None \notin seen[k] => k \in DOMAIN response[ns]

\* "If string is not a Json string that can be parsed into Value proto, simply set it as
\* pure string value to the response" (get_values_handler.cc), and else as the value it
\* is parsed into, on either route.
JsonIsParsed ==
    \A ns \in Namespaces : \A k \in DOMAIN response[ns] :
        response[ns][k].kind = Parsed(response[ns][k].value).kind
=============================================================================
