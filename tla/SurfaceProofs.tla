---------------------------- MODULE SurfaceProofs ----------------------------
(* Proofs about Surface, for every set of requests and paths: the routing of *)
(* each verb and path, the statuses answered, what an answer names, and that *)
(* requests do to the configuration what EngineConfig says.                  *)
EXTENDS Surface, EngineConfigProofs

-----------------------------------------------------------------------------
(* The routing table, and the first route that matches.                      *)

LEMMA RoutesLen == Len(Routes) = 11
BY DEF Routes, AdminRoutes, ConsumerRoutes, ReservedRoutes, CatchAll

LEMMA RouteAt ==
    /\ Routes[1] = AdminRoutes[1]
    /\ Routes[2] = AdminRoutes[2]
    /\ Routes[3] = AdminRoutes[3]
    /\ Routes[4] = ConsumerRoutes[1]
    /\ Routes[5] = ConsumerRoutes[2]
    /\ Routes[6] = ReservedRoutes[1]
    /\ Routes[7] = ReservedRoutes[2]
    /\ Routes[8] = ReservedRoutes[3]
    /\ Routes[9] = ReservedRoutes[4]
    /\ Routes[10] = ReservedRoutes[5]
    /\ Routes[11] = CatchAll[1]
BY DEF Routes, AdminRoutes, ConsumerRoutes, ReservedRoutes, CatchAll

LEMMA CatchesAll == ASSUME NEW path \in Seq(STRING), path # <<>>
  PROVE Matches(Routes[11], path)
BY RouteAt DEF Matches, CatchAll, Under, IsStrictPrefix, IsPrefix

LEMMA First ==
    ASSUME NEW S \in SUBSET (1..11), 11 \in S
    PROVE  Min(S) \in S /\ \A m \in S : Min(S) =< m
<1>1. \E n \in S : \A m \in S : n =< m
    OBVIOUS
<1> QED BY <1>1 DEF Min

LEMMA FirstMatch ==
    ASSUME NEW path \in Seq(STRING), path # <<>>, NEW op
    PROVE  \E i \in 1..11 :
              /\ Matches(Routes[i], path)
              /\ \A j \in 1..11 : j < i => ~Matches(Routes[j], path)
              /\ Handler(op, path) =
                     IF op \in DOMAIN Routes[i].ops THEN Routes[i].ops[op] ELSE "unsupported"
<1> DEFINE S == {i \in 1..Len(Routes) : Matches(Routes[i], path)}
<1>1. S \in SUBSET (1..11) /\ 11 \in S BY RoutesLen, CatchesAll
<1>2. Min(S) \in S /\ \A m \in S : Min(S) =< m BY <1>1, First
<1>3. Handler(op, path) = IF op \in DOMAIN Routes[Min(S)].ops THEN Routes[Min(S)].ops[op]
                                                           ELSE "unsupported"
    BY DEF Handler
<1>4. \A j \in 1..11 : j < Min(S) => ~Matches(Routes[j], path)
    <2> SUFFICES ASSUME NEW j \in 1..11, j < Min(S), Matches(Routes[j], path) PROVE FALSE
        OBVIOUS
    <2>1. j \in S BY RoutesLen
    <2> QED BY <2>1, <1>1, <1>2
<1>5. Min(S) \in 1..11 /\ Matches(Routes[Min(S)], path) BY <1>1, <1>2
<1> HIDE DEF S
<1> QED BY <1>3, <1>4, <1>5

-----------------------------------------------------------------------------
(* What it takes for each route to match.                                  *)

LEMMA Matched ==
    ASSUME NEW path \in Seq(STRING)
    PROVE  /\ Matches(Routes[1], path) <=> path = <<"admin", "config">>
           /\ Matches(Routes[2], path) =>
                  Len(path) > 2 /\ path[1] = "admin" /\ path[2] = "map"
           /\ Matches(Routes[3], path) <=> path = <<"admin", "status">>
           /\ Matches(Routes[4], path) => Len(path) > 1 /\ path[1] = "data"
           /\ Matches(Routes[5], path) => Len(path) > 1 /\ path[1] = "metadata"
           /\ Matches(Routes[6], path) <=> path = <<"config">>
           /\ Matches(Routes[7], path) => Len(path) > 1 /\ path[1] = "delete"
           /\ Matches(Routes[8], path) => Len(path) > 1 /\ path[1] = "undelete"
           /\ Matches(Routes[9], path) => Len(path) > 1 /\ path[1] = "destroy"
           /\ Matches(Routes[10], path) => Len(path) > 1 /\ path[1] = "detailed-metadata"
<1>1. ASSUME NEW a, NEW ops, Matches(Under(<<a>>, ops), path)
      PROVE  Len(path) > 1 /\ path[1] = a
    <2>1. IsPrefix(<<a>>, path) /\ <<a>> # path BY <1>1 DEF Matches, Under, IsStrictPrefix
    <2>2. Len(path) >= 1 /\ path[1] = a BY <2>1 DEF IsPrefix
    <2>3. Len(path) # 1 BY <2>1, <2>2
    <2> QED BY <2>2, <2>3
<1>2. ASSUME NEW a, NEW b, NEW ops, Matches(Under(<<a, b>>, ops), path)
      PROVE  Len(path) > 2 /\ path[1] = a /\ path[2] = b
    <2>1. IsPrefix(<<a, b>>, path) /\ <<a, b>> # path BY <1>2 DEF Matches, Under, IsStrictPrefix
    <2>2. Len(path) >= 2 /\ path[1] = a /\ path[2] = b BY <2>1 DEF IsPrefix
    <2>3. Len(path) # 2
        <3> SUFFICES ASSUME Len(path) = 2 PROVE FALSE OBVIOUS
        <3>1. path = <<a, b>> BY <2>2
        <3> QED BY <3>1, <2>1
    <2>4. Len(path) \in Nat OBVIOUS
    <2>5. Len(path) >= 2 BY <2>2
    <2>6. \A n \in Nat : n >= 2 /\ n # 2 => n > 2 OBVIOUS
    <2>7. Len(path) > 2 BY <2>3, <2>4, <2>5, <2>6
    <2> QED BY <2>2, <2>7
<1>3. ASSUME NEW l, NEW ops PROVE Matches(Exactly(l, ops), path) <=> path = l
    BY DEF Matches, Exactly
<1>4. Matches(Routes[1], path) <=> path = <<"admin", "config">>
    BY <1>3, RouteAt, Zenon DEF AdminRoutes
<1>5. Matches(Routes[3], path) <=> path = <<"admin", "status">>
    BY <1>3, RouteAt DEF AdminRoutes
<1>6. Matches(Routes[6], path) <=> path = <<"config">>
    BY <1>3, RouteAt DEF ReservedRoutes
<1>7. Matches(Routes[2], path) => Len(path) > 2 /\ path[1] = "admin" /\ path[2] = "map"
    BY <1>2, RouteAt DEF AdminRoutes
<1>8. /\ Matches(Routes[4], path) => Len(path) > 1 /\ path[1] = "data"
      /\ Matches(Routes[5], path) => Len(path) > 1 /\ path[1] = "metadata"
    BY <1>1, RouteAt DEF ConsumerRoutes
<1>9. /\ Matches(Routes[7], path) => Len(path) > 1 /\ path[1] = "delete"
      /\ Matches(Routes[8], path) => Len(path) > 1 /\ path[1] = "undelete"
      /\ Matches(Routes[9], path) => Len(path) > 1 /\ path[1] = "destroy"
      /\ Matches(Routes[10], path) => Len(path) > 1 /\ path[1] = "detailed-metadata"
    BY <1>1, RouteAt DEF ReservedRoutes
<1> QED BY <1>4, <1>5, <1>6, <1>7, <1>8, <1>9

\* No path has two routes, the catch-all aside.
LEMMA Disjoint ==
    ASSUME NEW path \in Seq(STRING), NEW i \in 1..10, NEW j \in 1..10,
           Matches(Routes[i], path), Matches(Routes[j], path), j < i
    PROVE  FALSE
<1>1. CASE i \in {1, 2, 3} \/ j \in {1, 2, 3}
    <2>1. path = <<"admin", "config">> => path[1] = "admin" /\ path[2] = "config" /\ Len(path) = 2
        OBVIOUS
    <2>2. path = <<"admin", "status">> => path[1] = "admin" /\ path[2] = "status" /\ Len(path) = 2
        OBVIOUS
    <2>3. path = <<"config">> => Len(path) = 1 OBVIOUS
    <2> QED BY <1>1, <2>1, <2>2, <2>3, Matched
<1>2. CASE i \in 4..10 /\ j \in 4..10
    <2>1. path = <<"config">> => Len(path) = 1 OBVIOUS
    <2> QED BY <1>2, <2>1, Matched
<1> QED BY <1>1, <1>2

LEMMA Chosen ==
    ASSUME NEW path \in Seq(STRING), path # <<>>, NEW op,
           NEW i \in 1..10, Matches(Routes[i], path)
    PROVE  Handler(op, path) =
               IF op \in DOMAIN Routes[i].ops THEN Routes[i].ops[op] ELSE "unsupported"
<1>1. PICK k \in 1..11 :
          /\ Matches(Routes[k], path)
          /\ \A j \in 1..11 : j < k => ~Matches(Routes[j], path)
          /\ Handler(op, path) =
                 IF op \in DOMAIN Routes[k].ops THEN Routes[k].ops[op] ELSE "unsupported"
    BY FirstMatch
<1>2. k =< i BY <1>1
<1>3. ~(k < i)
    <2> SUFFICES ASSUME k < i PROVE FALSE OBVIOUS
    <2>1. k \in 1..10 BY <1>2
    <2> QED BY <2>1, <1>1, Disjoint
<1>4. k = i BY <1>2, <1>3
<1> QED BY <1>1, <1>4

LEMMA Unknown ==
    ASSUME NEW path \in Seq(STRING), path # <<>>, NEW op \in Ops,
           \A i \in 1..10 : ~Matches(Routes[i], path)
    PROVE  Handler(op, path) = "404"
<1>1. PICK k \in 1..11 :
          /\ Matches(Routes[k], path)
          /\ Handler(op, path) =
                 IF op \in DOMAIN Routes[k].ops THEN Routes[k].ops[op] ELSE "unsupported"
    BY FirstMatch
<1>2. k = 11 BY <1>1
<1>3. Routes[11].ops = [o \in Ops |-> "404"] BY RouteAt DEF CatchAll, Under, Always
<1> QED BY <1>1, <1>2, <1>3

-----------------------------------------------------------------------------
(* The handler each route hands a verb to.                                 *)

LEMMA Handled ==
    ASSUME NEW path \in Seq(STRING), path # <<>>, NEW op \in Ops
    PROVE  /\ Matches(Routes[1], path) =>
                  Handler(op, path) = IF op = "read" THEN "configRead"
                                      ELSE IF op = "update" THEN "configWrite" ELSE "unsupported"
           /\ Matches(Routes[2], path) =>
                  Handler(op, path) = IF op = "read" THEN "mapRead"
                                      ELSE IF op = "update" THEN "mapWrite"
                                      ELSE IF op = "delete" THEN "mapDelete"
                                      ELSE IF op = "list" THEN "mapList" ELSE "unsupported"
           /\ Matches(Routes[3], path) =>
                  Handler(op, path) = IF op = "read" THEN "statusRead" ELSE "unsupported"
           /\ Matches(Routes[4], path) =>
                  Handler(op, path) = IF op = "read" THEN "dataRead"
                                      ELSE IF op = "list" THEN "unsupported" ELSE "405"
           /\ Matches(Routes[5], path) =>
                  Handler(op, path) = IF op = "read" THEN "metadataRead"
                                      ELSE IF op = "list" THEN "metadataList" ELSE "405"
           /\ \A i \in 6..10 : Matches(Routes[i], path) => Handler(op, path) = "405"
<1>1. Routes[1].ops = [read |-> "configRead", update |-> "configWrite"]
    BY RouteAt DEF AdminRoutes, Exactly
<1>2. Routes[2].ops = [read |-> "mapRead", update |-> "mapWrite",
                       delete |-> "mapDelete", list |-> "mapList"]
    BY RouteAt DEF AdminRoutes, Under
<1>3. Routes[3].ops = [read |-> "statusRead"]
    BY RouteAt DEF AdminRoutes, Exactly
<1>4. Routes[4].ops = [o \in Writes \cup {"read"} |-> IF o = "read" THEN "dataRead" ELSE "405"]
    BY RouteAt DEF ConsumerRoutes, Under
<1>5. Routes[5].ops = [o \in Ops |-> IF o \in Writes THEN "405"
                                     ELSE IF o = "read" THEN "metadataRead" ELSE "metadataList"]
    BY RouteAt DEF ConsumerRoutes, Under
<1>6. \A i \in 6..10 : Routes[i].ops = [o \in Ops |-> "405"]
    BY RouteAt DEF ReservedRoutes, Under, Exactly, Always
<1>7. ASSUME Matches(Routes[1], path)
      PROVE  Handler(op, path) = IF op = "read" THEN "configRead"
                                 ELSE IF op = "update" THEN "configWrite" ELSE "unsupported"
    BY <1>1, <1>7, Chosen
<1>8. ASSUME Matches(Routes[2], path)
      PROVE  Handler(op, path) = IF op = "read" THEN "mapRead"
                                 ELSE IF op = "update" THEN "mapWrite"
                                 ELSE IF op = "delete" THEN "mapDelete"
                                 ELSE IF op = "list" THEN "mapList" ELSE "unsupported"
    BY <1>2, <1>8, Chosen
<1>9. ASSUME Matches(Routes[3], path)
      PROVE  Handler(op, path) = IF op = "read" THEN "statusRead" ELSE "unsupported"
    BY <1>3, <1>9, Chosen
<1>10. ASSUME Matches(Routes[4], path)
       PROVE  Handler(op, path) = IF op = "read" THEN "dataRead"
                                  ELSE IF op = "list" THEN "unsupported" ELSE "405"
    BY <1>4, <1>10, Chosen DEF Ops, Writes
<1>11. ASSUME Matches(Routes[5], path)
       PROVE  Handler(op, path) = IF op = "read" THEN "metadataRead"
                                  ELSE IF op = "list" THEN "metadataList" ELSE "405"
    BY <1>5, <1>11, Chosen DEF Ops, Writes
<1>12. ASSUME NEW i \in 6..10, Matches(Routes[i], path)
       PROVE  Handler(op, path) = "405"
    BY <1>6, <1>12, Chosen
<1> QED BY <1>7, <1>8, <1>9, <1>10, <1>11, <1>12

LEMMA Known ==
    ASSUME NEW path \in Seq(STRING), path # <<>>, NEW op \in Ops
    PROVE  /\ Handler(op, path) \in Handlers
           /\ Handler(op, path) = "mapRead" => path[1] = "admin"
<1>1. CASE \A i \in 1..10 : ~Matches(Routes[i], path)
    BY <1>1, Unknown DEF Handlers
<1>2. ASSUME NEW i \in 1..10, Matches(Routes[i], path)
      PROVE  /\ Handler(op, path) \in Handlers
             /\ Handler(op, path) = "mapRead" => path[1] = "admin"
    <2>1. CASE i = 2 BY <2>1, <1>2, Handled, Matched DEF Handlers
    <2>2. CASE i \in {1, 3} BY <2>2, <1>2, Handled DEF Handlers
    <2>3. CASE i \in {4, 5} BY <2>3, <1>2, Handled DEF Handlers
    <2>4. CASE i \in 6..10 BY <2>4, <1>2, Handled DEF Handlers
    <2> QED BY <2>1, <2>2, <2>3, <2>4
<1> QED BY <1>1, <1>2

\* The statuses a handler answers with.
Gives(h, status) ==
    \/ h \in {"405", "unsupported"} /\ status = 405
    \/ h = "404" /\ status = 404
    \/ h \in {"configRead", "mapRead", "mapList", "metadataRead", "metadataList"}
           /\ status \in {200, 404, 500}
    \/ h = "configWrite" /\ status \in {204, 400}
    \/ h = "statusRead" /\ status \in {200, 500}
    \/ h = "mapWrite" /\ status \in {204, 400, 500}
    \/ h = "mapDelete" /\ status \in {204, 500}
    \/ h = "dataRead" /\ status \in {200, 404, 500, 502}

LEMMA RouteMatches ==
    ASSUME NEW path
    PROVE  /\ Matches(Routes[1], path) <=> path = <<"admin", "config">>
           /\ Matches(Routes[2], path) <=> IsStrictPrefix(<<"admin", "map">>, path)
           /\ Matches(Routes[3], path) <=> path = <<"admin", "status">>
           /\ Matches(Routes[4], path) <=> IsStrictPrefix(<<"data">>, path)
           /\ Matches(Routes[5], path) <=> IsStrictPrefix(<<"metadata">>, path)
           /\ Matches(Routes[6], path) <=> path = <<"config">>
           /\ Matches(Routes[7], path) <=> IsStrictPrefix(<<"delete">>, path)
           /\ Matches(Routes[8], path) <=> IsStrictPrefix(<<"undelete">>, path)
           /\ Matches(Routes[9], path) <=> IsStrictPrefix(<<"destroy">>, path)
           /\ Matches(Routes[10], path) <=> IsStrictPrefix(<<"detailed-metadata">>, path)
<1>1. ASSUME NEW lit, NEW ops
      PROVE  /\ Matches(Under(lit, ops), path) <=> IsStrictPrefix(lit, path)
             /\ Matches(Exactly(lit, ops), path) <=> path = lit
    BY DEF Matches, Under, Exactly
<1>2. /\ Matches(Routes[1], path) <=> path = <<"admin", "config">>
      /\ Matches(Routes[2], path) <=> IsStrictPrefix(<<"admin", "map">>, path)
      /\ Matches(Routes[3], path) <=> path = <<"admin", "status">>
    BY <1>1, RouteAt DEF AdminRoutes
<1>3. /\ Matches(Routes[4], path) <=> IsStrictPrefix(<<"data">>, path)
      /\ Matches(Routes[5], path) <=> IsStrictPrefix(<<"metadata">>, path)
    BY <1>1, RouteAt DEF ConsumerRoutes
<1>4. /\ Matches(Routes[6], path) <=> path = <<"config">>
      /\ Matches(Routes[7], path) <=> IsStrictPrefix(<<"delete">>, path)
      /\ Matches(Routes[8], path) <=> IsStrictPrefix(<<"undelete">>, path)
      /\ Matches(Routes[9], path) <=> IsStrictPrefix(<<"destroy">>, path)
      /\ Matches(Routes[10], path) <=> IsStrictPrefix(<<"detailed-metadata">>, path)
    BY <1>1, RouteAt DEF ReservedRoutes
<1> QED BY <1>2, <1>3, <1>4

\* Which of the documentation's rows speaks of which route.
Speaks(d, path) ==
    \/ /\ Matches(Routes[1], path)
       /\ \/ d.ops = {"read"} /\ d.statuses = {200, 404, 500}
          \/ d.ops = {"update"} /\ d.statuses = {204, 400}
    \/ /\ Matches(Routes[2], path)
       /\ \/ d.ops = {"read"} /\ d.statuses = {200, 404, 500}
          \/ d.ops = {"update"} /\ d.statuses = {204, 400, 500}
          \/ d.ops = {"delete"} /\ d.statuses = {204, 500}
          \/ d.ops = {"list"} /\ d.statuses = {200, 404, 500}
    \/ Matches(Routes[3], path) /\ d.ops = {"read"} /\ d.statuses = {200, 500}
    \/ /\ Matches(Routes[4], path)
       /\ \/ d.ops = {"read"} /\ d.statuses = {200, 404, 502, 500}
          \/ d.ops = Writes /\ d.statuses = {405}
    \/ /\ Matches(Routes[5], path)
       /\ \/ d.ops = {"read", "list"} /\ d.statuses = {200, 404, 500}
          \/ d.ops = Writes /\ d.statuses = {405}
    \/ (\E i \in 6..10 : Matches(Routes[i], path)) /\ d.statuses = {405}

LEMMA RowsAreRoutes ==
    ASSUME NEW path, NEW d \in DocumentedRows, Matches(d.route, path)
    PROVE  Speaks(d, path)
<1>1. CASE d \in DataRows
    BY <1>1, RouteMatches DEF DataRows, Row, Matches, Speaks
<1>2. CASE d \in MetadataRows
    BY <1>2, RouteMatches DEF MetadataRows, Row, Matches, Speaks
<1>3. CASE d \in ReservedRows
    BY <1>3, RouteMatches DEF ReservedRows, Row, Matches, Speaks
<1>4. CASE d \in MapRows
    BY <1>4, RouteMatches DEF MapRows, Row, Matches, Speaks
<1>5. CASE d \in EngineRows
    BY <1>5, RouteMatches DEF EngineRows, Row, Matches, Speaks
<1> QED BY <1>1, <1>2, <1>3, <1>4, <1>5 DEF DocumentedRows

\* What a handler answers is what the documentation says of the verb and path.
LEMMA AsDocumented ==
    ASSUME NEW path \in Seq(STRING), path # <<>>, NEW op \in Ops,
           NEW status, Gives(Handler(op, path), status)
    PROVE  /\ \A d \in DocumentedRows :
                  Matches(d.route, path) /\ op \in d.ops => status \in d.statuses
           /\ Elsewhere(path) => status = 404
<1>1. ASSUME NEW d \in DocumentedRows, Matches(d.route, path), op \in d.ops
      PROVE  status \in d.statuses
    <2>0. Speaks(d, path) BY <1>1, RowsAreRoutes
    <2>7. op \in Writes => op # "read" /\ op # "list" BY DEF Writes
    <2>1. ASSUME Matches(Routes[1], path),
                 \/ d.ops = {"read"} /\ d.statuses = {200, 404, 500}
                 \/ d.ops = {"update"} /\ d.statuses = {204, 400}
          PROVE  status \in d.statuses
        BY <2>1, <1>1, Handled DEF Gives
    <2>2. ASSUME Matches(Routes[2], path),
                 \/ d.ops = {"read"} /\ d.statuses = {200, 404, 500}
                 \/ d.ops = {"update"} /\ d.statuses = {204, 400, 500}
                 \/ d.ops = {"delete"} /\ d.statuses = {204, 500}
                 \/ d.ops = {"list"} /\ d.statuses = {200, 404, 500}
          PROVE  status \in d.statuses
        BY <2>2, <1>1, Handled DEF Gives
    <2>3. ASSUME Matches(Routes[3], path), d.ops = {"read"}, d.statuses = {200, 500}
          PROVE  status \in d.statuses
        BY <2>3, <1>1, Handled DEF Gives
    <2>4. ASSUME Matches(Routes[4], path),
                 \/ d.ops = {"read"} /\ d.statuses = {200, 404, 502, 500}
                 \/ d.ops = Writes /\ d.statuses = {405}
          PROVE  status \in d.statuses
        BY <2>4, <2>7, <1>1, Handled DEF Gives
    <2>5. ASSUME Matches(Routes[5], path),
                 \/ d.ops = {"read", "list"} /\ d.statuses = {200, 404, 500}
                 \/ d.ops = Writes /\ d.statuses = {405}
          PROVE  status \in d.statuses
        BY <2>5, <2>7, <1>1, Handled DEF Gives
    <2>6. ASSUME NEW i \in 6..10, Matches(Routes[i], path), d.statuses = {405}
          PROVE  status \in d.statuses
        BY <2>6, <1>1, Handled DEF Gives
    <2> HIDE <1>1
    <2> QED BY <2>0, <2>1, <2>2, <2>3, <2>4, <2>5, <2>6 DEF Speaks
<1>2. ASSUME Elsewhere(path) PROVE status = 404
    <2>1. path[1] # "admin" /\ \A d \in DocumentedRows : ~Matches(d.route, path)
        BY <1>2 DEF Elsewhere
    <2>2. \A i \in {1, 2, 3} : ~Matches(Routes[i], path)
        BY <2>1, Matched
    <2>3. /\ Row(<<"data">>, TRUE, Writes, {405}) \in DocumentedRows
          /\ Row(<<"metadata">>, TRUE, Writes, {405}) \in DocumentedRows
          /\ Row(<<"config">>, FALSE, Ops, {405}) \in DocumentedRows
          /\ Row(<<"delete">>, TRUE, Ops, {405}) \in DocumentedRows
          /\ Row(<<"undelete">>, TRUE, Ops, {405}) \in DocumentedRows
          /\ Row(<<"destroy">>, TRUE, Ops, {405}) \in DocumentedRows
          /\ Row(<<"detailed-metadata">>, TRUE, Ops, {405}) \in DocumentedRows
        BY DEF DocumentedRows, DataRows, MetadataRows, ReservedRows
    <2>4. /\ ~Matches(Row(<<"data">>, TRUE, Writes, {405}).route, path)
          /\ ~Matches(Row(<<"metadata">>, TRUE, Writes, {405}).route, path)
          /\ ~Matches(Row(<<"config">>, FALSE, Ops, {405}).route, path)
          /\ ~Matches(Row(<<"delete">>, TRUE, Ops, {405}).route, path)
          /\ ~Matches(Row(<<"undelete">>, TRUE, Ops, {405}).route, path)
          /\ ~Matches(Row(<<"destroy">>, TRUE, Ops, {405}).route, path)
          /\ ~Matches(Row(<<"detailed-metadata">>, TRUE, Ops, {405}).route, path)
        BY <2>1, <2>3
    <2>5. /\ ~IsStrictPrefix(<<"data">>, path) /\ ~IsStrictPrefix(<<"metadata">>, path)
          /\ path # <<"config">>
          /\ ~IsStrictPrefix(<<"delete">>, path) /\ ~IsStrictPrefix(<<"undelete">>, path)
          /\ ~IsStrictPrefix(<<"destroy">>, path) /\ ~IsStrictPrefix(<<"detailed-metadata">>, path)
        BY <2>4 DEF Row, Matches
    <2>6. /\ ~Matches(Routes[4], path) /\ ~Matches(Routes[5], path)
          /\ ~Matches(Routes[6], path) /\ ~Matches(Routes[7], path)
          /\ ~Matches(Routes[8], path) /\ ~Matches(Routes[9], path)
          /\ ~Matches(Routes[10], path)
        BY <2>5, RouteMatches, Zenon
    <2>11. \A i \in 1..10 : ~Matches(Routes[i], path)
        BY <2>2, <2>6
    <2>12. Handler(op, path) = "404" BY <2>11, Unknown
    <2> QED BY <2>12 DEF Gives
<1> QED BY <1>1, <1>2

-----------------------------------------------------------------------------
(* The inductive invariant: where a request is fits the handler it was     *)
(* given to, and it carries no configuration that exposes targets unless   *)
(* one was current while it ran.                                           *)

Running(r) == at[r] \notin {"idle", "answered"}

HandlerFor(r) == Handler(req[r].op, req[r].path)

\* The handler a request at place p was given to.
Serves(h, p) ==
    \/ p = h
    \/ h = "configWrite" /\ p = "configCache"
    \/ h = "mapWrite" /\ p = "mapPut"
    \/ h = "metadataRead" /\ p = "metadataGet"
    \/ h = "dataRead" /\ p \in {"dataGet", "deref", "violated"}

Coherent(r) ==
    /\ at[r] # "idle" => req[r] \in Requests[r]
    /\ Running(r) => Serves(HandlerFor(r), at[r])
    /\ at[r] = "answered" => Gives(HandlerFor(r), answer[r].status)
    /\ at[r] \in {"mapPut", "deref"} => copy[r] # NoEntry
    /\ snap[r] # NoCfg => Running(r)
    /\ Running(r) => (Exposes(config) \/ Exposes(snap[r]) => exposed[r])
    /\ at[r] = "answered" /\ answer[r].names # "nothing" /\ req[r].path[1] # "admin" => exposed[r]

SurfaceInv == SurfaceTypeOK /\ \A r \in Reqs : Coherent(r)

LEMMA SurfaceInvInit == SurfaceInit => SurfaceInv
<1> SUFFICES ASSUME SurfaceInit PROVE SurfaceInv OBVIOUS
<1>1. ConfigTypeOK BY ConfigTypeInit DEF SurfaceInit
<1>2. SurfaceTypeOK
    <2>1. NoAnswer \in [status : {0} \cup Statuses, names : Names]
        BY DEF NoAnswer, Names
    <2>2. "idle" \in Places BY DEF Places
    <2>3. /\ answer \in [Reqs -> [status : {0} \cup Statuses, names : Names]]
          /\ at \in [Reqs -> Places]
        BY <2>1, <2>2 DEF SurfaceInit
    <2>5. NoRequest \in AllRequests BY DEF AllRequests
    <2>4. /\ req \in [Reqs -> AllRequests]
          /\ snap \in [Reqs -> ValidCfgs \cup {NoCfg}] /\ copy \in [Reqs -> Entries \cup {NoEntry}]
          /\ exposed \in [Reqs -> BOOLEAN] /\ maps \in [Views -> Entries \cup {NoEntry}]
        BY <2>5 DEF SurfaceInit
    <2> QED BY <1>1, <2>3, <2>4 DEF SurfaceTypeOK
<1>3. ASSUME NEW r \in Reqs PROVE Coherent(r)
    BY DEF SurfaceInit, Coherent, Running
<1> QED BY <1>2, <1>3 DEF SurfaceInv

\* A request that exists is about a path the routes can be asked for.
LEMMA Asked ==
    ASSUME SurfaceInv, NEW r \in Reqs, at[r] # "idle"
    PROVE  /\ req[r].path \in Seq(STRING) /\ req[r].path # <<>> /\ req[r].op \in Ops
           /\ HandlerFor(r) \in Handlers
           /\ HandlerFor(r) = "mapRead" => req[r].path[1] = "admin"
<1>1. req[r] \in Requests[r] BY DEF SurfaceInv, Coherent
<1>2. req[r].path \in Seq(STRING) /\ req[r].path # <<>> /\ req[r].op \in Ops
    BY <1>1, RequestsAssumption
<1> QED BY <1>2, Known DEF HandlerFor

\* Returning keeps the invariant, if the status is one the handler gives, a
\* target is named only when it may be, and the history takes note of the
\* configuration that is current after the step.
LEMMA ReturnKeeps ==
    ASSUME SurfaceInv, NEW r \in Reqs, Running(r),
           NEW status \in Statuses, NEW names \in Names,
           Gives(HandlerFor(r), status),
           names # "nothing" /\ req[r].path[1] # "admin" => exposed[r],
           maps' \in [Views -> Entries \cup {NoEntry}],
           ConfigTypeOK',
           exposed' \in [Reqs -> BOOLEAN],
           \A q \in Reqs : exposed[q] => exposed'[q],
           \A q \in Reqs : Running(q) /\ Exposes(config') => exposed'[q],
           Return(r, status, names)
    PROVE  SurfaceInv'
<1>1. ConfigTypeOK' OBVIOUS
<1>2. /\ answer' = [answer EXCEPT ![r] = [status |-> status, names |-> names]]
      /\ at' = [at EXCEPT ![r] = "answered"]
      /\ snap' = [snap EXCEPT ![r] = NoCfg]
      /\ copy' = [copy EXCEPT ![r] = NoEntry]
      /\ req' = req
    BY DEF Return
<1>3. SurfaceTypeOK'
    <2>1. answer' \in [Reqs -> [status : {0} \cup Statuses, names : Names]]
        BY <1>2 DEF SurfaceInv, SurfaceTypeOK
    <2>2. at' \in [Reqs -> Places]
        BY <1>2 DEF SurfaceInv, SurfaceTypeOK, Places
    <2>3. snap' \in [Reqs -> ValidCfgs \cup {NoCfg}] /\ copy' \in [Reqs -> Entries \cup {NoEntry}]
        BY <1>2 DEF SurfaceInv, SurfaceTypeOK
    <2>4. req' \in [Reqs -> AllRequests]
        BY <1>2 DEF SurfaceInv, SurfaceTypeOK
    <2> QED BY <1>1, <2>1, <2>2, <2>3, <2>4 DEF SurfaceTypeOK
<1>4. ASSUME NEW q \in Reqs PROVE Coherent(q)'
    <2>0. Coherent(q) /\ SurfaceTypeOK BY DEF SurfaceInv
    <2>3. /\ exposed[q] => exposed'[q]
          /\ Running(q) /\ Exposes(config)' => exposed'[q]
        BY DEF Exposes
    <2>1. CASE q = r
        <3>1. /\ at'[q] = "answered" /\ snap'[q] = NoCfg
              /\ answer'[q] = [status |-> status, names |-> names]
            BY <1>2, <2>0, <2>1 DEF SurfaceTypeOK
        <3>2. at[q] # "idle" BY <2>1 DEF Running
        <3> QED BY <1>2, <2>0, <2>1, <2>3, <3>1, <3>2 DEF Coherent, Running, HandlerFor
    <2>2. CASE q # r
        <3>1. at'[q] = at[q] /\ snap'[q] = snap[q] /\ answer'[q] = answer[q] /\ copy'[q] = copy[q]
            BY <1>2, <2>0, <2>2 DEF SurfaceTypeOK
        <3> QED BY <1>2, <2>0, <2>3, <3>1 DEF Coherent, Running, HandlerFor, Exposes
    <2> QED BY <2>1, <2>2
<1> QED BY <1>3, <1>4 DEF SurfaceInv

\* An answer by which the configuration does not change.
LEMMA ReplyKeeps ==
    ASSUME SurfaceInv, NEW r \in Reqs, Running(r),
           NEW status \in Statuses, NEW names \in Names,
           Gives(HandlerFor(r), status),
           names # "nothing" /\ req[r].path[1] # "admin" => exposed[r],
           maps' \in [Views -> Entries \cup {NoEntry}],
           Reply(r, status, names)
    PROVE  SurfaceInv'
<1>1. Return(r, status, names) /\ config' = config /\ exposed' = exposed
    BY DEF Reply, cvars
<1>2. ConfigTypeOK' BY DEF Reply, SurfaceInv, SurfaceTypeOK, ConfigTypeOK, cvars
<1>3. exposed' \in [Reqs -> BOOLEAN] BY <1>1 DEF SurfaceInv, SurfaceTypeOK
<1>4. ASSUME NEW q \in Reqs
      PROVE  (exposed[q] => exposed'[q]) /\ (Running(q) /\ Exposes(config') => exposed'[q])
    BY <1>1 DEF SurfaceInv, Coherent, Exposes
<1> QED BY <1>1, <1>2, <1>3, <1>4, ReturnKeeps

\* So does going on, to a place of the same handler, with an entry where the
\* place needs one and a configuration seen no later than now.
LEMMA ContinueKeeps ==
    ASSUME SurfaceInv, NEW r \in Reqs, Running(r),
           NEW l \in Places \ {"idle", "answered"},
           NEW cfg \in ValidCfgs \cup {NoCfg}, NEW entry \in Entries \cup {NoEntry},
           Serves(HandlerFor(r), l),
           l \in {"mapPut", "deref"} => entry # NoEntry,
           Exposes(cfg) => exposed[r],
           maps' \in [Views -> Entries \cup {NoEntry}],
           Continue(r, l, cfg, entry)
    PROVE  SurfaceInv'
<1>1. /\ at' = [at EXCEPT ![r] = l]
      /\ snap' = [snap EXCEPT ![r] = cfg]
      /\ copy' = [copy EXCEPT ![r] = entry]
      /\ req' = req /\ exposed' = exposed /\ config' = config /\ answer' = answer
    BY DEF Continue, cvars
<1>2. ConfigTypeOK' BY DEF SurfaceInv, SurfaceTypeOK, ConfigTypeOK, cvars, Continue
<1>3. SurfaceTypeOK'
    <2>1. at' \in [Reqs -> Places]
        BY <1>1 DEF SurfaceInv, SurfaceTypeOK
    <2>2. snap' \in [Reqs -> ValidCfgs \cup {NoCfg}] /\ copy' \in [Reqs -> Entries \cup {NoEntry}]
        BY <1>1 DEF SurfaceInv, SurfaceTypeOK
    <2> QED BY <1>1, <1>2, <2>1, <2>2 DEF SurfaceInv, SurfaceTypeOK
<1>4. ASSUME NEW q \in Reqs PROVE Coherent(q)'
    <2>0. Coherent(q) /\ Coherent(r) /\ SurfaceTypeOK BY DEF SurfaceInv
    <2>1. CASE q = r
        <3>1. at'[q] = l /\ snap'[q] = cfg /\ copy'[q] = entry
            BY <1>1, <2>0, <2>1 DEF SurfaceTypeOK
        <3>2. at[q] # "idle" BY <2>1 DEF Running
        <3> QED BY <1>1, <2>0, <2>1, <3>1, <3>2 DEF Coherent, Running, HandlerFor, Exposes
    <2>2. CASE q # r
        <3>1. at'[q] = at[q] /\ snap'[q] = snap[q] /\ copy'[q] = copy[q]
            BY <1>1, <2>0, <2>2 DEF SurfaceTypeOK
        <3> QED BY <1>1, <2>0, <3>1 DEF Coherent, Running, HandlerFor, Exposes
    <2> QED BY <2>1, <2>2
<1> QED BY <1>3, <1>4 DEF SurfaceInv

-----------------------------------------------------------------------------
(* One lemma per action.                                                   *)

LEMMA BeginKeeps ==
    ASSUME SurfaceInv, NEW r \in Reqs, Begin(r)
    PROVE  SurfaceInv'
<1>1. PICK q \in Requests[r] :
          req' = [req EXCEPT ![r] = q] /\ at' = [at EXCEPT ![r] = Handler(q.op, q.path)]
    BY DEF Begin
<1>2. /\ at[r] = "idle" /\ exposed' = [exposed EXCEPT ![r] = Exposes(config)]
      /\ UNCHANGED <<stored, config, acfg, maps, snap, copy, answer>>
    BY DEF Begin, cvars
<1>3. Handler(q.op, q.path) \in Handlers BY RequestsAssumption, Known
<1>4. SurfaceTypeOK'
    <2>1. at' \in [Reqs -> Places]
        BY <1>1, <1>3 DEF SurfaceInv, SurfaceTypeOK, Places
    <2>2. req' \in [Reqs -> AllRequests]
        BY <1>1 DEF SurfaceInv, SurfaceTypeOK, AllRequests
    <2>3. Exposes(config) \in BOOLEAN BY DEF Exposes
    <2>4. exposed' \in [Reqs -> BOOLEAN]
        BY <1>2, <2>3 DEF SurfaceInv, SurfaceTypeOK
    <2> QED BY <1>2, <2>1, <2>2, <2>4 DEF SurfaceInv, SurfaceTypeOK, ConfigTypeOK
<1>5. ASSUME NEW p \in Reqs PROVE Coherent(p)'
    <2>0. Coherent(p) /\ SurfaceTypeOK BY DEF SurfaceInv
    <2>1. CASE p = r
        <3>1. /\ req'[p] = q /\ at'[p] = Handler(q.op, q.path) /\ exposed'[p] = Exposes(config)
              /\ snap'[p] = snap[p]
            BY <1>1, <1>2, <2>0, <2>1 DEF SurfaceTypeOK
        <3>2. snap[p] = NoCfg BY <1>2, <2>0, <2>1 DEF Coherent, Running
        <3>3. at'[p] \notin {"idle", "answered", "mapPut", "deref"} BY <1>3, <3>1 DEF Handlers
        <3>4. ~Exposes(snap'[p]) BY <3>1, <3>2 DEF Exposes
        <3> QED BY <1>2, <2>1, <3>1, <3>2, <3>3, <3>4 DEF Coherent, Running, HandlerFor, Serves
    <2>2. CASE p # r
        <3>1. at'[p] = at[p] /\ req'[p] = req[p] /\ exposed'[p] = exposed[p]
            BY <1>1, <1>2, <2>0, <2>2 DEF SurfaceTypeOK
        <3> QED BY <1>2, <2>0, <3>1 DEF Coherent, Running, HandlerFor, Exposes
    <2> QED BY <2>1, <2>2
<1> QED BY <1>4, <1>5 DEF SurfaceInv

LEMMA CollectKeeps ==
    ASSUME SurfaceInv, NEW r \in Reqs, Collect(r)
    PROVE  SurfaceInv'
<1>1. /\ at[r] = "answered" /\ at' = [at EXCEPT ![r] = "idle"]
      /\ req' = [req EXCEPT ![r] = NoRequest] /\ answer' = [answer EXCEPT ![r] = NoAnswer]
      /\ exposed' = [exposed EXCEPT ![r] = FALSE]
      /\ UNCHANGED <<stored, config, acfg, maps, snap, copy>>
    BY DEF Collect, cvars
<1>2. SurfaceTypeOK'
    <2>1. at' \in [Reqs -> Places]
        BY <1>1 DEF SurfaceInv, SurfaceTypeOK, Places
    <2>6. NoRequest \in AllRequests BY DEF AllRequests
    <2>2. req' \in [Reqs -> AllRequests]
        BY <1>1, <2>6 DEF SurfaceInv, SurfaceTypeOK
    <2>3. NoAnswer \in [status : {0} \cup Statuses, names : Names]
        BY DEF NoAnswer, Names
    <2>4. answer' \in [Reqs -> [status : {0} \cup Statuses, names : Names]]
        BY <1>1, <2>3 DEF SurfaceInv, SurfaceTypeOK
    <2>5. exposed' \in [Reqs -> BOOLEAN]
        BY <1>1 DEF SurfaceInv, SurfaceTypeOK
    <2> QED BY <1>1, <2>1, <2>2, <2>4, <2>5 DEF SurfaceInv, SurfaceTypeOK, ConfigTypeOK
<1>3. ASSUME NEW p \in Reqs PROVE Coherent(p)'
    <2>0. Coherent(p) /\ SurfaceTypeOK BY DEF SurfaceInv
    <2>1. CASE p = r
        <3>1. at'[p] = "idle" /\ snap'[p] = snap[p] BY <1>1, <2>0, <2>1 DEF SurfaceTypeOK
        <3>2. snap[p] = NoCfg BY <1>1, <2>0, <2>1 DEF Coherent, Running
        <3> QED BY <3>1, <3>2 DEF Coherent, Running
    <2>2. CASE p # r
        <3>1. /\ at'[p] = at[p] /\ req'[p] = req[p] /\ exposed'[p] = exposed[p]
              /\ answer'[p] = answer[p]
            BY <1>1, <2>0, <2>2 DEF SurfaceTypeOK
        <3> QED BY <1>1, <2>0, <3>1 DEF Coherent, Running, HandlerFor, Exposes
    <2> QED BY <2>1, <2>2
<1> QED BY <1>2, <1>3 DEF SurfaceInv

LEMMA RestartKeeps ==
    ASSUME SurfaceInv, SurfaceRestart
    PROVE  SurfaceInv'
<1>1. ConfigTypeOK'
    BY ConfigTypeStep DEF SurfaceRestart, ConfigNext, SurfaceInv, SurfaceTypeOK
<1>2. SurfaceTypeOK'
    <2>1. NoAnswer \in [status : {0} \cup Statuses, names : Names]
        BY DEF NoAnswer, Names
    <2>2. "idle" \in Places BY DEF Places
    <2>3. /\ answer' \in [Reqs -> [status : {0} \cup Statuses, names : Names]]
          /\ at' \in [Reqs -> Places]
        BY <2>1, <2>2 DEF SurfaceRestart
    <2>6. NoRequest \in AllRequests BY DEF AllRequests
    <2>4. /\ req' \in [Reqs -> AllRequests]
          /\ snap' \in [Reqs -> ValidCfgs \cup {NoCfg}] /\ copy' \in [Reqs -> Entries \cup {NoEntry}]
          /\ exposed' \in [Reqs -> BOOLEAN]
        BY <2>6 DEF SurfaceRestart
    <2>5. maps' \in [Views -> Entries \cup {NoEntry}]
        BY DEF SurfaceRestart, SurfaceInv, SurfaceTypeOK
    <2> QED BY <1>1, <2>3, <2>4, <2>5 DEF SurfaceTypeOK
<1>3. ASSUME NEW r \in Reqs PROVE Coherent(r)'
    BY DEF SurfaceRestart, Coherent, Running
<1> QED BY <1>2, <1>3 DEF SurfaceInv

\* What the invariant says of a request that is running.
LEMMA InHand ==
    ASSUME SurfaceInv, NEW r \in Reqs, Running(r)
    PROVE  /\ Serves(HandlerFor(r), at[r])
           /\ HandlerFor(r) \in Handlers
           /\ HandlerFor(r) = "mapRead" => req[r].path[1] = "admin"
           /\ Exposes(config) => exposed[r]
           /\ Exposes(snap[r]) => exposed[r]
           /\ Exposes(config) \in BOOLEAN /\ Exposes(snap[r]) \in BOOLEAN
           /\ at[r] \in {"mapPut", "deref"} => copy[r] \in Entries
           /\ copy[r] \in Entries \cup {NoEntry}
           /\ snap[r] \in ValidCfgs \cup {NoCfg} /\ config \in ValidCfgs \cup {NoCfg}
           /\ maps \in [Views -> Entries \cup {NoEntry}]
           /\ at[r] \in Places \ {"idle", "answered"}
<1>1. Coherent(r) /\ SurfaceTypeOK BY DEF SurfaceInv
<1>2. at[r] # "idle" BY DEF Running
<1>3. Exposes(config) \in BOOLEAN /\ Exposes(snap[r]) \in BOOLEAN BY DEF Exposes
<1> QED BY <1>1, <1>2, <1>3, Asked DEF Coherent, Running, SurfaceTypeOK, ConfigTypeOK

\* A request that writes the configuration is a writer of EngineConfig.
LEMMA Writer ==
    ASSUME SurfaceInv, NEW r \in Reqs, Running(r), HandlerFor(r) = "configWrite"
    PROVE  r \in Admins
BY WritersAssumption DEF SurfaceInv, Coherent, Running, HandlerFor

\* An answer of a step that leaves the mappings alone.
LEMMA Answers ==
    ASSUME SurfaceInv, NEW r \in Reqs, Running(r), maps' = maps,
           NEW status, NEW names \in Names, Gives(HandlerFor(r), status),
           names # "nothing" /\ req[r].path[1] # "admin" => exposed[r],
           Reply(r, status, names)
    PROVE  SurfaceInv'
<1>1. status \in Statuses BY DEF Gives, Statuses
<1>2. maps' \in [Views -> Entries \cup {NoEntry}] BY InHand
<1> QED BY <1>1, <1>2, ReplyKeeps

LEMMA AnswersPlainly ==
    ASSUME SurfaceInv, NEW r \in Reqs, Running(r), maps' = maps,
           NEW status, Gives(HandlerFor(r), status), Reply(r, status, "nothing")
    PROVE  SurfaceInv'
<1>1. "nothing" \in Names BY DEF Names
<1> QED BY <1>1, Answers

\* An answer that names something of a target, or nothing.
LEMMA AnswersNamed ==
    ASSUME SurfaceInv, NEW r \in Reqs, Running(r), maps' = maps,
           NEW status, Gives(HandlerFor(r), status), NEW what \in Names,
           Reply(r, status, "nothing") \/ (exposed[r] /\ Reply(r, status, what))
    PROVE  SurfaceInv'
<1>1. CASE Reply(r, status, "nothing") BY <1>1, AnswersPlainly
<1>2. CASE exposed[r] /\ Reply(r, status, what) BY <1>2, Answers
<1> QED BY <1>1, <1>2

LEMMA RefuseKeeps ==
    ASSUME SurfaceInv, NEW r \in Reqs, Refuse(r)
    PROVE  SurfaceInv'
<1>1. Running(r) /\ maps' = maps BY DEF Refuse, Running
<1>2. CASE at[r] = "405" /\ Reply(r, 405, "nothing")
    <2>1. Gives(HandlerFor(r), 405) BY <1>1, <1>2, InHand DEF Serves, Gives, Handlers
    <2> QED BY <1>1, <1>2, <2>1, AnswersPlainly
<1>3. CASE at[r] = "404" /\ Reply(r, 404, "nothing")
    <2>1. Gives(HandlerFor(r), 404) BY <1>1, <1>3, InHand DEF Serves, Gives, Handlers
    <2> QED BY <1>1, <1>3, <2>1, AnswersPlainly
<1>4. CASE at[r] = "unsupported" /\ Reply(r, 405, "nothing")
    <2>1. Gives(HandlerFor(r), 405) BY <1>1, <1>4, InHand DEF Serves, Gives, Handlers
    <2> QED BY <1>1, <1>4, <2>1, AnswersPlainly
<1> QED BY <1>2, <1>3, <1>4 DEF Refuse

LEMMA AdminReadKeeps ==
    ASSUME SurfaceInv, NEW r \in Reqs, AdminRead(r)
    PROVE  SurfaceInv'
<1>1. Running(r) /\ maps' = maps BY DEF AdminRead, Running
<1>2. CASE at[r] = "configRead" /\ Reply(r, IF stored = NoCfg THEN 404 ELSE 200, "nothing")
    <2>1. Gives(HandlerFor(r), 200) /\ Gives(HandlerFor(r), 404)
        BY <1>1, <1>2, InHand DEF Serves, Gives, Handlers
    <2>2. CASE stored = NoCfg
        <3>1. Reply(r, 404, "nothing") BY <1>2, <2>2
        <3> QED BY <1>1, <2>1, <3>1, AnswersPlainly
    <2>3. CASE stored # NoCfg
        <3>1. Reply(r, 200, "nothing") BY <1>2, <2>3
        <3> QED BY <1>1, <2>1, <3>1, AnswersPlainly
    <2> QED BY <2>2, <2>3
<1>3. CASE at[r] = "statusRead" /\ Reply(r, 200, "nothing")
    <2>1. Gives(HandlerFor(r), 200) BY <1>1, <1>3, InHand DEF Serves, Gives, Handlers
    <2> QED BY <1>1, <1>3, <2>1, AnswersPlainly
<1> QED BY <1>2, <1>3 DEF AdminRead

LEMMA MapReadKeeps ==
    ASSUME SurfaceInv, NEW r \in Reqs, MapRead(r)
    PROVE  SurfaceInv'
<1>1. Running(r) /\ maps' = maps BY DEF MapRead, Running
<1>2. CASE at[r] = "mapRead"
    <2>1. Gives(HandlerFor(r), 200) /\ Gives(HandlerFor(r), 404)
        BY <1>1, <1>2, InHand DEF Serves, Gives, Handlers
    <2>2. req[r].path[1] = "admin" BY <1>1, <1>2, InHand DEF Serves, Handlers
    <2>3. Reply(r, 404, "nothing") \/ Reply(r, 200, "target") BY <1>2 DEF MapRead
    <2>4. CASE Reply(r, 404, "nothing") BY <1>1, <2>1, <2>4, AnswersPlainly
    <2>5. CASE Reply(r, 200, "target")
        <3>1. "target" \in Names BY DEF Names
        <3> QED BY <1>1, <2>1, <2>2, <2>5, <3>1, Answers
    <2> QED BY <2>3, <2>4, <2>5
<1>3. CASE at[r] = "mapList"
    <2>1. Gives(HandlerFor(r), 200) /\ Gives(HandlerFor(r), 404)
        BY <1>1, <1>3, InHand DEF Serves, Gives, Handlers
    <2>2. Reply(r, 404, "nothing") \/ Reply(r, 200, "nothing") BY <1>3 DEF MapRead
    <2>3. CASE Reply(r, 404, "nothing") BY <1>1, <2>1, <2>3, AnswersPlainly
    <2>4. CASE Reply(r, 200, "nothing") BY <1>1, <2>1, <2>4, AnswersPlainly
    <2> QED BY <2>2, <2>3, <2>4
<1> QED BY <1>2, <1>3 DEF MapRead

LEMMA ConfigStoreKeeps ==
    ASSUME SurfaceInv, NEW r \in Reqs, ConfigStore(r)
    PROVE  SurfaceInv'
<1>1. Running(r) /\ maps' = maps /\ at[r] = "configWrite" BY DEF ConfigStore, Running
<1>2. HandlerFor(r) = "configWrite" BY <1>1, InHand DEF Serves
<1>3. CASE Reply(r, 400, "nothing")
    <2>1. Gives(HandlerFor(r), 400) BY <1>2 DEF Gives
    <2> QED BY <1>1, <1>3, <2>1, AnswersPlainly
<1>4. CASE /\ ConfigPut(r) /\ at' = [at EXCEPT ![r] = "configCache"]
           /\ UNCHANGED <<req, snap, copy, answer, exposed>>
    <2>1. r \in Admins BY <1>1, <1>2, Writer
    <2>2. ConfigTypeOK' /\ config' = config
        BY <1>4, <2>1, ConfigTypeStep
           DEF ConfigNext, ConfigWrite, ConfigPut, SurfaceInv, SurfaceTypeOK
    <2>3. SurfaceTypeOK'
        <3>1. at' \in [Reqs -> Places] BY <1>4 DEF SurfaceInv, SurfaceTypeOK, Places
        <3> QED BY <1>1, <1>4, <2>2, <3>1 DEF SurfaceInv, SurfaceTypeOK
    <2>4. ASSUME NEW q \in Reqs PROVE Coherent(q)'
        <3>0. Coherent(q) /\ SurfaceTypeOK BY DEF SurfaceInv
        <3>1. CASE q = r
            <4>1. at'[q] = "configCache" BY <1>4, <3>0, <3>1 DEF SurfaceTypeOK
            <4>2. Running(q) BY <1>1, <3>1
            <4> QED BY <1>2, <1>4, <2>2, <3>0, <3>1, <4>1, <4>2
                    DEF Coherent, Running, HandlerFor, Serves, Exposes
        <3>2. CASE q # r
            <4>1. at'[q] = at[q] BY <1>4, <3>0, <3>2 DEF SurfaceTypeOK
            <4> QED BY <1>4, <2>2, <3>0, <4>1 DEF Coherent, Running, HandlerFor, Exposes
        <3> QED BY <3>1, <3>2
    <2> QED BY <2>3, <2>4 DEF SurfaceInv
<1> QED BY <1>3, <1>4 DEF ConfigStore

LEMMA ConfigDoneKeeps ==
    ASSUME SurfaceInv, NEW r \in Reqs, ConfigDone(r)
    PROVE  SurfaceInv'
<1>1. /\ Running(r) /\ maps' = maps /\ at[r] = "configCache"
      /\ ConfigCache(r) /\ Return(r, 204, "nothing")
      /\ exposed' = [q \in Reqs |-> exposed[q] \/ (Running(q) /\ Exposes(config'))]
    BY DEF ConfigDone, Exposure, Running
<1>2. HandlerFor(r) = "configWrite" BY <1>1, InHand DEF Serves, Handlers
<1>3. r \in Admins BY <1>1, <1>2, Writer
<1>4. ConfigTypeOK'
    BY <1>1, <1>3, ConfigTypeStep DEF ConfigNext, ConfigWrite, SurfaceInv, SurfaceTypeOK
<1>5. exposed' \in [Reqs -> BOOLEAN]
    <2>1. \A q \in Reqs : (exposed[q] \/ (Running(q) /\ Exposes(config'))) \in BOOLEAN
        BY Zenon
    <2> QED BY <1>1, <2>1
<1>6. /\ \A q \in Reqs : exposed[q] => exposed'[q]
      /\ \A q \in Reqs : Running(q) /\ Exposes(config') => exposed'[q]
    BY <1>1
<1>7. Gives(HandlerFor(r), 204) /\ 204 \in Statuses /\ "nothing" \in Names
    BY <1>2 DEF Gives, Statuses, Names
<1>8. maps' \in [Views -> Entries \cup {NoEntry}] BY <1>1, InHand
<1>9. ASSUME NEW status \in Statuses, NEW names \in Names, names = "nothing",
             Gives(HandlerFor(r), status), Return(r, status, names)
      PROVE  SurfaceInv'
    BY <1>1, <1>4, <1>5, <1>6, <1>8, <1>9, ReturnKeeps
<1> QED BY <1>1, <1>7, <1>9

LEMMA MapCheckKeeps ==
    ASSUME SurfaceInv, NEW r \in Reqs, MapCheck(r)
    PROVE  SurfaceInv'
<1>1. Running(r) /\ maps' = maps /\ at[r] = "mapWrite" BY DEF MapCheck, Running
<1>2. Gives(HandlerFor(r), 400) /\ Serves(HandlerFor(r), "mapPut")
    BY <1>1, InHand DEF Serves, Gives, Handlers
<1>3. PICK t \in TargetInputs :
          \/ Continue(r, "mapPut", NoCfg, [target |-> t, quarantined |-> FALSE])
          \/ Reply(r, 400, "nothing")
    BY DEF MapCheck
<1>4. CASE Continue(r, "mapPut", NoCfg, [target |-> t, quarantined |-> FALSE])
    <2>1. [target |-> t, quarantined |-> FALSE] \in Entries BY DEF Entries
    <2>2. [target |-> t, quarantined |-> FALSE] # NoEntry
        BY <2>1, SurfaceNoEntryAssumption DEF Entries
    <2>3. "mapPut" \in Places \ {"idle", "answered"} BY DEF Places
    <2>4. ~Exposes(NoCfg) BY DEF Exposes
    <2> QED BY <1>1, <1>2, <1>4, <2>1, <2>2, <2>3, <2>4, InHand, ContinueKeeps
<1>5. CASE Reply(r, 400, "nothing")
    BY <1>1, <1>2, <1>5, AnswersPlainly
<1> QED BY <1>3, <1>4, <1>5

LEMMA MapPutKeeps ==
    ASSUME SurfaceInv, NEW r \in Reqs, MapPut(r)
    PROVE  SurfaceInv'
<1>1. Running(r) /\ at[r] \in {"mapPut", "mapDelete"} /\ Reply(r, 204, "nothing")
    BY DEF MapPut, Running
<1>2. Gives(HandlerFor(r), 204) BY <1>1, InHand DEF Serves, Gives, Handlers
<1>3. maps' \in [Views -> Entries \cup {NoEntry}]
    BY <1>1, InHand DEF MapPut
<1>4. ASSUME NEW status \in Statuses, NEW names \in Names,
             Gives(HandlerFor(r), status), names = "nothing", Reply(r, status, names)
      PROVE  SurfaceInv'
    BY <1>1, <1>3, <1>4, ReplyKeeps
<1>5. 204 \in Statuses /\ "nothing" \in Names BY DEF Statuses, Names
<1> QED BY <1>1, <1>2, <1>4, <1>5

LEMMA SnapshotKeeps ==
    ASSUME SurfaceInv, NEW r \in Reqs, Snapshot(r)
    PROVE  SurfaceInv'
<1>1. Running(r) /\ maps' = maps BY DEF Snapshot, Running
<1>2. CASE at[r] = "metadataRead" /\ Continue(r, "metadataGet", config, NoEntry)
    <2>1. Serves(HandlerFor(r), "metadataGet") BY <1>1, <1>2, InHand DEF Serves, Handlers
    <2>2. "metadataGet" \in Places \ {"idle", "answered"} BY DEF Places
    <2> QED BY <1>1, <1>2, <2>1, <2>2, InHand, ContinueKeeps
<1>3. CASE at[r] = "dataRead" /\ Continue(r, "dataGet", config, NoEntry)
    <2>1. Serves(HandlerFor(r), "dataGet") BY <1>1, <1>3, InHand DEF Serves, Handlers
    <2>2. "dataGet" \in Places \ {"idle", "answered"} BY DEF Places
    <2> QED BY <1>1, <1>3, <2>1, <2>2, InHand, ContinueKeeps
<1> QED BY <1>2, <1>3 DEF Snapshot

LEMMA MetadataKeeps ==
    ASSUME SurfaceInv, NEW r \in Reqs, Metadata(r)
    PROVE  SurfaceInv'
<1>1. Running(r) /\ maps' = maps BY DEF Metadata, Running
<1>2. at[r] \in {"metadataGet", "metadataList"} BY DEF Metadata
<1>3. Gives(HandlerFor(r), 200) /\ Gives(HandlerFor(r), 404)
    BY <1>1, <1>2, InHand DEF Serves, Gives, Handlers
<1>4. \/ Reply(r, 404, "nothing") \/ Reply(r, 200, "nothing")
      \/ Exposes(snap[r]) /\ Reply(r, 200, "target")
    BY DEF Metadata, Named
<1>5. CASE Reply(r, 404, "nothing") BY <1>1, <1>3, <1>5, AnswersPlainly
<1>6. CASE Reply(r, 200, "nothing") BY <1>1, <1>3, <1>6, AnswersPlainly
<1>7. CASE Exposes(snap[r]) /\ Reply(r, 200, "target")
    <2>1. exposed[r] /\ "target" \in Names BY <1>1, <1>7, InHand DEF Names
    <2> QED BY <1>1, <1>3, <1>7, <2>1, AnswersNamed
<1> QED BY <1>4, <1>5, <1>6, <1>7

LEMMA DataGetKeeps ==
    ASSUME SurfaceInv, NEW r \in Reqs, DataGet(r)
    PROVE  SurfaceInv'
<1>1. Running(r) /\ maps' = maps /\ at[r] = "dataGet" BY DEF DataGet, Running
<1>2. /\ Gives(HandlerFor(r), 404) /\ Gives(HandlerFor(r), 502)
      /\ Serves(HandlerFor(r), "deref")
    BY <1>1, InHand DEF Serves, Gives, Handlers
<1> DEFINE e == Mapping(Captured(r, 1))
<1>3. e \in Entries \cup {NoEntry} BY <1>1, InHand DEF Mapping
<1>4. \/ Reply(r, 404, "nothing") \/ Reply(r, 502, "nothing")
      \/ Exposes(snap[r]) /\ Reply(r, 502, "mount")
      \/ e # NoEntry /\ Continue(r, "deref", snap[r], e)
    BY DEF DataGet, Named
<1>5. CASE Reply(r, 404, "nothing") BY <1>1, <1>2, <1>5, AnswersPlainly
<1>6. CASE Reply(r, 502, "nothing") BY <1>1, <1>2, <1>6, AnswersPlainly
<1>7. CASE Exposes(snap[r]) /\ Reply(r, 502, "mount")
    <2>1. exposed[r] /\ "mount" \in Names BY <1>1, <1>7, InHand DEF Names
    <2> QED BY <1>1, <1>2, <1>7, <2>1, AnswersNamed
<1>8. CASE e # NoEntry /\ Continue(r, "deref", snap[r], e)
    <2>1. "deref" \in Places \ {"idle", "answered"} BY DEF Places
    <2> HIDE DEF e
    <2> QED BY <1>1, <1>2, <1>3, <1>8, <2>1, InHand, ContinueKeeps
<1> QED BY <1>4, <1>5, <1>6, <1>7, <1>8

LEMMA DerefKeeps ==
    ASSUME SurfaceInv, NEW r \in Reqs, Deref(r)
    PROVE  SurfaceInv'
<1>1. Running(r) /\ at[r] = "deref" BY DEF Deref, Running
<1>2. /\ Gives(HandlerFor(r), 200) /\ Gives(HandlerFor(r), 502)
      /\ Serves(HandlerFor(r), "violated")
    BY <1>1, InHand DEF Serves, Gives, Handlers
<1>3. ASSUME NEW s \in {200, 502}, NEW what \in {"mount", "target"},
             Reply(r, s, Named(snap[r], what)), UNCHANGED maps
      PROVE  SurfaceInv'
    <2>1. what \in Names BY DEF Names
    <2>2. Reply(r, s, "nothing") \/ (exposed[r] /\ Reply(r, s, what))
        BY <1>1, <1>3, InHand DEF Named
    <2> QED BY <1>1, <1>2, <1>3, <2>1, <2>2, AnswersNamed
<1>4. ASSUME maps' \in {maps, [maps EXCEPT ![Captured(r, 1)] = [copy[r] EXCEPT !.quarantined = TRUE]]},
             Continue(r, "violated", NoCfg, NoEntry)
      PROVE  SurfaceInv'
    <2>1. [copy[r] EXCEPT !.quarantined = TRUE] \in Entries BY <1>1, InHand DEF Entries
    <2>2. maps' \in [Views -> Entries \cup {NoEntry}] BY <1>1, <1>4, <2>1, InHand
    <2>3. "violated" \in Places \ {"idle", "answered"} /\ ~Exposes(NoCfg) BY DEF Places, Exposes
    <2> QED BY <1>1, <1>2, <1>4, <2>2, <2>3, InHand, ContinueKeeps
<1> QED BY <1>3, <1>4 DEF Deref

LEMMA ViolationKeeps ==
    ASSUME SurfaceInv, NEW r \in Reqs, Violation(r)
    PROVE  SurfaceInv'
<1>1. Running(r) /\ at[r] = "violated" /\ maps' = maps BY DEF Violation, Running
<1>2. Gives(HandlerFor(r), 502) BY <1>1, InHand DEF Serves, Gives, Handlers
<1>3. "mount" \in Names BY DEF Names
<1>4. Reply(r, 502, "nothing") \/ (exposed[r] /\ Reply(r, 502, "mount"))
    BY <1>1, InHand DEF Violation, Named
<1> QED BY <1>1, <1>2, <1>3, <1>4, AnswersNamed

LEMMA StorageFailsKeeps ==
    ASSUME SurfaceInv, NEW r \in Reqs, StorageFails(r)
    PROVE  SurfaceInv'
<1>1. Running(r) /\ maps' = maps /\ Reply(r, 500, "nothing")
    BY DEF StorageFails, Running
<1>2. Gives(HandlerFor(r), 500) BY <1>1, InHand DEF StorageFails, Serves, Gives, Handlers
<1> QED BY <1>1, <1>2, AnswersPlainly

LEMMA SurfaceInvStep == SurfaceInv /\ [SurfaceNext]_surfacevars => SurfaceInv'
<1> SUFFICES ASSUME SurfaceInv, [SurfaceNext]_surfacevars PROVE SurfaceInv' OBVIOUS
<1>1. ASSUME NEW r \in Reqs, Handle(r) PROVE SurfaceInv'
    BY <1>1, BeginKeeps, CollectKeeps, RefuseKeeps, AdminReadKeeps, ConfigStoreKeeps,
       ConfigDoneKeeps, MapReadKeeps, MapCheckKeeps,
       MapPutKeeps, SnapshotKeeps, MetadataKeeps, DataGetKeeps, DerefKeeps, ViolationKeeps,
       StorageFailsKeeps DEF Handle
<1>2. CASE SurfaceRestart BY <1>2, RestartKeeps
<1>3. CASE UNCHANGED surfacevars
    <2>1. ConfigTypeOK' BY <1>3, ConfigTypeStep DEF surfacevars, SurfaceInv, SurfaceTypeOK
    <2>2. SurfaceTypeOK' BY <1>3, <2>1 DEF surfacevars, locals, SurfaceInv, SurfaceTypeOK
    <2>3. \A r \in Reqs : Coherent(r)'
        BY <1>3 DEF surfacevars, locals, cvars, SurfaceInv, Coherent, Running, HandlerFor, Exposes
    <2> QED BY <2>2, <2>3 DEF SurfaceInv
<1> QED BY <1>1, <1>2, <1>3 DEF SurfaceNext

\* What the two properties below rest on: requests are answered, and disclose,
\* according to the handler they were routed to.
THEOREM SurfaceInvariant == SurfaceSpec => []SurfaceInv
<1> QED BY SurfaceInvInit, SurfaceInvStep, PTL DEF SurfaceSpec

\* Type correctness, of the configuration and of every request in flight.
THEOREM SurfaceTypeCorrect == SurfaceSpec => []SurfaceTypeOK
<1>1. SurfaceInv => SurfaceTypeOK BY DEF SurfaceInv
<1> QED BY <1>1, SurfaceInvariant, PTL

\* For every set of requests, whatever their paths: no consumer answer names a
\* target or its mount unless targets were exposed while the request ran.
THEOREM TargetsAreRedacted == SurfaceSpec => []Redacted
<1>1. SurfaceInv => Redacted
    BY DEF SurfaceInv, Coherent, Redacted
<1> QED BY <1>1, SurfaceInvariant, PTL

\* For every verb and every path, configuration writes included: the status is
\* one the tables give.
THEOREM AnswersAreDocumented == SurfaceSpec => []AnsweredAsDocumented
<1>1. SurfaceInv => AnsweredAsDocumented
    <2> SUFFICES ASSUME SurfaceInv, NEW r \in Reqs, at[r] = "answered"
                 PROVE  /\ \A d \in DocumentedRows :
                               Matches(d.route, req[r].path) /\ req[r].op \in d.ops
                                   => answer[r].status \in d.statuses
                        /\ Elsewhere(req[r].path) => answer[r].status = 404
        BY DEF AnsweredAsDocumented
    <2>1. Gives(Handler(req[r].op, req[r].path), answer[r].status)
        BY DEF SurfaceInv, Coherent, HandlerFor
    <2>2. req[r].path \in Seq(STRING) /\ req[r].path # <<>> /\ req[r].op \in Ops
        BY Asked
    <2> QED BY <2>1, <2>2, AsDocumented
<1> QED BY <1>1, SurfaceInvariant, PTL

\* Surface does to the configuration what EngineConfig does and no more, so what
\* is proved of EngineConfig holds here.
THEOREM SurfaceRefinesConfig == SurfaceSpec => ConfigSpec
<1>1. SurfaceInit => ConfigInit BY DEF SurfaceInit
<1>2. SurfaceInv /\ [SurfaceNext]_surfacevars => [ConfigNext]_cvars
    <2> SUFFICES ASSUME SurfaceInv, [SurfaceNext]_surfacevars PROVE ConfigNext \/ UNCHANGED cvars
        OBVIOUS
    <2>1. ASSUME NEW r \in Reqs, Handle(r) PROVE ConfigNext \/ UNCHANGED cvars
        <3>1. CASE ConfigStore(r) \/ ConfigDone(r)
            <4>1. Running(r) /\ at[r] \in {"configWrite", "configCache"}
                BY <3>1 DEF ConfigStore, ConfigDone, Running
            <4>2. HandlerFor(r) = "configWrite" BY <4>1, InHand DEF Serves, Handlers
            <4>3. r \in Admins BY <4>1, <4>2, Writer
            <4> QED BY <3>1, <4>3 DEF ConfigStore, ConfigDone, Reply, ConfigNext, ConfigWrite
        <3>2. CASE ~(ConfigStore(r) \/ ConfigDone(r))
            BY <2>1, <3>2
               DEF Handle, Begin, Collect, Refuse, AdminRead, MapRead, MapCheck, MapPut, Snapshot,
                   Metadata, DataGet, Deref, Violation, StorageFails, Reply, Continue
        <3> QED BY <3>1, <3>2
    <2>2. CASE SurfaceRestart BY <2>2 DEF SurfaceRestart, ConfigNext
    <2>3. CASE UNCHANGED surfacevars BY <2>3 DEF surfacevars
    <2> QED BY <2>1, <2>2, <2>3 DEF SurfaceNext
<1> QED BY <1>1, <1>2, SurfaceInvariant, PTL DEF SurfaceSpec, ConfigSpec

\* So, without concurrent configuration writes and with a storage that answers
\* the read at mount time, every request reads the configuration storage holds.
THEOREM SurfaceReadsStored ==
    ASSUME SoleWriter, ~LoadMayFail
    PROVE  SurfaceSpec => []CacheMatchesStore
BY SurfaceRefinesConfig, CacheCoherent

-----------------------------------------------------------------------------
(* Targets.  An entry reaches storage from a request's hands, and its hands   *)
(* from admin/map's checks or from storage.                                   *)

Admitted(e) ==
    e # NoEntry => Canonical(e.target, OwnMount) /\ MountName(e.target) \notin FixedRejectMounts

TargetInv ==
    /\ \A v \in Views : Admitted(maps[v])
    /\ \A r \in Reqs : Admitted(copy[r])

LEMMA TargetInit == SurfaceInit => TargetInv
BY DEF SurfaceInit, TargetInv, Admitted

LEMMA AdmittedKeeps ==
    ASSUME SurfaceTypeOK, TargetInv, NEW r \in Reqs, NEW e, Admitted(e),
           copy' = [copy EXCEPT ![r] = e], \A v \in Views : Admitted(maps'[v])
    PROVE  TargetInv'
<1>1. ASSUME NEW q \in Reqs PROVE Admitted(copy'[q])
    BY DEF SurfaceTypeOK, TargetInv
<1> QED BY <1>1 DEF TargetInv, Admitted

\* The Put of a write, and of a quarantine, stores what the request holds.
LEMMA StoresAdmitted ==
    ASSUME SurfaceTypeOK, TargetInv, NEW r \in Reqs, NEW v \in Views,
           \/ maps'[v] = maps[v] \/ maps'[v] = NoEntry \/ maps'[v] = copy[r]
           \/ copy[r] \in Entries /\ maps'[v] = [copy[r] EXCEPT !.quarantined = TRUE]
    PROVE  Admitted(maps'[v])
<1>1. Admitted(maps[v]) /\ Admitted(copy[r]) /\ Admitted(NoEntry) BY DEF TargetInv, Admitted
<1>2. CASE copy[r] \in Entries /\ maps'[v] = [copy[r] EXCEPT !.quarantined = TRUE]
    <2>1. maps'[v].target = copy[r].target BY <1>2 DEF Entries
    <2>2. copy[r] # NoEntry BY <1>2, SurfaceNoEntryAssumption DEF Entries
    <2> QED BY <1>1, <2>1, <2>2 DEF Admitted
<1> QED BY <1>1, <1>2

LEMMA TargetHandle ==
    ASSUME SurfaceInv, TargetInv, NEW r \in Reqs, Handle(r)
    PROVE  TargetInv'
<1>1. SurfaceTypeOK BY DEF SurfaceInv
<1>2. Admitted(NoEntry) BY DEF Admitted
<1>3. \A v \in Views : Admitted(maps[v]) BY DEF TargetInv
<1>4. CASE Begin(r) \/ Collect(r)
    BY <1>4 DEF Begin, Collect, TargetInv, Admitted
<1>5. CASE \/ Refuse(r) \/ AdminRead(r) \/ MapRead(r) \/ Metadata(r) \/ Violation(r)
           \/ StorageFails(r) \/ ConfigDone(r)
    <2>1. copy' = [copy EXCEPT ![r] = NoEntry] /\ maps' = maps
        BY <1>5 DEF Refuse, AdminRead, MapRead, Metadata, Violation, StorageFails, ConfigDone,
                    Reply, Return
    <2> QED BY <1>1, <1>2, <1>3, <2>1, AdmittedKeeps
<1>6. CASE ConfigStore(r)
    <2>1. maps' = maps /\ (copy' = copy \/ copy' = [copy EXCEPT ![r] = NoEntry])
        BY <1>6 DEF ConfigStore, Reply, Return
    <2>2. CASE copy' = copy BY <2>1, <2>2 DEF TargetInv, Admitted
    <2>3. CASE copy' = [copy EXCEPT ![r] = NoEntry]
        BY <1>1, <1>2, <1>3, <2>1, <2>3, AdmittedKeeps
    <2> QED BY <2>1, <2>2, <2>3
<1>7. CASE Snapshot(r)
    <2>1. copy' = [copy EXCEPT ![r] = NoEntry] /\ maps' = maps
        BY <1>7 DEF Snapshot, Continue
    <2> QED BY <1>1, <1>2, <1>3, <2>1, AdmittedKeeps
<1>8. CASE MapCheck(r)
    <2>1. PICK t \in TargetInputs, adapter \in AdapterInputs :
              IF /\ Captured(r, 2) # <<"">>
                 /\ ValidAdapterOverride(adapter)
                 /\ Canonical(t, OwnMount)
                 /\ TargetMountAllowed(config, MountName(t))
              THEN Continue(r, "mapPut", NoCfg, [target |-> t, quarantined |-> FALSE])
              ELSE Reply(r, 400, "nothing")
        BY <1>8 DEF MapCheck
    <2>2. maps' = maps BY <1>8 DEF MapCheck
    <2> DEFINE e == [target |-> t, quarantined |-> FALSE]
    <2>3. CASE /\ Canonical(t, OwnMount) /\ TargetMountAllowed(config, MountName(t))
               /\ Continue(r, "mapPut", NoCfg, e)
        <3>1. Admitted(e) BY <2>3 DEF Admitted, TargetMountAllowed
        <3>2. copy' = [copy EXCEPT ![r] = e] BY <2>3 DEF Continue
        <3> QED BY <1>1, <1>3, <2>2, <3>1, <3>2, AdmittedKeeps
    <2>4. CASE Reply(r, 400, "nothing")
        <3>1. copy' = [copy EXCEPT ![r] = NoEntry] BY <2>4 DEF Reply, Return
        <3> QED BY <1>1, <1>2, <1>3, <2>2, <3>1, AdmittedKeeps
    <2> QED BY <2>1, <2>3, <2>4
<1>9. CASE MapPut(r)
    <2>1. copy' = [copy EXCEPT ![r] = NoEntry] BY <1>9 DEF MapPut, Reply, Return
    <2>2. \A v \in Views : maps'[v] = maps[v] \/ maps'[v] = NoEntry \/ maps'[v] = copy[r]
        BY <1>1, <1>9 DEF MapPut, SurfaceTypeOK
    <2>3. \A v \in Views : Admitted(maps'[v]) BY <1>1, <2>2, StoresAdmitted
    <2> QED BY <1>1, <1>2, <2>1, <2>3, AdmittedKeeps
<1>10. CASE DataGet(r)
    <2> DEFINE e == Mapping(Captured(r, 1))
    <2>1. Admitted(e) BY <1>2, <1>3 DEF Mapping
    <2>2. maps' = maps /\ (copy' = [copy EXCEPT ![r] = e] \/ copy' = [copy EXCEPT ![r] = NoEntry])
        BY <1>10 DEF DataGet, Reply, Return, Continue
    <2> HIDE DEF e
    <2> QED BY <1>1, <1>2, <1>3, <2>1, <2>2, AdmittedKeeps
<1>11. CASE Deref(r)
    <2>1. copy' = [copy EXCEPT ![r] = NoEntry] BY <1>11 DEF Deref, Reply, Return, Continue
    <2>2. copy[r] \in Entries
        BY <1>11 DEF Deref, SurfaceInv, SurfaceTypeOK, Coherent
    <2> DEFINE f == [copy[r] EXCEPT !.quarantined = TRUE]
    <2>3. \A v \in Views : maps'[v] = maps[v] \/ maps'[v] = f
        <3>1. maps' = maps \/ maps' = [maps EXCEPT ![Captured(r, 1)] = f]
            BY <1>11 DEF Deref
        <3> HIDE DEF f
        <3> QED BY <1>1, <3>1 DEF SurfaceTypeOK
    <2>4. \A v \in Views : Admitted(maps'[v]) BY <1>1, <2>2, <2>3, StoresAdmitted
    <2> QED BY <1>1, <1>2, <2>1, <2>4, AdmittedKeeps
<1> QED BY <1>4, <1>5, <1>6, <1>7, <1>8, <1>9, <1>10, <1>11 DEF Handle

LEMMA TargetStep == ASSUME SurfaceInv, TargetInv, [SurfaceNext]_surfacevars PROVE TargetInv'
<1>1. ASSUME NEW r \in Reqs, Handle(r) PROVE TargetInv' BY <1>1, TargetHandle
<1>2. CASE SurfaceRestart BY <1>2 DEF SurfaceRestart, TargetInv, Admitted
<1>3. CASE UNCHANGED surfacevars BY <1>3 DEF surfacevars, locals, TargetInv, Admitted
<1> QED BY <1>1, <1>2, <1>3 DEF SurfaceNext

\* If what canonicalizeTarget accepts is what the documentation calls canonical,
\* no sequence of writes, quarantines and restarts stores anything else, or a
\* target under a reserved mount or the engine's own, whatever configurations
\* come and go meanwhile.
THEOREM StoredTargetsAdmitted ==
    ASSUME GrammarMet, OwnMount # <<>>
    PROVE  SurfaceSpec => []TargetsAdmitted
<1>1. SurfaceInit => TargetInv BY TargetInit
<1>2. SurfaceInv /\ TargetInv /\ [SurfaceNext]_surfacevars => TargetInv' BY TargetStep
<1>3. SurfaceInv /\ TargetInv => TargetsAdmitted
    <2> SUFFICES ASSUME SurfaceInv, TargetInv, NEW v \in Views, maps[v] # NoEntry
                 PROVE  /\ Documented(maps[v].target)
                        /\ MountName(maps[v].target) \notin FixedRejectMounts
                        /\ TargetMount(PathOf(maps[v].target)) # OwnMount
        BY DEF TargetsAdmitted
    <2>1. /\ Canonical(maps[v].target, OwnMount)
          /\ MountName(maps[v].target) \notin FixedRejectMounts
        BY DEF TargetInv, Admitted
    <2>2. maps[v].target \in TargetInputs BY DEF SurfaceInv, SurfaceTypeOK, Entries
    <2>3. Documented(maps[v].target) BY <2>1, <2>2 DEF GrammarMet
    <2>4. TargetMount(PathOf(maps[v].target)) # OwnMount BY <2>1 DEF Canonical
    <2> QED BY <2>1, <2>3, <2>4
<1> QED BY <1>1, <1>2, <1>3, SurfaceInvariant, PTL DEF SurfaceSpec
=============================================================================
