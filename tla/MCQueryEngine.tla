---------------------------- MODULE MCQueryEngine ----------------------------
(***************************************************************************)
(* Programs for QueryEngine.  The queries are named for the kinds whose    *)
(* shape they have: "text" a SOURCE_TEXT, "files" a FILE_SET, "ast" a      *)
(* FILE_AST, "lib" a query on file-set inputs alone, "items" a query that  *)
(* looks at more only when the tree has something, "check" a consumer.     *)
(***************************************************************************)
EXTENDS QueryEngineCheck, TLC

Read(d)   == [op |-> "read", q |-> d, val |-> Bottom]
Return(v) == [op |-> "return", q |-> None, val |-> v]
Failure   == [op |-> "fail", q |-> None, val |-> Bottom]

MCInputs   == {"text", "files"}
OneInput   == {"text"}
OneInputDur == ("text" :> DUR_LOW)
MCInputDur == ("text" :> DUR_LOW) @@ ("files" :> DUR_MEDIUM)

\* Every query keeps its tier whatever it reads: "lib" is MEDIUM, the others
\* LOW.  "items" reads "lib" or not; "check" reads "ast" directly and through "items".
LayeredDerived == {"ast", "lib", "items", "check"}
LayeredBody(q, vs) ==
    CASE q = "ast" -> IF Len(vs) = 0 THEN Read("text") ELSE Return(vs[1])
      [] q = "lib" -> IF Len(vs) = 0 THEN Read("files") ELSE Return(vs[1])
      [] q = "items" -> IF Len(vs) = 0 THEN Read("ast")
                        ELSE IF Len(vs) = 1 /\ vs[1] = 1 THEN Read("lib")
                        ELSE Return(vs[Len(vs)])
      [] q = "check" -> IF Len(vs) = 0 THEN Read("items")
                        ELSE IF Len(vs) = 1 THEN Read("ast")
                        ELSE Return(IF vs[1] = 0 THEN vs[2] ELSE vs[1])

\* The layered program is one the theorems of QueryEngineCheckProofs are about.
ASSUME LayeredIsSteady ==
    Derived = LayeredDerived => Steady /\ MayFail = {}

\* The tangled program: "x" and "y" read each other when the text is 1 (two
\* declarations that refer to each other until the user fixes one) and fail
\* on a bottom value; "z" fails when the text is 1 and otherwise returns what
\* it was given.
TangledDerived == {"x", "y", "z"}
OrFail(v) == IF v = Bottom THEN Failure ELSE Return(v)
TangledBody(q, vs) ==
    CASE q = "x" -> IF Len(vs) = 0 THEN Read("text")
                    ELSE IF Len(vs) = 1 /\ vs[1] = 1 THEN Read("y")
                    ELSE OrFail(vs[Len(vs)])
      [] q = "y" -> IF Len(vs) = 0 THEN Read("x") ELSE OrFail(vs[1])
      [] q = "z" -> IF Len(vs) = 0 THEN Read("text")
                    ELSE IF vs[1] = 1 THEN Failure
                    ELSE Return(vs[1])

\* The tangled program is one MemosReplay (QueryEngineCheckProofs) is about.
ASSUME TangledFails == Derived = TangledDerived => FailsOnBottom

\* A chain on one input: "top" reads "mid" and then "ast" again.
ChainDerived == {"ast", "mid", "top"}
ChainBody(q, vs) ==
    CASE q = "ast" -> IF Len(vs) = 0 THEN Read("text") ELSE Return(vs[1])
      [] q = "mid" -> IF Len(vs) = 0 THEN Read("ast") ELSE Return(vs[1])
      [] q = "top" -> IF Len(vs) = 0 THEN Read("mid")
                      ELSE IF Len(vs) = 1 THEN Read("ast")
                      ELSE Return(vs[1])

\* A query whose tier moves: "items" reads the file set and, once there is a
\* file, its tree, and yields 0 while the tree is empty; "scope" reads "items".
\* This is NAMESPACE_ITEMS over an empty namespace that gains an empty file.
ShiftingDerived == {"ast", "items", "scope"}
ShiftingBody(q, vs) ==
    CASE q = "ast" -> IF Len(vs) = 0 THEN Read("text") ELSE Return(vs[1])
      [] q = "items" -> IF Len(vs) = 0 THEN Read("files")
                        ELSE IF Len(vs) = 1 /\ vs[1] = 1 THEN Read("ast")
                        ELSE Return(vs[Len(vs)])
      [] q = "scope" -> IF Len(vs) = 0 THEN Read("items") ELSE Return(vs[1])
=============================================================================
