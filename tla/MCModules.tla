------------------------------ MODULE MCModules -----------------------------
(***************************************************************************)
(* Three files, of which later ones import earlier ones, and two           *)
(* coroutines.  Files yield, fail, die and return early, null or not.  The *)
(* compiler does not return from a circle of imports: there is none here.  *)
(***************************************************************************)
EXTENDS Modules

Import(f) == [op |-> "import", of |-> f]
ExportOf(x) == [op |-> "export", name |-> x]
ResumeOf(w) == [op |-> "resume", worker |-> w]
Do(op)    == [op |-> op]

Return(v) == [op |-> "leave", answer |-> v]

BodiesOfA ==
    {<<ExportOf("x"), ExportOf("y")>>, <<ExportOf("x"), Return(None), ExportOf("y")>>,
     <<ExportOf("x"), Do("error")>>, <<ExportOf("x"), Do("yield"), ExportOf("y")>>}
BodiesOfB ==
    {<<Import("a"), ExportOf("x")>>, <<Import("a"), Do("fail"), ExportOf("x")>>,
     <<ExportOf("x"), Import("a"), Import("a")>>, <<ExportOf("x"), Return(Truthy), Import("gone")>>}
BodiesOfC ==
    {<<Import("a"), Import("b"), ExportOf("x")>>, <<Import("b"), Do("yield"), Return(Truthy)>>,
     <<ExportOf("x"), Import("b"), Import("a")>>, <<Import("gone")>>}
WorkerBodies ==
    {<<Import("a"), Do("yield"), Import("b")>>, <<Import("c"), Do("yield"), Import("c")>>,
     <<Do("yield"), Import("b"), Do("error")>>}
Scripts ==
    {<<ResumeOf(1), ResumeOf(2), Import("a"), ResumeOf(2), ResumeOf(1), Import("c")>>,
     <<ResumeOf(1), Import("c"), ResumeOf(2), Do("yield"), ResumeOf(1), ResumeOf(2)>>,
     <<Import("b"), ResumeOf(2), ResumeOf(2), ResumeOf(2), Import("c"), Import("gone")>>,
     <<Import("c"), Import("a"), ResumeOf(1), Return(None), Import("gone")>>}
MCFile == {"a", "b", "c"}
MCPrograms ==
    {[script |-> s, workers |-> <<v, w>>,
      files |-> [f \in MCFile |-> CASE f = "a" -> x [] f = "b" -> y [] OTHER -> z]] :
        s \in Scripts, v \in WorkerBodies, w \in WorkerBodies,
        x \in BodiesOfA, y \in BodiesOfB, z \in BodiesOfC}
=============================================================================
