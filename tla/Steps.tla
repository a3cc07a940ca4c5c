------------------------------- MODULE Steps -------------------------------
(***************************************************************************)
(* What a handler of the add-on does, as far as a failure half way can tell *)
(* it apart: the steps of blender_extension/operations.  A handler is the  *)
(* set of the runs it can make, a run is a sequence of steps.  The request *)
(* gives every argument the handler reads, except where the code makes one *)
(* exclude another: those are different runs.  Writes that follow each     *)
(* other, with checks between them, are written as one write and the later *)
(* checks after it; a request with nothing to do is refused where it has   *)
(* written nothing, so that check ("empty") stands before the first write. *)
(***************************************************************************)
EXTENDS Sequences

Step(do, what) == { << [do |-> do, what |-> what] >> }

A ** B   == { a \o b : a \in A, b \in B }
Nothing  == { << >> }
Maybe(A) == A \cup Nothing
\* Over a list of two: the second item meets what the first one did.
Each(A)  == A ** A

Needs(faults)  == Step("needs", faults)        \* raises for an argument the caller got wrong
Finds(what)    == Step("finds", {what})        \* raises for what the file does not have or allow
Blender(what)  == Step("blender", {what})      \* a call Blender may refuse for its own reasons
Misreads(what) == Step("misreads", {what})     \* raises for a form the server always sends
Writes(what)   == Step("writes", {what})       \* changes the file, or the disk
Bumps          == Step("bumps", {})            \* ctx.bump
Borrows(what)  == Step("borrows", {what})      \* changes what is the user's: mode, frame, settings
Changes(what)  == Writes(what) ** Bumps

\* From here to the end of the guarded steps, a failure gives `what` back (try: finally:).
Guard(what, A) == Step("guard", what) ** A ** Step("release", what)
Within(what, A) == Guard({what}, Borrows(what) ** A)

\* A reference to something of the file by id or name.
Ref(k) == Needs({k}) ** Finds(k)

\* Mutant: object_mode without its finally.
KeepsMode(A) == Finds("visible object") ** Borrows("context") ** A

\* object_mode: what is selected and active, and the mode, around a block.
InObjectMode(A) == Guard({"context"}, Finds("visible object") ** Borrows("context") ** A)
InMode(A)       == InObjectMode(Blender("mode") ** A)

\* paginate, and what the server says of a page: the cursor it only passes on.
Paged == Needs({"limit", "cursor"})
Page  == {"limit"}

\* A tool: the kind it is registered under, what the server refuses to send, the runs.
Tool(kind, op, refused, runs) == [kind |-> kind, op |-> op, refused |-> refused, runs |-> runs]
Read(op, refused, runs)     == Tool("READ", op, refused, runs)
Write(op, refused, runs)    == Tool("WRITE", op, refused, runs)
External(op, refused, runs) == Tool("EXTERNAL_SIDE_EFFECT", op, refused, runs)
=============================================================================
