---------------------------- MODULE ClassImageMC ----------------------------
(***************************************************************************)
(* Instances of ClassImage for TLC.  PoolCalls vary the constant pool and  *)
(* what is added to it, MethodCalls the methods and the kind of class,     *)
(* BadCalls and OddCalls what is wrong with the call, FullCalls the size   *)
(* of the pool.                                                            *)
(***************************************************************************)
EXTENDS ClassImage, FiniteSets

CONSTANTS
    PoolLen,       \* entries of the constant pool
    LargePools     \* entries of a constant pool that is nearly full

Order(tags) == CHOOSE n \in DOMAIN tags : tags[n] = "Utf8" /\ \A m \in 1 .. n - 1 : tags[m] # "Utf8"
TagSequences ==
    {tags \in UNION {[1 .. n -> {"Utf8", "Class", "Long"}] : n \in 2 .. PoolLen} :
        /\ \E n \in DOMAIN tags : tags[n] = "Utf8"
        /\ \E n \in DOMAIN tags :
               tags[n] = "Class" /\ \A m \in DOMAIN tags \ {n} : tags[m] # "Class"}
\* The first Utf8 is the name of the class.
PoolOf(tags, name) ==
    LET at == Order(tags)
        index == at + Cardinality({n \in 1 .. at - 1 : tags[n] = "Long"})
    IN  [n \in DOMAIN tags |->
            CASE tags[n] = "Class" -> Entry("Class", index, 0, "class")
              [] n = at -> Entry("Utf8", 0, 0, name)
              [] OTHER -> Entry(tags[n], 0, 0, "other")]

Method(name, descr, code_len, newarrays, returns) ==
    [name |-> name, descr |-> descr, code_len |-> code_len, tables |-> 4, newarrays |-> newarrays,
     returns |-> returns, widening |-> 0, frames |-> 0, malformed |-> FALSE]
Abstract == Method("other", "()V", 0, 0, 0)
Empty(name) == Method(name, "()V", 1, 0, 1)
\* n times iconst, newarray, pop; return.
Allocating(name, n) == Method(name, "(I)V", 4 * n + 1, n, 1)
\* With a frame after every nine, which has to become a wider one: of 8000 these
\* are what does not fit the output.
Framed(n) ==
    [Allocating("other", n) EXCEPT !.tables = 4 + 8 + n \div 9, !.frames = 2 * (n \div 9)]
\* The length of one array is the length of the next: iconst, n times newarray
\* and arraylength; pop, return.
Nested(n) == Method("nested", "(I)V", 3 * n + 3, n, 1)
Widened == [Method("other", "()V", 40, 1, 2) EXCEPT !.widening = 5]
Malformed == [Method("other", "()V", 40, 1, 2) EXCEPT !.malformed = TRUE]
Names == {"<init>", "<clinit>", "finalize", "currentThread"}
Shapes == {Abstract} \cup {Empty(name) : name \in Names} \cup {Allocating(name, 1) : name \in Names}
             \cup {Allocating("other", 200), Framed(8000), Nested(900), Widened, Malformed}

Call(function, name, entries, methods) ==
    [function |-> function, name |-> name, given |-> name, methods |-> methods,
     pool |-> PoolOf(entries, name),
     this_class |-> CHOOSE n \in DOMAIN entries : entries[n] = "Class",
     orphan |-> name = "java/lang/Object", dotted |-> {},
     fields |-> 0, interface |-> FALSE, system_class |-> FALSE, trackers |-> {"obj_init", "newarray"},
     newarray_sig |-> "(Ljava/lang/Object;)V",
     class_number |-> 3, callback |-> FALSE, magic |-> TRUE, version |-> 50,
     badArgument |-> FALSE, empty |-> FALSE]
Plain == Call("java_crw_demo", "Plain", <<"Class", "Utf8">>, <<Allocating("other", 1)>>)

PoolCalls ==
    {[Call(function, "Plain", tags, <<Allocating("other", 2)>>) EXCEPT
         !.trackers = trackers, !.class_number = number] :
        function \in {"java_crw_demo", "java_crw_demo_classname"}, tags \in TagSequences,
        trackers \in {{"newarray"}, {"obj_init", "newarray"}, Kinds}, number \in {3, 40000}}
MethodCalls ==
    {[Call("java_crw_demo", name, <<"Class", "Utf8">>, methods) EXCEPT
         !.system_class = system, !.interface = interface, !.callback = callback] :
        name \in {"java/lang/Object", "java/lang/Thread", "Plain"},
        methods \in UNION {[1 .. n -> Shapes] : n \in 0 .. 2},
        system \in BOOLEAN, interface \in BOOLEAN, callback \in BOOLEAN}
BadCalls ==
    {[Plain EXCEPT !.magic = magic, !.version = version, !.badArgument = bad, !.empty = empty,
                   !.function = function] :
        magic \in BOOLEAN, version \in {49, 52}, bad \in BOOLEAN, empty \in BOOLEAN,
        function \in {"java_crw_demo", "java_crw_demo_classname"}}
\* Names and signatures that are not what they should be, and no name at all.
OddCalls ==
    {[Plain EXCEPT !.given = given, !.orphan = orphan, !.dotted = dotted, !.newarray_sig = sig,
                   !.interface = interface, !.function = function, !.trackers = trackers] :
        given \in {"Plain", "other"}, orphan \in BOOLEAN, dotted \in SUBSET {"name", "tclass_name"},
        sig \in {"(Ljava/lang/Object;)V", "(Ljava/lang/Object;II)V"}, interface \in BOOLEAN,
        function \in {"java_crw_demo", "java_crw_demo_classname"},
        trackers \in {{"obj_init"}, {"newarray"}}}
    \cup {[Plain EXCEPT !.given = "none", !.dotted = dotted, !.interface = interface,
                        !.methods = methods] :
             dotted \in SUBSET {"tclass_name", "image"}, interface \in BOOLEAN,
             methods \in {<< >>, <<Allocating("other", 1)>>}}
SizedPool(size, tag) ==
    PoolOf([n \in 1 .. size |-> CASE n = 1 -> "Class" [] n = 2 -> "Utf8" [] OTHER -> tag], "Plain")
FullCalls ==
    {[Plain EXCEPT !.function = function, !.pool = SizedPool(size, "Integer")] :
        function \in {"java_crw_demo", "java_crw_demo_classname"}, size \in LargePools}
UnknownCalls ==
    {[Plain EXCEPT !.function = function, !.version = version, !.pool = SizedPool(3, "unknown")] :
        function \in {"java_crw_demo", "java_crw_demo_classname"}, version \in {50, 52}}
AllText ==
    Kinds \cup Names \cup {"none", "number", "tclass", "(Ljava/lang/Object;)V", "(Ljava/lang/Object;II)V",
                        "(II)V", "class", "other", "nested", "()V", "(I)V", "Plain", "java/lang/Object",
                        "java/lang/Thread"}
CallsToServe ==
    PoolCalls \cup MethodCalls \cup BadCalls \cup OddCalls \cup FullCalls \cup UnknownCalls
=============================================================================
