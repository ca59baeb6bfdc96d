----------------------------- MODULE ClassImage -----------------------------
(***************************************************************************)
(* The class image reader and writer of java_crw_demo.c: java_crw_demo     *)
(* copies a class file from input to output and injects calls into its     *)
(* methods, java_crw_demo_classname reads the name of a class.  Both read  *)
(* the constant pool into a mirror table; java_crw_demo adds the entries   *)
(* the injected calls refer to.                                            *)
(*                                                                         *)
(* A class is the entries of its constant pool and its methods; positions  *)
(* are bytes as in the code.  What happens inside the byte code of one     *)
(* method is modelled by MethodInjection and CodeAttributes; here a method *)
(* is the number of its injection sites and what its code and tables grow  *)
(* by.  assert_error reads the name of the current method, so an assertion *)
(* outside of one stops the program ("crashed"); the fatal error handler   *)
(* does not return ("fatal", and "out_of_memory" when malloc failed).      *)
(* Every image is as long as its parts say, and its indices are in range.  *)
(***************************************************************************)
EXTENDS Integers, Sequences

CONSTANTS
    Calls,      \* calls of the two functions, with the class they are given
    MAXIMUM_NEW_CPOOL_ENTRIES,
    U2Mod,      \* values of a CrwCpoolIndex, 65536
    Slack,      \* bytes added to twice the input, 512
    Text,       \* names and signatures
    TextLen     \* bytes of a name or signature in the constant pool

\* "unknown" stands for the tags the code does not know.
Tags == {"Utf8", "Class", "Integer", "Long", "NameAndType", "Methodref", "unknown"}
Kinds == {"obj_init", "newarray", "call", "return"}

-----------------------------------------------------------------------------
\* The input.

Entry(tag, index1, index2, text) ==
    [tag |-> tag, index1 |-> index1, index2 |-> index2, text |-> text]
Entries == [tag : Tags, index1 : Nat, index2 : Nat, text : Text]
\* tables: bytes of what follows the byte code; newarrays, returns: sites; widening
\* and frames: bytes that branches and switches, and stack map frames, grow by;
\* malformed: an assertion or a fatal error is met inside the method.
MethodInfos ==
    [name : Text, descr : Text, code_len : Nat, tables : Nat, newarrays : Nat, returns : Nat,
     widening : Int, frames : Nat, malformed : BOOLEAN]

Slots(tag) == IF tag = "Long" THEN 2 ELSE 1
EntryBytes(tag) ==
    CASE tag = "Utf8" -> 3 + TextLen
      [] tag = "Class" -> 3
      [] tag = "Long" -> 9
      [] OTHER -> 5
\* The sum of the first n of a sequence of numbers.
SumTo(numbers, n) ==
    LET sum[k \in 0 .. n] == IF k = 0 THEN 0 ELSE sum[k-1] + numbers[k] IN sum[n]

SlotsOf(entries) == [n \in 1 .. Len(entries) |-> Slots(entries[n].tag)]
BytesOf(entries) == [n \in 1 .. Len(entries) |-> EntryBytes(entries[n].tag)]
\* The index the class file format gives to entry n of a sequence of entries.
IndexOf(entries, n) == 1 + SumTo(SlotsOf(entries), n - 1)
CountOf(entries) == IndexOf(entries, Len(entries) + 1)
PoolBytes(entries) == SumTo(BytesOf(entries), Len(entries))

\* access, name, descriptor and attribute count; then the head of the Code
\* attribute, the byte code and its tables.
CodeHead == 14
MethodBytes(m) == 8 + (IF m.code_len = 0 THEN 0 ELSE CodeHead + m.code_len + m.tables)
\* The first n methods of a class.
MethodsTo(methods, n) == SumTo([k \in 1 .. Len(methods) |-> MethodBytes(methods[k])], n)
FileLen(c) ==
    10 + PoolBytes(c.pool) + 8 + c.fields + 2 + MethodsTo(c.methods, Len(c.methods)) + 2

\* The entries for a class number, the tracker class and four trackers have room:
\* in a table with MAXIMUM_NEW_CPOOL_ENTRIES more than it needs, and in Slack.
NewBytes == 5 + (3 + TextLen) + 3 + 4 * (2 * (3 + TextLen) + 5 + 5)
ASSUME SizesAssumption ==
    /\ U2Mod \in Nat /\ MAXIMUM_NEW_CPOOL_ENTRIES \in 20 .. U2Mod - 1
    /\ Slack \in Nat /\ TextLen \in Nat /\ NewBytes <= Slack
ASSUME TextAssumption ==
    Kinds \cup {"none", "number", "tclass", "(Ljava/lang/Object;)V", "(II)V"} \subseteq Text
\* A class file counts its constant pool in 16 bits, its name is in the pool, and
\* of a method at most the padding of switches goes away.  given: the name the
\* caller passes, "none" for NULL; name: the name in the image; dotted: which names
\* have a '.', the one given, the tracker class's or the one in the image; orphan:
\* there is no super class.
ASSUME CallsAssumption ==
    \A c \in Calls :
        /\ c.function \in {"java_crw_demo", "java_crw_demo_classname"}
        /\ c.trackers \subseteq Kinds /\ c.newarray_sig \in Text
        /\ c.dotted \subseteq {"name", "tclass_name", "image"} /\ ("name" \in c.dotted => c.given # "none")
        /\ {c.given, c.name} \subseteq Text /\ c.name \notin {"none", "image"}
        /\ {c.version, c.class_number, c.fields} \subseteq Nat
        /\ c.pool \in Seq(Entries) /\ CountOf(c.pool) < U2Mod
        /\ c.this_class \in DOMAIN c.pool
        /\ \E n \in DOMAIN c.pool :
               c.pool[n].text = c.name /\ c.pool[c.this_class].index1 = IndexOf(c.pool, n)
        /\ c.methods \in Seq(MethodInfos)
        /\ \A k \in DOMAIN c.methods :
               /\ c.methods[k].code_len + c.methods[k].widening >= 0
               /\ c.methods[k].tables >= 4

VARIABLES
    call,             \* the call being served
    phase,            \* what is done next, or how the call ended
    i,                \* cpool_setup: index of the next entry; then: next method
    cpool,            \* ci->cpool: the mirror table
    cpool_count_plus_one,
    tracker_index,    \* ci->..._tracker_index by kind, 0 when not configured
    output,           \* entries of the constant pool in the output
    header_count,     \* the count in front of them
    input_position, output_position,
    injected,         \* methods with an injection: ci->injection_count # 0
    heap,             \* what is allocated
    result,           \* what the caller gets: "none", "image" or a name
    called_back       \* the counts mnum_callback was called with

vars == <<call, phase, i, cpool, cpool_count_plus_one, tracker_index, output, header_count,
          input_position, output_position, injected, heap, result, called_back>>

pool == <<cpool, cpool_count_plus_one, tracker_index, output, header_count>>
positions == <<input_position, output_position>>
results == <<injected, result, called_back>>

file_len == FileLen(call)
\* As much as the input and Slack, and twice the input and Slack.
short_max_length == file_len + Slack
max_length == file_len * 2 + Slack

Object(what, at) == [what |-> what, at |-> at]

-----------------------------------------------------------------------------
Init ==
    /\ call \in Calls
    /\ phase = "interface"
    /\ i = 1
    /\ cpool = << >>
    /\ cpool_count_plus_one = 0
    /\ tracker_index = [kind \in Kinds |-> 0]
    /\ output = << >>
    /\ header_count = 0
    /\ input_position = 0
    /\ output_position = 0
    /\ injected = {}
    /\ heap = {}
    /\ result = "none"
    /\ called_back = {}

\* CRW_ASSERT outside a method: assert_error dereferences current_mi, NULL there.
AssertFails ==
    /\ phase' = "crashed"
    /\ UNCHANGED <<call, i, pool, positions, results, heap>>

\* CRW_FATAL.
FatalError ==
    /\ phase' = "fatal"
    /\ UNCHANGED <<call, i, pool, positions, results, heap>>

\* "Ran out of malloc memory", in a step that allocates.
OutOfMemory ==
    /\ phase' = "out_of_memory"
    /\ UNCHANGED <<call, i, pool, positions, results, heap>>

\* n more bytes do not fit the output.  CRW_ASSERT_CI finds out when the position
\* is past the end, after bytes behind the buffer have been overwritten.
Overflows(n) == output_position + n > max_length
OverflowFails(in_method) ==
    /\ phase' \in IF in_method THEN {"fatal", "crashed"} ELSE {"crashed"}
    /\ UNCHANGED <<call, i, pool, positions, results, heap>>

\* java_crw_demo_classname has no output buffer.
writes(n) == IF call.function = "java_crw_demo" THEN n ELSE 0
Copied(n) ==
    /\ input_position' = input_position + n
    /\ output_position' = output_position + writes(n)

\* The signature of a tracker: the one of newarray is configured, the others are
\* among the checked arguments that badArgument stands for.
Signature(kind) ==
    CASE kind = "newarray" -> call.newarray_sig
      [] kind = "obj_init" -> "(Ljava/lang/Object;)V"
      [] OTHER -> "(II)V"
newarray_accepted == "newarray" \in call.trackers => Signature("newarray") = "(Ljava/lang/Object;)V"

\* The checks of java_crw_demo's arguments and the first allocations; the last
\* check is the first of inject_class.
CheckInterface ==
    /\ phase = "interface"
    /\ \/ /\ call.empty
          /\ phase' = "returned"
          /\ UNCHANGED <<call, i, pool, positions, results, heap>>
       \/ /\ ~ call.empty
          /\ call.function = "java_crw_demo_classname"
          /\ phase' = "header"
          /\ UNCHANGED <<call, i, pool, positions, results, heap>>
       \/ /\ ~ call.empty
          /\ call.function = "java_crw_demo"
          /\ IF call.badArgument \/ ~ newarray_accepted THEN FatalError
             ELSE IF "name" \in call.dotted THEN AssertFails
             ELSE \/ OutOfMemory
                  \/ IF "tclass_name" \in call.dotted THEN AssertFails
                     ELSE /\ phase' = "header"
                          /\ heap' = {Object("image", 0)} \cup
                                (IF call.given = "none" THEN {} ELSE {Object("name", 0)})
                          /\ UNCHANGED <<call, i, pool, positions, results>>

\* Entries the mirror table is allocated for.
cpool_max_elements == (CountOf(call.pool) + MAXIMUM_NEW_CPOOL_ENTRIES) % U2Mod

\* Magic, versions and the count of the constant pool.  Only inject_class looks
\* at the version.  "Cannot allocate <= 0 bytes" is a fatal error.
ReadHeader ==
    /\ phase = "header"
    /\ IF ~ call.magic \/ (call.function = "java_crw_demo" /\ call.version > 50)
         THEN AssertFails
         ELSE IF cpool_max_elements = 0 THEN FatalError
         ELSE \/ OutOfMemory
              \/ /\ phase' = "cpool"
                 /\ cpool_count_plus_one' = CountOf(call.pool) % U2Mod
                 /\ header_count' = CountOf(call.pool)
                 /\ heap' = heap \cup {Object("cpool", 0)}
                 /\ Copied(10)
                 /\ UNCHANGED <<call, i, cpool, tracker_index, output, results>>

-----------------------------------------------------------------------------
\* cpool_setup.

\* fillin_cpool_entry.
Filled(table, at, e) == [j \in DOMAIN table \cup {at} |-> IF j = at THEN e ELSE table[j]]
Texts(table) == {Object("text", at) : at \in {j \in DOMAIN table : table[j].tag = "Utf8"}}

ReadEntry ==
    /\ phase = "cpool"
    /\ i < cpool_count_plus_one
    /\ LET e == call.pool[Len(output) + 1]
       IN  \/ e.tag = "unknown" /\ FatalError
           \/ e.tag = "Utf8" /\ OutOfMemory
           \/ /\ e.tag # "unknown"
              /\ cpool' = Filled(cpool, i, e)
              /\ output' = Append(output, e)
              /\ heap' = heap \cup Texts(cpool')
              /\ i' = i + Slots(e.tag)
              /\ Copied(EntryBytes(e.tag))
              /\ \/ phase' = phase
                 \* behind the table: whatever was there is overwritten
                 \/ i >= cpool_max_elements /\ phase' = "crashed"
              /\ UNCHANGED <<call, cpool_count_plus_one, tracker_index, header_count, results>>

\* A pool has room for an entry: the two assertions on the count.
HasRoom(p, count) == count < cpool_max_elements /\ p.count > 0 /\ p.count < count

\* An entry one place too high in the mirror table.
add_high_cpool_entry(p, e) ==
    LET count == (p.count + 1) % U2Mod
    IN  [cpool |-> Filled(p.cpool, count, e), count |-> count,
         output |-> Append(p.output, e), full |-> p.full \/ ~ HasRoom(p, count)]

\* add_new_cpool_entry on a pool p: mirror, count and output; full when an
\* assertion fails.
add_new_cpool_entry(p, e) ==
    LET count == (p.count + 1) % U2Mod
    IN  [cpool |-> Filled(p.cpool, p.count, e), count |-> count,
         output |-> Append(p.output, e), full |-> p.full \/ ~ HasRoom(p, count)]

\* add_new_class_cpool_entry; the class is the last entry added.
add_new_class_cpool_entry(p, name) ==
    add_new_cpool_entry(add_new_cpool_entry(p, Entry("Utf8", 0, 0, name)),
                        Entry("Class", p.count, 0, "none"))

\* A name and a descriptor in the wrong order.
add_swapped_cpool_entry(p, class_index, name, descr) ==
    LET named == add_new_cpool_entry(p, Entry("Utf8", 0, 0, name))
        typed == add_new_cpool_entry(named, Entry("Utf8", 0, 0, descr))
        both == add_new_cpool_entry(typed, Entry("NameAndType", named.count, p.count, "none"))
    IN  add_new_cpool_entry(both, Entry("Methodref", class_index, typed.count, "none"))

\* add_new_method_cpool_entry; the method is the last entry added.
add_new_method_cpool_entry(p, class_index, name, descr) ==
    LET named == add_new_cpool_entry(p, Entry("Utf8", 0, 0, name))
        typed == add_new_cpool_entry(named, Entry("Utf8", 0, 0, descr))
        both == add_new_cpool_entry(typed, Entry("NameAndType", p.count, named.count, "none"))
    IN  add_new_cpool_entry(both, Entry("Methodref", class_index, typed.count, "none"))

LastIndex(p) == p.count - 1

\* The class number is in the pool when a short constant cannot hold it.
NumberInPool == call.trackers \cap {"call", "return"} # {} /\ call.class_number > 32767

AddTracker(added, kind, class_index) ==
    LET extended == add_new_method_cpool_entry(added.pool, class_index, kind, Signature(kind))
    IN  IF kind \in call.trackers
          THEN [pool |-> extended, index |-> [added.index EXCEPT ![kind] = LastIndex(extended)]]
          ELSE added

\* All that cpool_setup adds, and the indices it remembers.
NewPool(p) ==
    LET numbered == IF NumberInPool
                      THEN add_new_cpool_entry(p, Entry("Integer", 0, 0, "number")) ELSE p
        classed == add_new_class_cpool_entry(numbered, "tclass")
        class_index == LastIndex(classed)
        inited == AddTracker([pool |-> classed, index |-> tracker_index], "obj_init", class_index)
        arrayed == AddTracker(inited, "newarray", class_index)
        called == AddTracker(arrayed, "call", class_index)
    IN  AddTracker(called, "return", class_index)

\* The count in front of the pool, when the trackers' entries are forgotten.
OldHeaderCount(new) == CountOf(call.pool)
HeaderCount(new) == new.count

\* The rest of cpool_setup: java_crw_demo_classname configures no trackers.
AddTrackers ==
    /\ phase = "cpool"
    /\ i >= cpool_count_plus_one
    /\ LET old == [cpool |-> cpool, count |-> cpool_count_plus_one, output |-> output, full |-> FALSE]
           new == NewPool(old)
       IN  \/ /\ call.function = "java_crw_demo_classname"
              /\ phase' = "class"
              /\ i' = 1
              /\ UNCHANGED <<call, pool, positions, results, heap>>
           \/ call.function = "java_crw_demo" /\ OutOfMemory
           \/ /\ call.function = "java_crw_demo"
              /\ IF new.pool.full
                   THEN AssertFails
                   ELSE /\ phase' = "class"
                        /\ i' = 1
                        /\ cpool' = new.pool.cpool
                        /\ cpool_count_plus_one' = new.pool.count
                        /\ tracker_index' = new.index
                        /\ output' = new.pool.output
                        /\ header_count' = HeaderCount(new.pool)
                        /\ heap' = heap \cup Texts(cpool')
                        /\ output_position' = output_position
                               + PoolBytes(new.pool.output) - PoolBytes(output)
                        /\ UNCHANGED <<call, input_position, results>>

\* cpool_entry, for the name of the class.
this_class == IndexOf(call.pool, call.this_class)
NameOfEntry(class) == cpool[class].text
NameOf(class) == cpool[cpool[class].index1].text

-----------------------------------------------------------------------------
\* After the constant pool.

\* java_crw_demo_classname: its result is the name, which the caller frees.
ReadClassName ==
    /\ phase = "class"
    /\ call.function = "java_crw_demo_classname"
    /\ \/ OutOfMemory
       \/ /\ phase' = "cleanup"
          /\ result' = NameOf(this_class)
          /\ heap' = heap \cup {Object("result", 0)}
          /\ Copied(4)
          /\ UNCHANGED <<call, i, pool, injected, called_back>>

\* A class without a super class is Object.
is_object_class == call.orphan
is_thread_class == call.given = "java/lang/Thread"

\* The name given is the one in the image; one taken from there has no '.'.  Only
\* Object has no super class.
NameAgrees ==
    /\ call.given \in {"none", NameOf(this_class)}
    /\ call.given = "none" => "image" \notin call.dotted
    /\ is_object_class => NameOf(this_class) = "java/lang/Object"

\* inject_class: access flags, names, interfaces and fields.  An interface is
\* left as it is.
ReadClass ==
    /\ phase = "class"
    /\ call.function = "java_crw_demo"
    /\ \/ /\ call.interface
          /\ phase' = "cleanup"
          /\ Copied(2)
          /\ UNCHANGED <<call, i, pool, results, heap>>
       \/ /\ ~ call.interface
          /\ ~ NameAgrees
          /\ AssertFails
       \/ /\ ~ call.interface
          /\ call.given = "none" \/ call.methods # << >>
          /\ OutOfMemory
       \/ /\ ~ call.interface
          /\ NameAgrees
          /\ phase' = "methods"
          /\ Copied(8 + call.fields + 2)
          /\ heap' = heap
                \cup (IF call.given = "none" THEN {Object("name", 0)} ELSE {})
                \cup (IF call.methods = << >> THEN {}
                      ELSE {Object("method_name", 0), Object("method_descr", 0)})
          /\ UNCHANGED <<call, i, pool, results>>

\* skip_method.
object_init_method(m) == is_object_class /\ m.name = "<init>" /\ m.descr = "()V"
skip_method(m) ==
    /\ call.system_class
    /\ \/ m.code_len = 1 /\ m.name \in {"<init>", "finalize"}
       \/ m.name = "<clinit>"
       \/ is_thread_class /\ m.name = "currentThread"
Skipped(m) == ~ object_init_method(m) /\ skip_method(m)

\* push_short_constant_bytecodes, push_pool_constant_bytecodes: their lengths.
push_short(number) == IF number <= 5 THEN 1 ELSE IF number <= 127 THEN 2 ELSE 3
push_pool(index) == IF index <= 127 THEN 2 ELSE 3

\* injection_template: the length of a call of a tracker; dup and aload_0 are a
\* byte, an invokestatic three.
injection_template(kind, mnum) ==
    IF tracker_index[kind] = 0 THEN 0
    ELSE IF kind \in {"obj_init", "newarray"} THEN 4
    ELSE 3 + push_short(mnum)
           + (IF NumberInPool THEN push_pool(CountOf(call.pool)) ELSE push_short(call.class_number))

\* How often a call of each kind is injected into method m.
Sites(m) ==
    [kind \in Kinds |->
        CASE kind = "obj_init" -> IF object_init_method(m) THEN 1 ELSE 0
          [] kind = "call" -> IF object_init_method(m) THEN 0 ELSE 1
          [] kind = "return" -> IF object_init_method(m) THEN 0 ELSE m.returns
          [] kind = "newarray" -> m.newarrays]
Injects(m) == \E kind \in Kinds : tracker_index[kind] # 0 /\ Sites(m)[kind] > 0
\* How much longer method m gets.
Growth(m, mnum) ==
    Sites(m)["obj_init"] * injection_template("obj_init", mnum)
    + Sites(m)["newarray"] * injection_template("newarray", mnum)
    + Sites(m)["call"] * injection_template("call", mnum)
    + Sites(m)["return"] * injection_template("return", mnum)
    + m.widening + m.frames

\* What is left of a skipped method's Code attribute behind max_stack, max_locals
\* and code_length; and when those are counted twice.
attr_len(m) == 8 + m.code_len + m.tables
WholeRest(m) == attr_len(m)
SkippedRest(m) == attr_len(m) - (2 + 2 + 4)

\* method_init, and the code inject_bytecodes collects: allocated for method k.
MethodParts == {"mi", "map", "widening", "injections"}
method_init(k) ==
    {Object(part, k) : part \in MethodParts}
        \cup (IF Injects(call.methods[k]) THEN {Object("injected code", k)} ELSE {})
\* method_term; and one that frees the table of injections but not what is in it.
method_term_shallow(objects, k) == objects \ {Object(part, k) : part \in MethodParts}
method_term(objects, k) ==
    objects \ {Object(part, k) : part \in MethodParts \cup {"injected code"}}

\* method_write with method_write_bytecodes for the Code attribute.
MethodWritten(m, growth) ==
    /\ i' = i + 1
    /\ input_position' = input_position
          + IF m.code_len > 0 /\ Skipped(m) THEN 8 + CodeHead + SkippedRest(m) ELSE MethodBytes(m)
    /\ output_position' = output_position + (input_position' - input_position) + growth
    /\ UNCHANGED <<call, phase, pool, result, called_back>>

method_write ==
    /\ phase = "methods"
    /\ i <= Len(call.methods)
    /\ LET m == call.methods[i]
       IN  \/ /\ m.code_len = 0 \/ Skipped(m)
              /\ MethodWritten(m, 0)
              /\ UNCHANGED <<injected, heap>>
           \/ /\ m.code_len > 0 /\ ~ Skipped(m)
              /\ \/ OutOfMemory
                 \/ m.malformed /\ FatalError
                 \/ /\ ~ m.malformed /\ Overflows(MethodBytes(m) + Growth(m, i - 1))
                    /\ OverflowFails(TRUE)
                 \/ /\ ~ m.malformed /\ ~ Overflows(MethodBytes(m) + Growth(m, i - 1))
                    /\ MethodWritten(m, Growth(m, i - 1))
                    /\ heap' = method_term(heap \cup method_init(i), i)
                    /\ injected' = IF Injects(m) THEN injected \cup {i} ELSE injected

\* The end of method_write_all and of inject_class.  A class nothing was
\* injected into is not written to the end.
Unchanged == injected = {}

FinishMethods ==
    /\ phase = "methods"
    /\ i > Len(call.methods)
    /\ IF ~ Unchanged /\ Overflows(2)
         THEN OverflowFails(FALSE)
         ELSE /\ phase' = "cleanup"
              /\ called_back' = IF call.callback THEN {Len(call.methods)} ELSE {}
              /\ IF Unchanged
                   THEN UNCHANGED <<positions, result>>
                   ELSE result' = "image" /\ Copied(2)
              /\ UNCHANGED <<call, i, pool, injected, heap>>

\* What cleanup frees: the texts of the entries in the count it is given.
Freed(count) ==
    {Object(what, 0) : what \in {"name", "method_name", "method_descr", "cpool"}}
        \cup {Object("text", at) : at \in 0 .. count - 1}
\* cleanup, with the count of the input's constant pool.
cleanup_input(objects) == objects \ Freed(CountOf(call.pool))
cleanup(objects) == objects \ Freed(cpool_count_plus_one)

\* The image is shrunk or freed, and everything else is freed.
Return ==
    /\ phase = "cleanup"
    /\ \/ result = "image" /\ OutOfMemory
       \/ /\ phase' = "returned"
          /\ heap' = cleanup(IF result = "none" THEN heap \ {Object("image", 0)} ELSE heap)
          /\ UNCHANGED <<call, i, pool, positions, results>>

-----------------------------------------------------------------------------
Step ==
    \/ CheckInterface \/ ReadHeader \/ ReadEntry \/ AddTrackers
    \/ ReadClassName \/ ReadClass \/ method_write \/ FinishMethods \/ Return

Ended == {"returned", "fatal", "out_of_memory", "crashed"}
Stopped == phase \in Ended /\ UNCHANGED vars

Next == Step \/ Stopped

Spec == Init /\ [][Next]_vars /\ WF_vars(Step)

-----------------------------------------------------------------------------
\* Properties.

\* The constant pool and the new entries are more than 16 bits can count.
PoolFull == CountOf(call.pool) + MAXIMUM_NEW_CPOOL_ENTRIES >= U2Mod

\* Every variable has its type, and every entry its place in the mirror table: under
\* the count, and inside of what was allocated for the table unless 16 bits cannot
\* count that.
TypeOK ==
    /\ phase \in {"interface", "header", "cpool", "class", "methods", "cleanup"} \cup Ended
    /\ i \in Nat \ {0}
    /\ \A at \in DOMAIN cpool :
           0 < at /\ at < cpool_count_plus_one /\ (at < cpool_max_elements \/ PoolFull)
    /\ cpool_count_plus_one \in 0 .. U2Mod - 1
    /\ tracker_index \in [Kinds -> Nat]
    /\ {input_position, output_position, header_count} \subseteq Nat
    /\ injected \subseteq DOMAIN call.methods

PoolDone == phase \in {"class", "methods", "cleanup"}

\* The mirror table agrees with the pool in the output: a reader that counts the
\* entries, two for a long, finds as many as the count says, and finds under
\* every index what the table has there.
PoolMirrorsOutput ==
    PoolDone =>
        /\ header_count = CountOf(output)
        /\ \A n \in DOMAIN output : cpool[IndexOf(output, n)] = output[n]

\* The index in an injected call resolves, entry by entry, to the tracker of its
\* kind: class, name and signature.
TrackersResolve ==
    (PoolDone /\ call.function = "java_crw_demo") =>
        \A kind \in call.trackers :
            LET method == cpool[tracker_index[kind]]
                typed == cpool[method.index2]
            IN  /\ method.tag = "Methodref" /\ typed.tag = "NameAndType"
                /\ NameOf(method.index1) = "tclass"
                /\ cpool[typed.index1].text = kind
                /\ cpool[typed.index2].text = Signature(kind)

\* The class name reader returns the class's name, whatever is in front of it in
\* the constant pool.
NameRead == result \notin {"none", "image"} => result = call.name

\* An image is returned if and only if a call was injected into some method, and
\* then the whole input was read: what skipped methods and injected methods
\* account for adds up to the file.  The callback hears of all methods of a class,
\* with an image or without.
ImageComplete ==
    (phase = "returned" /\ call.function = "java_crw_demo") =>
        /\ result = "image" <=> injected # {}
        /\ result = "image" => input_position = file_len
        /\ called_back = IF call.callback /\ ~ call.interface /\ ~ call.empty
                           THEN {Len(call.methods)} ELSE {}

\* A call that has returned leaves allocated what the caller frees and no more.
NothingLeaked ==
    phase = "returned" =>
        heap = CASE result = "none" -> {}
                 [] result = "image" -> {Object("image", 0)}
                 [] OTHER -> {Object("result", 0)}

\* What is wrong with the arguments of java_crw_demo, and with the class it is given.
BadArguments ==
    call.badArgument \/ ~ newarray_accepted \/ call.dotted \cap {"name", "tclass_name"} # {}
BadClass ==
    \/ call.version > 50
    \/ call.given \notin {"none", call.name}
    \/ call.given = "none" /\ "image" \in call.dotted
    \/ call.orphan /\ call.name # "java/lang/Object"
    \/ \E k \in DOMAIN call.methods : call.methods[k].malformed
\* Method k grows by more than it has: calls, wider branches and wider frames.
Doubled(k) ==
    LET m == call.methods[k]
    IN  m.code_len > 0 /\ ~ Skipped(m) /\ Growth(m, k - 1) > MethodBytes(m)

\* Apart from running out of memory, which is an end of its own, a call fails on bad
\* arguments and on a file that is not the class it should be, or none the code
\* knows.  Else the new entries have room in the constant pool, which
\* MAXIMUM_NEW_CPOOL_ENTRIES brings to its limit before the entries do, and the new
\* code and its tables in the output, unless some method more than doubles: "Twice
\* as big + 512" is enough.
FailsOnBadInput ==
    phase \in {"fatal", "crashed"} =>
        \/ ~ call.magic \/ (\E n \in DOMAIN call.pool : call.pool[n].tag = "unknown")
        \/ PoolFull
        \/ /\ call.function = "java_crw_demo"
           /\ BadArguments \/ BadClass \/ \E k \in DOMAIN call.methods : Doubled(k)

\* "This callback is used to notify the caller of a fatal error": no failed
\* assertion stops the program before the handler is called.
FatalReported == phase # "crashed"
=============================================================================
