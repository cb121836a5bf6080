----------------------------- MODULE MCStartup -----------------------------
(* Small texts and environments for Startup. *)
EXTENDS Startup

Item(key, val) == [kind |-> "item", key |-> key, val |-> val]
Num(n)         == [is |-> "num", n |-> n, len |-> Len(ToString(n))]
Name(w, n)     == [is |-> "word", w |-> w, len |-> n]
Word(w)        == Name(w, Len(w))
Addr(p, f, n)  == [is |-> "addr", proto |-> p, fault |-> f, n |-> n, len |-> 20]

ListenHead == [kind |-> "head", name |-> "listen", end |-> "]"]
ServerHead == [kind |-> "head", name |-> "server", end |-> ""]
Tcp80      == Item("0", Addr("tcp", "none", 80))

\* Lines that open, close, repeat and spoil sections.
Lines ==
  {ListenHead, ServerHead, [kind |-> "head", name |-> "listen", end |-> "] "],
   Tcp80, Item("0", Addr("udp", "none", 53)), Item("", Num(1)),
   Item("tcp.in.recv_buf.init", Num(20000000)), Item("worker.thread_count", Num(-1)),
   [kind |-> "blank"], [kind |-> "stub"], [kind |-> "single"], [kind |-> "text"]}

\* Addresses with each of their faults, and none.
Values ==
  {Addr("tcp", "none", n) : n \in {80, 0, 65536}} \cup
  {Addr("udp", "none", 53), Addr("udp", "digit", 0), Addr("tcp", "colon", 0),
   Addr("tcp", "ip", 80), Addr("other", "none", 80), Word(""), Word("80")}

ParserTexts == UNION {[1 .. n -> Lines] : n \in 0 .. 4}

ListenTexts ==
  {<<ListenHead>> \o [i \in 1 .. n |-> Item(ToString(i - 1), v[i])] :
     n \in 0 .. 3, v \in [1 .. 3 -> Values]}

Plain == <<ListenHead, Tcp80>>

Module(v)  == Plain \o <<ServerHead, Item("module", v)>>
Core(v)    == Plain \o <<ServerHead, Item("library.core", v)>>

Exe(len, ext) == [len |-> len, ext |-> ext, hidden |-> FALSE]

Full == {"gr_version", "gr_proc", "gr_config", "gr_library_init"}

Usual ==
  [memory |-> FALSE, text |-> Plain, files |-> {IniPath, ModulePath},
   exports |-> (ModulePath :> Full), configOk |-> TRUE, coreOk |-> TRUE,
   version |-> FALSE, others |-> FALSE, number |-> 1, exe |-> Exe(20, 4), fail |-> "none"]

Fails == {"none", "exe", "chdir", "open", "read", "invoke"} \cup Blocks

\* Lengths of a name around the room there is for it.
Lengths == {3, 253, 254, 259, 260}

\* Any text, from memory unless it is empty; any list of addresses, from the file.
FaultyTextEnvs ==
  {[Usual EXCEPT !.text = t, !.memory = (t # <<>>)] : t \in ParserTexts}

ListenEnvs == {[Usual EXCEPT !.text = t] : t \in ListenTexts}

\* Any failure, with each source of the text.
FailEnvs ==
  {[Usual EXCEPT !.fail = f, !.memory = m, !.files = fs, !.exports = (DllName(ModulePath) :> s),
                 !.configOk = c, !.version = v, !.others = v] :
     f \in Fails, m \in BOOLEAN, fs \in SUBSET {IniPath, ModulePath},
     s \in {Full, {}}, c \in BOOLEAN, v \in BOOLEAN}

\* Any user's module: given, configured, beside the executable, or missing.
ModuleEnvs ==
  {[Usual EXCEPT !.version = v, !.others = o, !.number = n, !.text = t, !.files = fs,
                 !.exports = (DllName("own") :> s @@ DllName(ModulePath) :> s @@ ModulePath :> s),
                 !.exe = x] :
     v \in BOOLEAN, o \in BOOLEAN, n \in {0, 1, 256},
     t \in {Plain, Module(Word("own")), Module(Num(5)), Module(Word(""))},
     fs \in {{IniPath}, {IniPath, ModulePath}, {ModulePath}}, s \in {Full, {"gr_proc_http"}, {"gr_version"}},
     x \in {Exe(n, 0) : n \in {4, 5, 8, 9, 20, 240, 241, 246, 247, 258}}
             \cup {Exe(250, 4), [len |-> 20, ext |-> 5, hidden |-> TRUE]}}

\* Any core library, with a module that may fail after it.
CoreEnvs ==
  {[Usual EXCEPT !.text = t, !.coreOk = ok, !.number = n, !.fail = f,
                 !.files = {IniPath, ModulePath} \cup fs,
                 !.exports = (DllName("library") :> s @@ DllName("core") :> s @@ @)] :
     t \in {Plain, Core(Word("core")), Core(Word(""))}, ok \in BOOLEAN, n \in {0, 1}, f \in Fails,
     fs \in SUBSET {"library", "core"}, s \in {Full, {}}}

\* No ini file; the user's module beside the executable could configure the server.
SourceEnvs == {[Usual EXCEPT !.files = {ModulePath}]}

\* Names of any length, of files there are and of what is left of one that is cut, for a library
\* of classes or the module, which may be given already.
LongEnvs ==
  {[Usual EXCEPT !.text = t, !.files = {IniPath, "long"}, !.version = g, !.others = g,
                 !.exports = (DllName("long") :> s @@ DllName(Copied(Name("long", 260)).w) :> s)] :
     t \in {Module(Name("long", n)) : n \in Lengths} \cup {Core(Name("long", n)) : n \in Lengths},
     s \in {Full, {}}, g \in BOOLEAN}

AllEnvs == <<FaultyTextEnvs, ListenEnvs, FailEnvs, ModuleEnvs, CoreEnvs, LongEnvs, SourceEnvs>>
=============================================================================
