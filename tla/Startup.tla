------------------------------ MODULE Startup ------------------------------
(***************************************************************************)
(* The initialisations of gr_main and their undoing, in one process: the   *)
(* log, the configuration (from a text given by the caller, from the file  *)
(* beside the executable, or from the user's module), the library of       *)
(* classes with its optional core library, the user's module, the server.  *)
(* Each can fail; whatever was reached is undone in one fixed order.       *)
(*                                                                         *)
(* env is what the process meets.  What happens between the last           *)
(* initialisation and the first of the undoing is the subject of Daemon    *)
(* and Lifecycle and is one step here.                                     *)
(***************************************************************************)
EXTENDS Config

CONSTANT Envs
  \* What a process may meet, a tuple of sets of:
  \*   memory, text      whether the caller gives the text; the text of the source that is used
  \*   files, exports    the files that can be read; the symbols of those that can be loaded
  \*   configOk, coreOk  what gr_config and gr_library_init answer
  \*   version, others   whether the caller gives gr_version_t, and any other function
  \*   number            the version the module says it was written for
  \*   exe, fail         the executable; the one thing that fails: a call, an allocation, or the
  \*                     test that the library of classes makes of itself where "debug" is set

\* A path has a length, and a text is made of lines of the known forms.
ASSUME EnvsAssumption ==
  \A i \in DOMAIN Envs : \A e \in Envs[i] :
    e.exe.len \in Nat /\ e.exe.ext \in Nat /\ IsText(e.text)

VARIABLES
  env,
  pc,       \* where gr_main is
  r,        \* what it is going to return
  heap,     \* the blocks allocated and not freed
  dlls,     \* the libraries opened and not closed
  config,   \* g_ghost_rocket_global.config: <<>> for NULL, or one parsed text
  ports,    \* server_interface.ports
  classes,  \* who has put classes into server_interface.library
  version   \* module->version: NULL, the caller's, or the one of the module's library

vars == <<env, pc, r, heap, dlls, config, ports, classes, version>>

Steps == {"directory", "log", "config", "cOpen", "cCall", "cRead", "cDrop", "cListen",
          "library", "core", "iClasses", "iClose", "module", "mLoad", "mVersion", "mDrop",
          "server", "run", "tServer", "tModule", "tClasses", "tClose", "tConfig", "tLog",
          "ended", "crashed"}
Blocks == {"log", "ini", "content", "text", "library", "classes", "module", "server"}

\* Settings a server can be built with: a thread of each kind, a slot for its own class, replies
\* aligned to something, and a receive buffer that holds the header that is looked at first and
\* never has to shrink to its largest size.
Serviceable(ini) ==
  /\ \A k \in ThreadCount : Setting(ini, k) >= 1
  /\ Setting(ini, "library.class_max") >= 10
  /\ Setting(ini, "response.buff_align") >= 8
  /\ Setting(ini, "tcp.in.recv_buf.init") >= 4
  /\ RecvBufMax(ini) >= Setting(ini, "tcp.in.recv_buf.init")

\* The variables stay in their sets; a configuration, whatever was written, has a port to listen
\* on and settings to serve with.
TypeOK ==
  /\ pc \in Steps
  /\ heap \subseteq Blocks
  /\ dlls \subseteq {"config", "core", "module"}
  /\ classes \subseteq {"server", "core"}
  /\ version \in {"null", "caller", "dll"}
  /\ \A i \in 1 .. Len(ports) : ports[i].port \in Port
  /\ config # <<>> => /\ ports # <<>> /\ Serviceable(config[1])
                      /\ {"ini", "text"} \subseteq heap

Init ==
  /\ \E i \in DOMAIN Envs : env \in Envs[i]
  /\ pc = "directory"
  /\ r = "OK"
  /\ heap = {} /\ dlls = {} /\ classes = {}
  /\ config = <<>>
  /\ ports = <<>>
  /\ version = "null"

Fail(code) == pc' = "tServer" /\ r' = code
Go(step)   == pc' = step /\ UNCHANGED r

\* gr_calloc, for the block of that name.
Allocates(block) == env.fail # block

Loads(file, symbols) == file \in DOMAIN env.exports /\ symbols \subseteq env.exports[file]

-----------------------------------------------------------------------------
(* Directory and log *)

SetDirectory ==
  /\ pc = "directory"
  /\ IF env.fail \in {"exe", "chdir"} THEN Fail("SET_CURRENT_DIRECTORY_FAILED") ELSE Go("log")
  /\ UNCHANGED <<env, heap, dlls, config, ports, classes, version>>

OpenLog ==
  /\ pc = "log"
  /\ \/ Allocates("log") /\ heap' = heap \cup {"log"} /\ Go("config")
     \/ ~Allocates("log") /\ Fail("OPEN_LOG_FAILED") /\ UNCHANGED heap
  /\ UNCHANGED <<env, dlls, config, ports, classes, version>>

-----------------------------------------------------------------------------
(* gr_config_init *)

Source == IF env.memory THEN "memory" ELSE IF IniPath \in env.files THEN "file" ELSE "module"

NoConfig == Fail("INIT_CONFIG_FAILED")

\* The object, and for the module's text a buffer.  When there is no memory for the buffer
\* gr_config_init returns at once and keeps the object.
ConfigInit ==
  /\ pc = "config"
  /\ \/ ~Allocates("ini") /\ NoConfig /\ UNCHANGED heap
     \/ /\ Allocates("ini") /\ Source # "module"
        /\ heap' = heap \cup {"ini"} /\ Go("cRead")
     \/ /\ Allocates("ini") /\ Source = "module"
        /\ \/ Allocates("content") /\ heap' = heap \cup {"ini", "content"} /\ Go("cOpen")
           \/ ~Allocates("content") /\ heap' = heap \cup {"ini"} /\ NoConfig
  /\ UNCHANGED <<env, dlls, config, ports, classes, version>>

\* calc_module_path finds the module beside the executable.
ModuleFound == ~ModulePathRefused(env.exe) /\ ModulePath \in env.files

\* The path it finds is made into another one by gr_dll_open.
OpenConfigDll ==
  /\ pc = "cOpen"
  /\ IF /\ ModuleFound /\ ~DllPathRefused(ModulePathLen(env.exe))
        /\ Loads(DllName(ModulePath), {})
     THEN dlls' = dlls \cup {"config"} /\ Go("cCall")
     ELSE Go("cDrop") /\ UNCHANGED dlls
  /\ UNCHANGED <<env, heap, config, ports, classes, version>>

CallConfig ==
  /\ pc = "cCall"
  /\ Go(IF Loads(DllName(ModulePath), {"gr_config"}) /\ env.configOk THEN "cRead" ELSE "cDrop")
  /\ dlls' = dlls \ {"config"}
  /\ UNCHANGED <<env, heap, config, ports, classes, version>>

\* A file must be there to be opened, have something in it, and be read as a whole.
Readable == Source = "file" => env.fail \notin {"open", "read"} /\ env.text # <<>>

\* gr_ini_open, gr_ini_open_memory: a text that cannot be parsed is freed again.
ReadText ==
  /\ pc = "cRead"
  /\ IF Readable /\ Allocates("text") /\ ~Parse(env.text).bad
     THEN heap' = (heap \ {"content"}) \cup {"text"} /\ Go("cListen")
     ELSE heap' = heap \ {"content", "ini"} /\ NoConfig
  /\ UNCHANGED <<env, dlls, config, ports, classes, version>>

DropContent ==
  /\ pc = "cDrop"
  /\ heap' = heap \ {"content", "ini"}
  /\ NoConfig
  /\ UNCHANGED <<env, dlls, config, ports, classes, version>>

\* gr_ini_close frees nothing: the text stays.
Listen ==
  /\ pc = "cListen"
  /\ LET ini == Parse(env.text)
         l   == LoadListen(ini)
     IN  /\ ports' = l.ports
         /\ \/ l.r = 0 /\ config' = <<ini>> /\ Go("library") /\ UNCHANGED heap
            \/ l.r # 0 /\ heap' = heap \ {"ini"} /\ NoConfig /\ UNCHANGED config
  /\ UNCHANGED <<env, dlls, classes, version>>

\* server.module, the file of the user's module, as it fits into the buffer for its path
ConfiguredModule == NameOf(GetString(config[1], "server", "module", Absent))
ModuleName       == Copied(ConfiguredModule)

\* library.core, when there is such a file
CoreFound == ~Missing(CorePath(config[1])) /\ CorePath(config[1]).w \in env.files

\* A path put together beside the executable is too long for its buffer.
ExePathOverflows ==
  \/ pc = "config" /\ Allocates("ini") /\ ~env.memory /\ IniPathOverflows(env.exe)
  \/ pc = "cOpen" /\ ModulePathOverflows(env.exe)
  \/ pc = "mLoad" /\ Missing(ConfiguredModule) /\ ModulePathOverflows(env.exe)

\* One that gr_dll_open is given leaves no room for what it adds.
NameOverflows ==
  \/ pc = "cOpen" /\ ModuleFound /\ DllPathOverflows(ModulePathLen(env.exe))
  \/ pc = "core"  /\ CoreFound /\ DllPathOverflows(CorePath(config[1]).len)
  \/ pc = "mLoad" /\ ~Missing(ConfiguredModule) /\ DllPathOverflows(ModuleName.len)

\* What is written behind a buffer may or may not stop the process.
Smash ==
  /\ ExePathOverflows \/ NameOverflows
  /\ Go("crashed")
  /\ UNCHANGED <<env, heap, dlls, config, ports, classes, version>>

-----------------------------------------------------------------------------
(* gr_library_impl_init *)

\* gr_invoke_test in debug mode, the library object and the table of classes, with the server's
\* own class first.
LibraryInit ==
  /\ pc = "library"
  /\ \/ /\ env.fail = "invoke" \/ ~Allocates("library")
        /\ Fail("INIT_LIBRARY_FAILED")
        /\ UNCHANGED <<heap, classes>>
     \/ /\ ~Allocates("classes")
        /\ heap' = heap \cup {"library"}
        /\ Go("iClasses")
        /\ UNCHANGED classes
     \/ /\ env.fail # "invoke" /\ Allocates("library") /\ Allocates("classes")
        /\ heap' = heap \cup {"library", "classes"}
        /\ classes' = {"server"}
        /\ Go("core")
  /\ UNCHANGED <<env, dlls, config, ports, version>>

\* The file that is looked for and the library that is opened have different names.
LoadCore ==
  /\ pc = "core"
  /\ LET path == CorePath(config[1]) IN
     \/ /\ ~CoreFound \/ DllPathRefused(path.len) \/ ~Loads(DllName(path.w), {})
        /\ Go("module")
        /\ UNCHANGED <<dlls, classes>>
     \/ /\ CoreFound /\ ~DllPathRefused(path.len) /\ Loads(DllName(path.w), {})
        /\ dlls' = dlls \cup {"core"}
        /\ \/ ~Loads(DllName(path.w), {"gr_library_init"}) /\ Go("iClasses") /\ UNCHANGED classes
           \/ /\ Loads(DllName(path.w), {"gr_library_init"})
              /\ classes' = classes \cup {"core"}
              /\ Go(IF env.coreOk THEN "module" ELSE "iClasses")
  /\ UNCHANGED <<env, heap, config, ports, version>>

\* Seeded slip: the two the other way round.
DestroyClasses_CloseFirst(from, to) ==
  /\ pc = from
  /\ dlls' = dlls \ {"core"}
  /\ heap' = heap \ {"classes"}
  /\ Go(to)
  /\ UNCHANGED <<env, config, ports, classes, version>>

\* library_impl_destroy: the classes are destroyed by their own code, then that code is unloaded.
DestroyClasses(from, to) ==
  /\ pc = from
  /\ classes' = {}
  /\ heap' = heap \ {"classes"}
  /\ Go(to)
  /\ UNCHANGED <<env, dlls, config, ports, version>>

CloseCore(from) ==
  /\ pc = from
  /\ dlls' = dlls \ {"core"}
  /\ heap' = heap \ {"library"}
  /\ IF from = "iClose" THEN Fail("INIT_LIBRARY_FAILED") ELSE Go("tConfig")
  /\ UNCHANGED <<env, config, ports, classes, version>>

LibraryFails ==
  \/ DestroyClasses("iClasses", "iClose")
  \/ CloseCore("iClose")

-----------------------------------------------------------------------------
(* gr_module_init *)

\* With no function given the module is a library; else gr_version_t must be among them.
ModuleInit ==
  /\ pc = "module"
  /\ \/ ~Allocates("module") /\ Fail("INIT_MODULE_FAILED") /\ UNCHANGED <<heap, version>>
     \/ /\ Allocates("module")
        /\ heap' = heap \cup {"module"}
        /\ version' = IF env.version THEN "caller" ELSE "null"
        /\ Go(IF ~env.others THEN "mLoad" ELSE IF env.version THEN "mVersion" ELSE "mDrop")
  /\ UNCHANGED <<env, dlls, config, ports, classes>>

\* gr_config_get_module_path: the configured name, or the path of the file beside the executable,
\* which is opened as it is; "" when there is neither.
NoModuleFile == Missing(ConfiguredModule) /\ ~ModuleFound

ModuleFile == IF Missing(ConfiguredModule) THEN ModulePath ELSE DllName(ModuleName.w)

\* Without a file there is nothing to load, and whatever version function there is stays.
LoadModule ==
  /\ pc = "mLoad"
  /\ \/ NoModuleFile /\ Go("mVersion") /\ UNCHANGED <<dlls, version>>
     \/ ~NoModuleFile /\ ~Loads(ModuleFile, {}) /\ Go("mDrop") /\ UNCHANGED <<dlls, version>>
     \/ /\ ~NoModuleFile /\ Loads(ModuleFile, {})
        /\ dlls' = dlls \cup {"module"}
        /\ LET hasVersion == "gr_version" \in env.exports[ModuleFile]
               hasProc    == env.exports[ModuleFile] \cap {"gr_proc", "gr_proc_http"} # {}
           IN  /\ version' = IF hasVersion THEN "dll" ELSE "null"
               /\ Go(IF hasVersion /\ hasProc THEN "mVersion" ELSE "mDrop")
  /\ UNCHANGED <<env, heap, config, ports, classes>>

\* check_version calls it without looking whether it is there.
CheckVersion ==
  /\ pc = "mVersion"
  /\ Go(IF version = "null" THEN "crashed"
        ELSE IF env.number \in 1 .. 255 THEN "server" ELSE "mDrop")
  /\ UNCHANGED <<env, heap, dlls, config, ports, classes, version>>

\* module_unload, and the end of the object.
UnloadModule ==
  /\ version' = "null"
  /\ dlls' = dlls \ {"module"}
  /\ heap' = heap \ {"module"}

\* Seeded slip: the object goes, its library stays.
ModuleFails_StaysLoaded ==
  /\ pc = "mDrop"
  /\ version' = "null"
  /\ heap' = heap \ {"module"}
  /\ Fail("INIT_MODULE_FAILED")
  /\ UNCHANGED <<env, dlls, config, ports, classes>>

ModuleFails ==
  /\ pc = "mDrop"
  /\ UnloadModule
  /\ Fail("INIT_MODULE_FAILED")
  /\ UNCHANGED <<env, config, ports, classes>>

-----------------------------------------------------------------------------
(* gr_server_init, the server's life, and the end of gr_main *)

ServerInit ==
  /\ pc = "server"
  /\ \/ Allocates("server") /\ heap' = heap \cup {"server"} /\ Go("run")
     \/ ~Allocates("server") /\ NoConfig /\ UNCHANGED heap
  /\ UNCHANGED <<env, dlls, config, ports, classes, version>>

Run ==
  /\ pc = "run"
  /\ pc' = "tServer"
  /\ r' \in {"OK", "UNKNOWN"}
  /\ UNCHANGED <<env, heap, dlls, config, ports, classes, version>>

ServerTerm ==
  /\ pc = "tServer"
  /\ heap' = heap \ {"server"}
  /\ Go("tModule")
  /\ UNCHANGED <<env, dlls, config, ports, classes, version>>

\* An initialisation that failed has left nothing for its term to undo.
ModuleTerm ==
  /\ pc = "tModule"
  /\ IF "module" \in heap THEN UnloadModule ELSE UNCHANGED <<heap, dlls, version>>
  /\ Go("tClasses")
  /\ UNCHANGED <<env, config, ports, classes>>

LibraryTerm ==
  \/ DestroyClasses("tClasses", "tClose")
  \/ CloseCore("tClose")

ConfigTerm ==
  /\ pc = "tConfig"
  /\ heap' = IF config = <<>> THEN heap ELSE heap \ {"ini"}
  /\ config' = <<>>
  /\ Go("tLog")
  /\ UNCHANGED <<env, dlls, ports, classes, version>>

CloseLog ==
  /\ pc = "tLog"
  /\ heap' = heap \ {"log"}
  /\ Go("ended")
  /\ UNCHANGED <<env, dlls, config, ports, classes, version>>

Next ==
  \/ SetDirectory \/ OpenLog
  \/ ConfigInit \/ OpenConfigDll \/ CallConfig \/ ReadText \/ DropContent \/ Listen \/ Smash
  \/ LibraryInit \/ LoadCore \/ LibraryFails
  \/ ModuleInit \/ LoadModule \/ CheckVersion \/ ModuleFails
  \/ ServerInit \/ Run
  \/ ServerTerm \/ ModuleTerm \/ LibraryTerm \/ ConfigTerm \/ CloseLog

Spec == Init /\ [][Next]_vars

-----------------------------------------------------------------------------
(* Properties *)

IsHead(line) == line.kind = "head"
IsItem(line) == line.kind = "item" /\ line.key # ""

\* The position of the first header after position i, or of the end of the text.
NextHead(text, i) ==
  Min({j \in i + 1 .. Len(text) : IsHead(text[j])} \cup {Len(text) + 1})

\* A text with a meaning: lines of the known forms, items in sections, no more than there is
\* room for.
WellFormed(text) ==
  /\ \A i \in 1 .. Len(text) :
       /\ text[i].kind \notin {"single", "text"}
       /\ text[i].kind = "item" => \E h \in 1 .. i : IsHead(text[h])
       /\ IsHead(text[i]) =>
            Cardinality({j \in i .. NextHead(text, i) - 1 : IsItem(text[j])}) <= MaxItems
  /\ Cardinality({i \in 1 .. Len(text) : IsHead(text[i])}) <= MaxSections

\* What a text says of a key: the first line that gives it under the first header of that name.
Written(text, name, key) ==
  LET heads == {h \in 1 .. Len(text) : IsHead(text[h]) /\ SectionName(text[h]) = name}
      lines == IF heads = {} THEN {}
               ELSE {i \in Min(heads) + 1 .. NextHead(text, Min(heads)) - 1 :
                       IsItem(text[i]) /\ text[i].key = key}
  IN  IF lines = {} THEN Absent ELSE text[Min(lines)].val

Keys(text) == {text[i].key : i \in {i \in 1 .. Len(text) : text[i].kind = "item"}}

\* The numbers that a text lists.
Numbers(text) ==
  {i \in 0 .. PortMax - 1 : \A j \in 0 .. i : ~Missing(Written(text, "listen", ToString(j)))}
Address(text, i) == Written(text, "listen", ToString(i))
IsTcp(text, i)   == Address(text, i).proto = "tcp"

\* Of two listed addresses the first is bound earlier: TCP before UDP, and else in their order.
Before(text, i, j) == IF IsTcp(text, i) = IsTcp(text, j) THEN i < j ELSE IsTcp(text, i)

\* Where an address that is listed stands among the ports.
Place(text, i) == 1 + Cardinality({j \in Numbers(text) : Before(text, j, i)})

\* The listed addresses are valid, and each stands in its place.
Listens(text, list) ==
  /\ Len(list) = Cardinality(Numbers(text))
  /\ \A i \in Numbers(text) :
       /\ Bindable(Address(text, i))
       /\ list[Place(text, i)] = [tcp |-> IsTcp(text, i), port |-> Address(text, i).n]

\* A text with a meaning, and with something to listen on.
Usable(text) ==
  WellFormed(text) /\ Numbers(text) # {} /\ \A i \in Numbers(text) : Bindable(Address(text, i))

\* A configuration says what its text says: gr_ini_open2 reads on after a line it cannot read,
\* cuts the text it points into, and finds keys by position, section and order (gr_ini.c).  The
\* ports are the listed addresses, every one once, TCP before UDP and otherwise in their order:
\* load_listen_info goes over the list twice and stops at the first gap (gr_config.c), and what
\* binds the ports relies on it.  A well formed text with valid addresses is not refused.
AsWritten ==
  /\ config # <<>> =>
       /\ WellFormed(env.text)
       /\ \A name \in {"server", "listen"}, key \in Keys(env.text) :
            Find(config[1], name, key) = Written(env.text, name, key)
       /\ Listens(env.text, ports)
  /\ pc = "tServer" /\ r = "INIT_CONFIG_FAILED" /\ env.fail = "none" /\ Source # "module" =>
       ~Usable(env.text)

\* Whatever fails, gr_main gives back what it took: no library stays open and no block
\* allocated, but for the text of a configuration, which gr_ini_close keeps, and the object of
\* one for whose text there was no memory.
NothingLeft ==
  pc = "ended" =>
    /\ dlls = {} /\ classes = {}
    /\ heap \subseteq {"text"} \cup IF env.fail = "content" THEN {"ini"} ELSE {}

\* A function the server may still call is in a library that is still open: the core's classes
\* are destroyed by their own code, and the module's version is asked after it is loaded.
CodeIsLoaded ==
  /\ "core" \in classes => "core" \in dlls
  /\ version = "dll" => "module" \in dlls

\* A text gives a name that gr_dll_open has no room for.
NamesTooLong(text, key) ==
  LET v == Written(text, "server", key) IN v # Absent /\ v.len + 6 >= PathMax

\* The process is stopped by its own start only when there is no module at all, given or found
\* (beside an executable whose path is of 5 to 8 characters it is not found), or when a path is
\* too long: that of the executable for the ones made from it, 6 characters earlier when the
\* module beside it is to configure the server, or the name of a library the text gives.  With
\* 260 as PathMax an executable of less than 241 characters and names of less than 254 are safe.
CrashesOnlyAlone ==
  pc = "crashed" =>
    \/ env.exe.len + 13 >= PathMax
    \/ Source = "module" /\ env.exe.len + 19 >= PathMax
    \/ NamesTooLong(env.text, "module") \/ NamesTooLong(env.text, "library.core")
    \/ /\ ~env.version /\ ~env.others
       /\ Missing(Written(env.text, "server", "module"))
       /\ ModulePath \notin env.files \/ env.exe.hidden \/ env.exe.len \in 5 .. 8

\* "use this function to avoid the config file" (grocket.h:522): a module that exports gr_config
\* and is found beside the executable configures a server for which nothing else does.  It does
\* not: gr_dll_open puts "lib" and ".so" around the complete path once more (gr_dll.c:183), and
\* TLC refutes this with the constants of MCStartup_faults.cfg.
AvoidsTheFile ==
  pc = "tServer" /\ r = "INIT_CONFIG_FAILED" =>
    ~ /\ Source = "module"
      /\ env.fail = "none"
      /\ env.exe.len \in 9 .. 200 /\ ~env.exe.hidden
      /\ ModulePath \in env.files /\ Loads(ModulePath, {"gr_config"}) /\ env.configOk
      /\ Usable(env.text)
=============================================================================
