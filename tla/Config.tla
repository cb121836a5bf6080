------------------------------- MODULE Config -------------------------------
(***************************************************************************)
(* What gr_config.c makes of a parsed text: the ports to listen on, the    *)
(* settings with their defaults and least values, and the names of the     *)
(* files that belong to the executable.                                    *)
(*                                                                         *)
(* The value of an item of [listen] is [is |-> "addr", proto, fault, n]:   *)
(* its protocol ("tcp", "udp" or "other"), the first thing wrong with the  *)
(* rest ("none", "colon": no ':', "ip", "digit": the port does not begin   *)
(* with one), and what atoi makes of the port.                             *)
(***************************************************************************)
EXTENDS IniFile, TLC

CONSTANTS
  PortMax,  \* GR_PORT_MAX
  PathMax   \* MAX_PATH

\* There is room for the path of the library that is looked for by default.
ASSUME ConfigAssumption == PortMax \in Nat /\ PathMax \in Nat /\ PathMax > 15

-----------------------------------------------------------------------------
(* load_listen_info *)

Missing(v) == v.is = "absent" \/ (v.is = "word" /\ v.w = "")

\* The item of that number.
Entry(ini, i) == GetString(ini, "listen", ToString(i), Absent)

\* The entries, read from number 0 until one is missing.
Listed(ini) ==
  LET gap == {i \in 0 .. PortMax - 1 : Missing(Entry(ini, i))}
      n   == IF gap = {} THEN PortMax ELSE Min(gap)
  IN  [i \in 1 .. n |-> Entry(ini, i - 1)]

\* add_port.  Only IPv4 addresses come here.
AddPort(l, tcp, n) ==
  IF Len(l.ports) >= PortMax THEN [l EXCEPT !.r = -6]
  ELSE IF tcp /\ l.ports # <<>> /\ ~l.ports[Len(l.ports)].tcp THEN [l EXCEPT !.r = -6]
  ELSE [l EXCEPT !.ports = Append(@, [tcp |-> tcp, port |-> n])]

\* The ports there are.
LastPort == 65535
Port     == 1 .. LastPort

\* An address that can be listened on.
Bindable(v) == /\ v.is = "addr" /\ v.proto # "other"
               /\ v.fault = "none" /\ v.n \in Port

\* Seeded slip: the pass does not matter.
ListenEntry_EveryPass(l, p, v) ==
  IF l.r # 0 THEN l
  ELSE IF Bindable(v) THEN AddPort(l, v.proto = "tcp", v.n) ELSE [l EXCEPT !.r = -1]

\* One entry in the pass of protocol p.
ListenEntry(l, p, v) ==
  IF l.r # 0 THEN l
  ELSE IF v.is # "addr" \/ v.proto = "other" THEN [l EXCEPT !.r = -1]
  ELSE IF v.proto # p THEN l
  ELSE CASE v.fault = "colon" -> [l EXCEPT !.r = -2]
         [] v.fault = "ip"    -> [l EXCEPT !.r = -3]
         [] v.fault = "digit" -> [l EXCEPT !.r = -4]
         [] v.fault = "none"  -> IF v.n <= 0 \/ v.n > LastPort THEN [l EXCEPT !.r = -5]
                                 ELSE AddPort(l, p = "tcp", v.n)

ListenPass(l, p, list) == FoldLeft(LAMBDA m, v : ListenEntry(m, p, v), l, list)

\* TCP first, then UDP.
LoadListen(ini) ==
  LET none == [ports |-> <<>>, r |-> 0]
      l    == ListenPass(ListenPass(none, "tcp", Listed(ini)), "udp", Listed(ini))
  IN  IF l.r = 0 /\ l.ports = <<>> THEN [l EXCEPT !.r = -7] ELSE l

-----------------------------------------------------------------------------
(* Settings: those of [server] that are read as numbers *)

TcpInSettings ==
  {[key |-> "tcp.in.concurrent",   def |-> 10000, least |-> 10000],
   [key |-> "tcp.in.thread_count", def |-> 1,     least |-> 1]}

Concurrent == {"udp.out.concurrent", "udp.in.concurrent", "tcp.accept.concurrent",
               "tcp.out.concurrent"}
ThreadCount == {"udp.in.thread_count", "tcp.accept.thread_count", "tcp.out.thread_count",
                "udp.out.thread_count", "worker.thread_count"}

IoSettings ==
  {[key |-> k, def |-> 10000, least |-> 10000] : k \in Concurrent} \cup
  {[key |-> k, def |-> 1, least |-> 1] : k \in ThreadCount}

SocketSettings ==
  {[key |-> k, def |-> 8 * 1024 * 1024, least |-> 0] :
     k \in {"tcp.accept.send_buf", "tcp.accept.recv_buf", "udp.send_buf", "udp.recv_buf"}} \cup
  {[key |-> "tcp.accept.backlog",   def |-> 511, least |-> 5],
   [key |-> "tcp.in.recv_buf.init", def |-> 256, least |-> 4]}

BackendSettings == {[key |-> "backend.thread_count", def |-> 1, least |-> 1]}
ClassSettings   == {[key |-> "library.class_max", def |-> 100, least |-> 10]}
AlignSettings   == {[key |-> "response.buff_align", def |-> 1024, least |-> 8]}

Settings == TcpInSettings \cup IoSettings \cup SocketSettings \cup BackendSettings
              \cup ClassSettings \cup AlignSettings

AtLeast(ini, key, def, least) == Max({GetInt(ini, "server", key, def), least})

Setting(ini, key) ==
  LET s == CHOOSE s \in Settings : s.key = key IN AtLeast(ini, key, s.def, s.least)

\* Seeded slip: each of the two has a bound of its own.
RecvBufMax_Alone(ini) == AtLeast(ini, "tcp.in.recv_buf.max", 1024 * 1024 * 10, 4)

\* The largest receive buffer is bounded by the smallest.
RecvBufMax(ini) ==
  AtLeast(ini, "tcp.in.recv_buf.max", 1024 * 1024 * 10, Setting(ini, "tcp.in.recv_buf.init"))

\* A value as the name of a file: those that read as something else stand for one another.
NameOf(v) ==
  IF v.is \in {"absent", "word"} THEN v ELSE [is |-> "word", w |-> "number", len |-> v.len]

\* The library of classes, ./library by default; the text of the empty word is NULL.
CorePath(ini) ==
  NameOf(GetString(ini, "server", "library.core", [is |-> "word", w |-> "library", len |-> 9]))

-----------------------------------------------------------------------------
(* Files.  An executable is [len, ext, hidden]: the length of its path, of *)
(* the suffix from the last dot of its name on, and whether its name       *)
(* begins with one.  What the paths of its files are is a matter of        *)
(* lengths; the files themselves have one name each.                       *)

IniPath    == "server.ini"
ModulePath == "libserver_module.so"

\* gr_dll_open puts lib before the name of the file and .so behind it, in the buffer that the path
\* was let into.
DllName(file)         == "lib" \o file \o ".so"
DllPathRefused(len)   == len >= PathMax
DllPathOverflows(len) == ~DllPathRefused(len) /\ len + 6 >= PathMax

\* calc_ini_path: the suffix is replaced by .ini.
IniPathLen(exe) == exe.len - exe.ext + 4

\* calc_module_path: lib before the name, _module.so for the suffix.
ModulePathLen(exe) == exe.len + 3 - exe.ext + 10

\* Seeded slip: the check is meant to be of the buffer.
ModulePathRefused_Pointer(exe) == exe.hidden \/ 8 - exe.len <= 3

\* The check of the room left takes the size of the pointer for that of the buffer.
ModulePathRefused(exe) == exe.hidden \/ (exe.len <= 8 /\ 8 - exe.len <= 3)

\* strncpy into a buffer for a path: a longer name is cut, which makes it another one.
Copied(name) ==
  IF name.len < PathMax THEN name ELSE [name EXCEPT !.w = @ \o "...", !.len = PathMax - 1]

IniPathOverflows(exe) == IniPathLen(exe) >= PathMax
ModulePathOverflows(exe) ==
  ~ModulePathRefused(exe) /\ (exe.len + 3 >= PathMax \/ ModulePathLen(exe) >= PathMax)
=============================================================================
