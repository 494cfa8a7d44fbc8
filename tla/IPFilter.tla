------------------------------ MODULE IPFilter ------------------------------
(***************************************************************************)
(* The connection filter of src/epicchain/network/ipfilter.py.             *)
(*                                                                         *)
(* Python dicts and lists are objects shared by reference, and the filter  *)
(* keeps whatever dict load_config is given.  So the model has a heap:     *)
(* dicts map the keys "blacklist"/"whitelist" to list objects (DictMap,    *)
(* fixed), lists hold sequences of entry strings (the variable lists), and *)
(* cfg is the dict self._config refers to.  DefaultDict is the class       *)
(* attribute default_config; OwnDict is the dict deepcopy creates in       *)
(* __init__ and reset (a fresh copy is unreachable from anywhere else, so  *)
(* one pair of list ids serves every copy).                                *)
(*                                                                         *)
(* IPv4 is shrunk to W-bit addresses; an entry string denotes the network  *)
(* Net[e] = [addr, prefix], and IPv4Network(e) raises when host bits are   *)
(* set (Valid).  Two strings may denote the same network.                  *)
(***************************************************************************)
EXTENDS Integers, Sequences, SequencesExt

CONSTANTS
  W,           \* address width in bits
  Entries,     \* address strings the program uses
  Net,         \* [Entries -> [addr : 0..2^W-1, prefix : 0..W]]
  Lists,       \* list objects
  DictMap,     \* dict object -> [keys it has -> list object]
  DefaultDict, \* IPFilter.default_config
  OwnDict,     \* the deepcopy made by __init__ and reset
  Loadable,    \* dicts a caller passes to load_config
  InitLists,   \* contents of every list object at start
  MaxListLen,  \* bound on the length of a list
  ValueError   \* the exception IPv4Network and load_config raise

Dicts == DOMAIN DictMap
Keys == {"blacklist", "whitelist"}

ASSUME W \in Nat /\ MaxListLen \in Nat
ASSUME \A e \in Entries : Net[e] \in [addr : 0 .. 2^W - 1, prefix : 0 .. W]
ASSUME \A d \in {DefaultDict, OwnDict} : DOMAIN DictMap[d] = Keys
ASSUME InitLists[DictMap[DefaultDict]["blacklist"]] = << >>
       /\ InitLists[DictMap[DefaultDict]["whitelist"]] = << >>

VARIABLES
  cfg,    \* the dict self._config refers to
  lists,  \* [Lists -> Seq(Entries)]
  outcome \* the last call: the method's name, or ValueError when it raised

vars == <<cfg, lists, outcome>>

-----------------------------------------------------------------------------
(* IPv4Network(s): strict parsing rejects set host bits. *)
Valid(n) == n.addr % 2^(W - n.prefix) = 0

(* The addresses of a network. *)
Block(n) == {a \in 0 .. 2^W - 1 : a \div 2^(W - n.prefix) = n.addr \div 2^(W - n.prefix)}

(* IPv4Network.overlaps *)
Overlaps(n, m) == Block(n) \cap Block(m) # {}

Hosts == {[addr |-> a, prefix |-> W] : a \in 0 .. 2^W - 1}

Blacklist == lists[DictMap[cfg]["blacklist"]]
Whitelist == lists[DictMap[cfg]["whitelist"]]

(* Mutant of ScanBlacklist: the break dropped, the loop scans on. *)
RECURSIVE ScanBlacklistNoBreak(_, _)
ScanBlacklistNoBreak(bl, n) ==
  CASE bl = << >> -> "nobreak"
    [] ~Valid(Net[Head(bl)]) -> ValueError
    [] Overlaps(Net[Head(bl)], n) ->
         IF ScanBlacklistNoBreak(Tail(bl), n) = ValueError THEN ValueError ELSE "break"
    [] OTHER -> ScanBlacklistNoBreak(Tail(bl), n)

(* The first loop of is_allowed (lines 76-82): "break" on the first       *)
(* overlapping entry, "nobreak" when the loop runs out, ValueError when   *)
(* IPv4Network(ip) raises first.                                          *)
RECURSIVE ScanBlacklist(_, _)
ScanBlacklist(bl, n) ==
  CASE bl = << >> -> "nobreak"
    [] ~Valid(Net[Head(bl)]) -> ValueError
    [] Overlaps(Net[Head(bl)], n) -> "break"
    [] OTHER -> ScanBlacklist(Tail(bl), n)

(* The second loop (lines 84-88): no break, every entry is parsed. *)
RECURSIVE ScanWhitelist(_, _, _)
ScanWhitelist(wl, n, allowed) ==
  CASE wl = << >> -> allowed
    [] ~Valid(Net[Head(wl)]) -> ValueError
    [] OTHER -> ScanWhitelist(Tail(wl), n,
                              allowed \/ Overlaps(Net[Head(wl)], n))

(* IPFilter.is_allowed(address) for an address that parses (line 72).     *)
IsAllowed(n) ==
  LET b == ScanBlacklist(Blacklist, n)
  IN CASE b = ValueError -> ValueError
       [] b = "nobreak" -> TRUE
       [] OTHER -> ScanWhitelist(Whitelist, n, FALSE)

(* list.append on the list object l. *)
AppendTo(l, e) == [lists EXCEPT ![l] = Append(@, e)]

(* blacklist_add / whitelist_add (lines 92-99, 111-118). *)
ListAdd(key, e) ==
  LET l == DictMap[cfg][key]
  IN /\ Len(lists[l]) < MaxListLen
     /\ lists' = AppendTo(l, e)
     /\ outcome' = "add"
     /\ UNCHANGED cfg

BlacklistAdd(e) == ListAdd("blacklist", e)
WhitelistAdd(e) == ListAdd("whitelist", e)

(* blacklist_remove / whitelist_remove (lines 101-109, 120-128): the     *)
(* first verbatim occurrence; ValueError suppressed when absent.          *)
ListRemove(key, e) ==
  LET l == DictMap[cfg][key]
  IN /\ lists' = [lists EXCEPT ![l] = RemoveFirst(@, e)]
     /\ outcome' = "remove"
     /\ UNCHANGED cfg

BlacklistRemove(e) == ListRemove("blacklist", e)
WhitelistRemove(e) == ListRemove("whitelist", e)

(* Mutant of LoadConfig: the key checks dropped. *)
LoadConfigUnchecked(d) ==
  /\ cfg' = d
  /\ outcome' = "load"
  /\ UNCHANGED lists

(* load_config (lines 130-146): key checks, then the dict itself is kept. *)
LoadConfig(d) ==
  /\ \/ /\ "whitelist" \notin DOMAIN DictMap[d]
        /\ outcome' = ValueError
        /\ UNCHANGED cfg
     \/ /\ "whitelist" \in DOMAIN DictMap[d]
        /\ "blacklist" \notin DOMAIN DictMap[d]
        /\ outcome' = ValueError
        /\ UNCHANGED cfg
     \/ /\ Keys \subseteq DOMAIN DictMap[d]
        /\ cfg' = d
        /\ outcome' = "load"
  /\ UNCHANGED lists

(* deepcopy(self.default_config): fresh lists with the default's entries. *)
CopyOfDefault ==
  [lists EXCEPT ![DictMap[OwnDict]["blacklist"]] =
                  lists[DictMap[DefaultDict]["blacklist"]],
                ![DictMap[OwnDict]["whitelist"]] =
                  lists[DictMap[DefaultDict]["whitelist"]]]

(* reset (lines 148-152). *)
Reset ==
  /\ cfg' = OwnDict
  /\ lists' = CopyOfDefault
  /\ outcome' = "reset"

(* Module import builds the global ipfilter: __init__ (lines 60-63, 155). *)
Init ==
  /\ lists = InitLists
  /\ cfg = OwnDict
  /\ outcome = "init"

Next ==
  \/ \E e \in Entries : BlacklistAdd(e) \/ WhitelistAdd(e)
  \/ \E e \in Entries : BlacklistRemove(e) \/ WhitelistRemove(e)
  \/ \E d \in Loadable : LoadConfig(d)
  \/ Reset

Spec == Init /\ [][Next]_vars

-----------------------------------------------------------------------------
TypeOK ==
  /\ cfg \in {d \in Dicts : Keys \subseteq DOMAIN DictMap[d]}
  /\ lists \in [Lists -> BoundedSeq(Entries, MaxListLen)]
  /\ outcome \in {"init", "add", "remove", "load", "reset", ValueError}

(* The decision as spec 4.4 states it: allowed unless the first blacklist *)
(* entry that is malformed or overlaps is an overlapping one and no       *)
(* whitelist entry overlaps; a malformed entry parsed on the way raises.  *)
Policy(n) ==
  LET k == SelectInSeq(Blacklist, LAMBDA e : ~Valid(Net[e]) \/ Overlaps(Net[e], n))
  IN IF k = 0 THEN TRUE
     ELSE IF ~Valid(Net[Blacklist[k]]) THEN ValueError
     ELSE IF \E i \in 1 .. Len(Whitelist) : ~Valid(Net[Whitelist[i]]) THEN ValueError
     ELSE \E i \in 1 .. Len(Whitelist) : Overlaps(Net[Whitelist[i]], n)

(* is_allowed's loops decide, for every address and every configuration  *)
(* reachable through the public methods, what Policy says.                *)
IsAllowedMatchesPolicy ==
  \A n \in Hosts : IsAllowed(n) = Policy(n)

(* reset clears the filter (spec 4.4 "restores both lists to empty"): after *)
(* reset every address is allowed.                                        *)
ResetClears ==
  [][Reset => \A n \in Hosts : IsAllowed(n)' = TRUE]_vars

=============================================================================
