---------------------------- MODULE RemoteSearch ----------------------------
(***************************************************************************)
(* Searches on another server and the household's sign-in there (PKCE),    *)
(* in api/remote_search.rs, domain/remote.rs and the server adapter's      *)
(* remote_lookup.  The board answers one request at a time, with what it   *)
(* asks the other server for it, so that a request with its lookups is one *)
(* step; its writes are a program (see Writes).  A token is the number of  *)
(* the sign-in that brought it, and 0 is none.  Part `ram` of the state is *)
(* not stored.  Who may ask, the hourly budget and the answers' contents   *)
(* are left out.                                                           *)
(***************************************************************************)
EXTENDS Writes

CONSTANTS Servers, Off,    \* public servers, and the setting that searches none
          Keys,            \* what is searched for
          MaxCache,        \* SEARCHES_MAX
          MaxLogins        \* bound: sign-ins started

VARIABLES home,      \* the server of each sign-in, in their order
          approved,  \* the sign-ins an admin has completed in the browser
          sent       \* every token that left the board, with where to

vars == <<wvars, home, approved, sent>>

SearchAssumption == MaxCache \in Nat \ {0} /\ {MaxLogins, MaxFaults} \subseteq Nat

NoAuth == [server |-> Off, token |-> 0]
NoFlow == 0
Flow(d) == d.ram.flow
\* Mutant: whatever server the household searches now.
TokenAnyway(d) == d.ram.auth.token
\* search_token: what searches are signed with.
Token(d) == IF d.ram.auth.server = d.ram.server THEN d.ram.auth.token ELSE 0
\* search_app: the app of the sign-in, or one registered since the boot.
HasApp(d, s) == d.ram.auth.server = s \/ s \in d.ram.apps
Known(d, k) == \E i \in DOMAIN d.ram.cache : d.ram.cache[i].key = k

Asks(name, p) == Does([op |-> name], p)
\* A change of the RAM alone is no write.
Remembers(ram) == disk' = [disk EXCEPT !.ram = ram] /\ UNCHANGED <<up, todo, doing, faults>>

\* search, remote_search_store: a failure is remembered too.
Search(k) ==
  /\ Ready /\ disk.ram.server # Off /\ ~Known(disk, k)
  /\ LET held == disk.ram.cache
         room == IF Len(held) < MaxCache THEN held ELSE Tail(held)
     IN Remembers([disk.ram EXCEPT !.cache = Append(room, [key |-> k, token |-> Token(disk)])])
  /\ sent' = sent \cup {<<Token(disk), disk.ram.server>>}
  /\ UNCHANGED <<home, approved>>
\* The ten minutes of an answer are over.
Stale(k) ==
  /\ Ready
  /\ \E i \in DOMAIN disk.ram.cache :
       disk.ram.cache[i].key = k /\ Remembers([disk.ram EXCEPT !.cache = RemoveAt(@, i)])
  /\ UNCHANGED <<home, approved, sent>>

\* register and start_search_login; a new sign-in takes the place of another.
StartLogin(s) ==
  /\ Ready /\ Len(home) < MaxLogins
  /\ Remembers([disk.ram EXCEPT !.flow = Len(home) + 1,
                                !.apps = IF HasApp(disk, s) THEN @ ELSE {s}])
  /\ home' = Append(home, s)
  /\ UNCHANGED <<approved, sent>>
RegisterFails(s) ==
  /\ Ready /\ ~HasApp(disk, s)
  /\ Remembers([disk.ram EXCEPT !.apps = {}])
  /\ UNCHANGED <<home, approved, sent>>
Approve(n) ==
  /\ n \in DOMAIN home \ approved /\ approved' = approved \cup {n}
  /\ UNCHANGED <<wvars, home, sent>>

Current(n) == Flow(disk) = n
\* login_done: the sign-in, then the server that is searched from now on.
Ended(d) == [d EXCEPT !.ram.flow = NoFlow]
SignedIn(s, n) ==
  LET auth == [server |-> s, token |-> n]
      kept == Put(Begin, [disk EXCEPT !.auth = auth])
      both == Append(kept, Writing([End(kept) EXCEPT !.server = s], "undo"))
  IN Aside(both, Ended([End(both) EXCEPT !.ram.auth = auth, !.ram.server = s, !.ram.apps = {}, !.ram.cache = <<>>]))
\* The callback: the code for a token, and the token for who signed in.
\* Either may fail; then the sign-in is used up.
Callback(n) ==
  /\ Ready /\ n \in approved /\ Current(n)
  /\ \/ Asks("callback", SignedIn(home[Flow(disk)], n)) /\ sent' = sent \cup {<<n, home[Flow(disk)]>>}
     \/ Remembers(Ended(disk).ram) /\ UNCHANGED sent
  /\ UNCHANGED <<home, approved>>
\* Fifteen minutes are over, or the server's page was left without consent.
Lapse ==
  /\ Ready /\ Flow(disk) # NoFlow /\ Remembers(Ended(disk).ram)
  /\ UNCHANGED <<home, approved, sent>>
\* search_sign_out; a sign-in under way goes on.
SignOut ==
  /\ Ready /\ disk.ram.auth # NoAuth
  /\ LET gone == [disk EXCEPT !.ram.auth = NoAuth]
         p == Erase(Aside(Begin, gone), [gone EXCEPT !.auth = NoAuth])
     IN Asks("sign out", Aside(p, [End(p) EXCEPT !.ram.cache = <<>>]))
  /\ UNCHANGED <<home, approved, sent>>
\* set_remote_settings
Choose(s) ==
  /\ Ready /\ s # disk.ram.server
  /\ LET p == Put(Begin, [disk EXCEPT !.server = s])
     IN Asks("settings", Aside(p, [End(p) EXCEPT !.ram.server = s]))
  /\ UNCHANGED <<home, approved, sent>>

Boot ==
  /\ up = "off" /\ up' = "ready"
  /\ disk' = [disk EXCEPT !.ram = [auth |-> disk.auth, server |-> disk.server, flow |-> NoFlow,
                                   apps |-> {}, cache |-> <<>>]]
  /\ UNCHANGED <<todo, doing, faults, home, approved, sent>>

Init ==
  /\ \E s \in Servers : disk =
       [auth |-> NoAuth, server |-> s,
        ram |-> [auth |-> NoAuth, server |-> s, flow |-> NoFlow, apps |-> {}, cache |-> <<>>]]
  /\ up = "ready" /\ todo = <<>> /\ doing = Nothing /\ faults = 0
  /\ home = <<>> /\ approved = {} /\ sent = {}

Next ==
  \/ \E k \in Keys : Search(k) \/ Stale(k)
  \/ \E s \in Servers : StartLogin(s) \/ RegisterFails(s)
  \/ \E n \in DOMAIN home : Approve(n) \/ Callback(n)
  \/ \E s \in Servers \cup {Off} : Choose(s)
  \/ Lapse \/ SignOut \/ Boot
  \/ (Step \/ Full(Aside(Begin, Ended(disk))) \/ Breaks \/ PowerCut) /\ UNCHANGED <<home, approved, sent>>

Spec == Init /\ [][Next]_vars

-----------------------------------------------------------------------------
\* The types: A holds the sign-ins that a record may keep.
Places == Servers \cup {Off}
Auths == [server : Places, token : Nat]
Rams(A) == [auth : A, server : Places, flow : Nat, apps : SUBSET Servers,
            cache : Seq([key : Keys, token : Nat])]
Disks(A) == [auth : A, server : Places, ram : Rams(A)]
Programs(A) == Seq([to : Disks(A), full : {"never", "stop", "aside", "undo"}])

TypeOK ==
  /\ disk \in Disks(Auths) /\ up \in {"ready", "latched", "off"}
  /\ todo \in Programs(Auths) /\ doing \in {Nothing} \cup [op : {"callback", "sign out", "settings"}]
  /\ home \in Seq(Servers) /\ approved \subseteq DOMAIN home
  /\ sent \subseteq Nat \X Places /\ faults \in 0..MaxFaults

\* A token is only ever sent to the server that gave it, whatever an admin
\* chose or signed in to meanwhile, and whatever was refused as full or cut
\* short between the sign-in's record and that of the settings (SearchAuth:
\* never shown to anyone, sent only to its server).
TokenStaysHome == \A pair \in sent : pair[1] # 0 => home[pair[1]] = pair[2]
=============================================================================
