------------------------------- MODULE Archive -------------------------------
(***************************************************************************)
(* The archive's HTTP API (src/ctf_archive/src): admin login by           *)
(* challenge-response (auth.rs), the three JWT kinds (jwt.rs), guest codes *)
(* (GuestCodes), the CTF, category and challenge tables (ctfs.rs,          *)
(* categories.rs, challenges.rs) and the launch requests start and         *)
(* host_demo send to the daemon.  Each handler is one action: axum runs    *)
(* handlers concurrently, but each touches the database in one statement,  *)
(* so a handler is atomic with respect to the state modelled here.         *)
(*                                                                         *)
(* The migrations that create the tables are not in the repository.  The   *)
(* constraints the handlers' error arms and API documentation name are     *)
(* assumed: unique CTF names, category names per CTF, challenge names per  *)
(* category and docker images; foreign keys from category to CTF and       *)
(* challenge to category; a CHECK rejecting DbPortLimit or more ports.     *)
(*                                                                         *)
(* resp is the last response: the handler, its status, and for            *)
(* get_metadata the category id it reports.                                *)
(***************************************************************************)
EXTENDS GuestCodes

CONSTANTS
  Names,        \* CTF, category and challenge names
  Images,       \* docker image names
  PortCounts,   \* sizes of the port map configure_docker is sent
  DbPortLimit,  \* port count the assumed CHECK constraint rejects
  CategoryInputs, \* the category_type variants clients send
  DateInputs,   \* the start/end dates clients send, as <<year, month, day>>
  MaxRows,      \* bound: rows per table
  MaxLaunches   \* bound: requests sent to the daemon

\* admin_auth!: key 0 (debug key) may do everything, key 1 (discord bot)
\* may only invite.
KeyIds == {0, 1}

KeyPerms ==
  [k \in KeyIds |->
     IF k = 0 THEN [can_docker |-> TRUE, can_create |-> TRUE,
                    can_invite |-> TRUE, can_host_demo |-> TRUE]
     ELSE [can_docker |-> FALSE, can_create |-> FALSE,
           can_invite |-> TRUE, can_host_demo |-> FALSE]]

\* A u8 id no key has: an unknown login id, a signature that does not
\* decode, the admin of a guest launch.
NotAKey == 2

\* The key a finish_challenge caller signs with, or NotAKey.
Signers == KeyIds \cup {NotAKey}

Uploads == {"zip", "none", "other_field"}

NoImage == "none"

\* CategoryType's variants, and the text as_str() stores for each.
CategoryTypes ==
  {"Reversing", "Exploitation", "Web", "Cryptography", "Stegonography",
   "Forensics", "Miscellaneous"}

AsStr ==
  [Reversing |-> "rev", Exploitation |-> "pwn", Web |-> "web",
   Cryptography |-> "crypto", Stegonography |-> "stego",
   Forensics |-> "forensics", Miscellaneous |-> "misc"]

\* CategoryType::parse: the variant a stored text names, or "None".
ParseTable ==
  [rev |-> "Reversing", pwn |-> "Exploitation", web |-> "Web",
   crypto |-> "Cryptography", stego |-> "Stegonography",
   forensics |-> "Forensics", misc |-> "Miscellaneous"]

ParseCategoryType(t) ==
  IF t \in DOMAIN ParseTable THEN ParseTable[t] ELSE "None"

ASSUME CategoryInputs \subseteq CategoryTypes

\* NaiveDate::from_ymd_opt succeeds: a month of the year and a day of the
\* month in the proleptic Gregorian calendar (the years of a u16 are all
\* within chrono's range).
LeapYear(y) == y % 4 = 0 /\ (y % 100 # 0 \/ y % 400 = 0)

DaysInMonth(y, m) ==
  CASE m = 2 -> IF LeapYear(y) THEN 29 ELSE 28
    [] m \in {4, 6, 9, 11} -> 30
    [] OTHER -> 31

FromYmdOpt(d) == d[2] \in 1..12 /\ d[3] \in 1..DaysInMonth(d[1], d[2])

VARIABLES
  chJwts,      \* key ids with an unexpired challenge JWT (10 s)
  adminJwts,   \* unexpired admin JWTs (30 min): [id, signer]
  ctfs,        \* ctfs table: id i is ctfs[i]
  categories,  \* categories table: [name, ctf]
  challenges,  \* challenges table: [name, category, image, ports, instr, archive]
  launches,    \* requests start and host_demo sent to the daemon
  resp         \* the last response

authVars == <<chJwts, adminJwts>>
dbVars == <<ctfs, categories, challenges>>
vars == <<codeVars, authVars, dbVars, launches, resp>>

Resp(op, status) == resp' = [op |-> op, status |-> status, id |-> 0, cat |-> 0]

RespFor(op, status, id) == resp' = [op |-> op, status |-> status, id |-> id, cat |-> 0]

Init ==
  /\ CodeInit
  /\ chJwts = {}
  /\ adminJwts = {}
  /\ ctfs = <<>>
  /\ categories = <<>>
  /\ challenges = <<>>
  /\ launches = <<>>
  /\ resp = [op |-> "none", status |-> 0, id |-> 0, cat |-> 0]

-----------------------------------------------------------------------------
(* Admin login (auth.rs)                                                   *)

\* initiate_challenge: an unknown key id is 404; otherwise a challenge JWT
\* over 32 random bytes, for that id.
InitiateChallenge(k) ==
  /\ IF k \in KeyIds
       THEN chJwts' = chJwts \cup {k} /\ Resp("initiate", 200)
       ELSE UNCHANGED chJwts /\ Resp("initiate", 404)
  /\ UNCHANGED <<codeVars, adminJwts, dbVars, launches>>

\* Mutant: key_perms accepts a signature by any configured key.
FinishChallengeAnyKey(k, s) ==
  /\ k \in chJwts
  /\ CASE s = NotAKey -> UNCHANGED adminJwts /\ Resp("finish", 400)
       [] OTHER -> adminJwts' = adminJwts \cup {[id |-> k, signer |-> s]}
                   /\ Resp("finish", 200)
  /\ UNCHANGED <<codeVars, chJwts, dbVars, launches>>

\* finish_challenge: the signature must decode (400) and verify against
\* the public key of the id in the challenge JWT (401); the admin JWT then
\* carries that key's permissions.
FinishChallenge(k, s) ==
  /\ k \in chJwts
  /\ CASE s = NotAKey -> UNCHANGED adminJwts /\ Resp("finish", 400)
       [] s # k -> UNCHANGED adminJwts /\ Resp("finish", 401)
       [] OTHER -> adminJwts' = adminJwts \cup {[id |-> k, signer |-> s]}
                   /\ Resp("finish", 200)
  /\ UNCHANGED <<codeVars, chJwts, dbVars, launches>>

\* A challenge or admin JWT passes its expiry; verify_token rejects it.
ChallengeJwtExpires(k) ==
  /\ k \in chJwts
  /\ chJwts' = chJwts \ {k}
  /\ UNCHANGED <<codeVars, adminJwts, dbVars, launches, resp>>

AdminJwtExpires(a) ==
  /\ a \in adminJwts
  /\ adminJwts' = adminJwts \ {a}
  /\ UNCHANGED <<codeVars, chJwts, dbVars, launches, resp>>

-----------------------------------------------------------------------------
(* Guest codes through the API (guest.rs)                                  *)

\* generate_code needs can_invite, which both keys have.
GenerateCodeReq(a, c) ==
  /\ a \in adminJwts
  /\ KeyPerms[a.id].can_invite
  /\ GenerateCode(c)
  /\ Resp("generate", 200)
  /\ UNCHANGED <<authVars, dbVars, launches>>

\* wipe_codes needs an admin JWT of any key.
WipeCodesReq(a) ==
  /\ a \in adminJwts
  /\ WipeCodes
  /\ Resp("wipe", 200)
  /\ UNCHANGED <<authVars, dbVars, launches>>

\* redeem_code needs no JWT.
RedeemCodeReq(c) ==
  /\ IF c \in codes
       THEN RedeemCode(c) /\ Resp("redeem", 200)
       ELSE UNCHANGED codeVars /\ Resp("redeem", 401)
  /\ UNCHANGED <<authVars, dbVars, launches>>

-----------------------------------------------------------------------------
(* Tables (ctfs.rs, categories.rs, challenges.rs)                          *)

Perm(a, p) == a \in adminJwts /\ KeyPerms[a.id][p]

Row(tbl, id) == id \in 1..Len(tbl)

\* ctfs::create: the two dates' try_into().unwrap() runs before the insert;
\* a date from_ymd_opt refuses panics the handler and the client's
\* connection is dropped without a status (0).
CreateCtf(a, n, sd, ed) ==
  /\ a \in adminJwts
  /\ CASE ~Perm(a, "can_create") -> Resp("ctf_create", 403) /\ UNCHANGED ctfs
       [] ~FromYmdOpt(sd) \/ ~FromYmdOpt(ed) -> Resp("ctf_create", 0) /\ UNCHANGED ctfs
       [] n \in ToSet(ctfs) -> Resp("ctf_create", 409) /\ UNCHANGED ctfs
       [] OTHER -> Len(ctfs) < MaxRows /\ ctfs' = Append(ctfs, n)
                   /\ Resp("ctf_create", 201)
  /\ UNCHANGED <<codeVars, authVars, categories, challenges, launches>>

\* Mutant: the insert without the foreign key to ctfs.
CreateCategoryNoFk(a, n, f, t) ==
  /\ a \in adminJwts
  /\ CASE ~Perm(a, "can_create") -> Resp("cat_create", 403) /\ UNCHANGED categories
       [] \E r \in ToSet(categories) : r.name = n /\ r.ctf = f ->
            Resp("cat_create", 409) /\ UNCHANGED categories
       [] OTHER -> Len(categories) < MaxRows
                   /\ categories' = Append(categories,
                                      [name |-> n, ctf |-> f, ctype |-> AsStr[t]])
                   /\ Resp("cat_create", 201)
  /\ UNCHANGED <<codeVars, authVars, ctfs, challenges, launches>>

\* categories::create: a missing CTF is a foreign-key violation, 404; the
\* row stores category_type.as_str() of the variant serde decoded.
CreateCategory(a, n, f, t) ==
  /\ a \in adminJwts
  /\ CASE ~Perm(a, "can_create") -> Resp("cat_create", 403) /\ UNCHANGED categories
       [] ~Row(ctfs, f) -> Resp("cat_create", 404) /\ UNCHANGED categories
       [] \E r \in ToSet(categories) : r.name = n /\ r.ctf = f ->
            Resp("cat_create", 409) /\ UNCHANGED categories
       [] OTHER -> Len(categories) < MaxRows
                   /\ categories' = Append(categories,
                                      [name |-> n, ctf |-> f, ctype |-> AsStr[t]])
                   /\ Resp("cat_create", 201)
  /\ UNCHANGED <<codeVars, authVars, ctfs, challenges, launches>>

\* challenges::create: permission, then the multipart field (a field other
\* than an application/zip "zip_file" is 400), then the insert, with no
\* docker image and no ports, and the connection instructions (ci) and the
\* flag (fl) the query may carry.
CreateChallenge(a, n, cat, up, ci, fl) ==
  /\ a \in adminJwts
  /\ CASE ~Perm(a, "can_create") -> Resp("chall_create", 403) /\ UNCHANGED challenges
       [] up = "other_field" -> Resp("chall_create", 400) /\ UNCHANGED challenges
       [] ~Row(categories, cat) -> Resp("chall_create", 404) /\ UNCHANGED challenges
       [] \E j \in 1..Len(challenges) :
            challenges[j].name = n /\ challenges[j].category = cat ->
            Resp("chall_create", 409) /\ UNCHANGED challenges
       [] OTHER -> Len(challenges) < MaxRows
                   /\ challenges' = Append(challenges,
                        [name |-> n, category |-> cat, image |-> NoImage,
                         ports |-> 0, instr |-> ci, archive |-> up = "zip",
                         flag |-> fl])
                   /\ Resp("chall_create", 201)
  /\ UNCHANGED <<codeVars, authVars, ctfs, categories, launches>>

\* configure_docker: an UPDATE ... WHERE id = challenge_id.  execute()
\* returns the number of rows changed, Ok(0) for a missing id, never
\* NotFound.
ConfigureDocker(a, id, img, n) ==
  /\ a \in adminJwts
  /\ CASE ~Perm(a, "can_docker") -> RespFor("configure", 403, id) /\ UNCHANGED challenges
       [] ~Row(challenges, id) -> RespFor("configure", 200, id) /\ UNCHANGED challenges
       [] \E j \in 1..Len(challenges) \ {id} : challenges[j].image = img ->
            RespFor("configure", 409, id) /\ UNCHANGED challenges
       [] n >= DbPortLimit -> RespFor("configure", 400, id) /\ UNCHANGED challenges
       [] OTHER -> challenges' = [challenges EXCEPT ![id].image = img, ![id].ports = n]
                   /\ RespFor("configure", 200, id)
  /\ UNCHANGED <<codeVars, authVars, ctfs, categories, launches>>

\* set_connection_instructions: the body extractor runs before the handler
\* (a non-UTF-8 body is 400 whatever the admin may do); an empty body
\* clears the instructions.
SetConnectionInstructions(a, id, body) ==
  /\ a \in adminJwts
  /\ CASE body = "non_utf8" -> RespFor("instructions", 400, id) /\ UNCHANGED challenges
       [] ~Perm(a, "can_create") -> RespFor("instructions", 403, id) /\ UNCHANGED challenges
       [] ~Row(challenges, id) -> RespFor("instructions", 200, id) /\ UNCHANGED challenges
       [] OTHER -> challenges' = [challenges EXCEPT ![id].instr = (body = "text")]
                   /\ RespFor("instructions", 200, id)
  /\ UNCHANGED <<codeVars, authVars, ctfs, categories, launches>>

\* set_archive: no field removes the archive.
SetArchive(a, id, up) ==
  /\ a \in adminJwts
  /\ CASE ~Perm(a, "can_create") -> RespFor("archive", 403, id) /\ UNCHANGED challenges
       [] up = "other_field" -> RespFor("archive", 400, id) /\ UNCHANGED challenges
       [] ~Row(challenges, id) -> RespFor("archive", 200, id) /\ UNCHANGED challenges
       [] OTHER -> challenges' = [challenges EXCEPT ![id].archive = (up = "zip")]
                   /\ RespFor("archive", 200, id)
  /\ UNCHANGED <<codeVars, authVars, ctfs, categories, launches>>

\* get_metadata: a missing row is 404; the response's category_id is set
\* from query.challenge_id.
GetMetadata(c, id) ==
  /\ c \in userJwts
  /\ IF Row(challenges, id)
       THEN resp' = [op |-> "metadata", status |-> 200, id |-> id, cat |-> id]
       ELSE RespFor("metadata", 404, id)
  /\ UNCHANGED <<codeVars, authVars, dbVars, launches>>

\* The read-only handlers, each behind the JWTUser extractor.
\* ctfs::list: every row; the NaiveDate -> Date conversion of a stored
\* date (a u16 year that from_ymd_opt accepted) does not fail.
ListCtfs(c) ==
  /\ c \in userJwts
  /\ Resp("ctf_list", 200)
  /\ UNCHANGED <<codeVars, authVars, dbVars, launches>>

\* categories::get: the rows of a CTF (an unknown CTF gives []); parse of a
\* stored category_type that names no variant panics in expect, and the
\* client's connection is dropped.
GetCategories(c, f) ==
  /\ c \in userJwts
  /\ IF \A r \in ToSet(categories) :
          r.ctf = f => ParseCategoryType(r.ctype) # "None"
       THEN Resp("cat_get", 200)
       ELSE Resp("cat_get", 0)
  /\ UNCHANGED <<codeVars, authVars, dbVars, launches>>

\* challenges::list: the ids of a category's challenges ([] if unknown).
ListChallenges(c, cat) ==
  /\ c \in userJwts
  /\ Resp("chall_list", 200)
  /\ UNCHANGED <<codeVars, authVars, dbVars, launches>>

\* get_archive: 404 for a missing row, else the archive or an empty body.
GetArchive(c, id) ==
  /\ c \in userJwts
  /\ Resp("get_archive", IF Row(challenges, id) THEN 200 ELSE 404)
  /\ UNCHANGED <<codeVars, authVars, dbVars, launches>>

\* get_flag: 404 for a missing row and for a challenge without a flag.
GetFlag(c, id) ==
  /\ c \in userJwts
  /\ Resp("get_flag",
          IF Row(challenges, id) /\ challenges[id].flag THEN 200 ELSE 404)
  /\ UNCHANGED <<codeVars, authVars, dbVars, launches>>

-----------------------------------------------------------------------------
(* Launches (challenges.rs start and host_demo, challd.rs start_container) *)

\* by is the key that signed the caller's login (ghost), NotAKey for a guest.
Launch(mode, code, by, id) ==
  /\ Len(launches) < MaxLaunches
  /\ launches' = Append(launches,
       [mode |-> mode, code |-> code, by |-> by, chall |-> id,
        image |-> challenges[id].image, ports |-> challenges[id].ports])

\* The daemon's answer: OK, or an error status (busy, invalid port) that
\* start_container turns into a 500.
LaunchResp(op, id) == \E st \in {200, 500} : RespFor(op, st, id)

\* Mutant: start without the JWTUser extractor.
StartUnauthenticated(c, id) ==
  /\ CASE ~Row(challenges, id) -> RespFor("start", 404, id) /\ UNCHANGED launches
       [] challenges[id].image = NoImage -> RespFor("start", 404, id) /\ UNCHANGED launches
       [] OTHER -> Launch("guest", c, NotAKey, id) /\ LaunchResp("start", id)
  /\ UNCHANGED <<codeVars, authVars, dbVars>>

\* start: needs a user JWT, whose guest code goes to the daemon; a missing
\* challenge or one with no docker image is 404.
Start(c, id) ==
  /\ c \in userJwts
  /\ CASE ~Row(challenges, id) -> RespFor("start", 404, id) /\ UNCHANGED launches
       [] challenges[id].image = NoImage -> RespFor("start", 404, id) /\ UNCHANGED launches
       [] OTHER -> Launch("guest", c, NotAKey, id) /\ LaunchResp("start", id)
  /\ UNCHANGED <<codeVars, authVars, dbVars>>

\* Mutant: host_demo without the can_host_demo check.
HostDemoUnchecked(a, id) ==
  /\ a \in adminJwts
  /\ CASE ~Row(challenges, id) -> RespFor("demo", 404, id) /\ UNCHANGED launches
       [] challenges[id].image = NoImage -> RespFor("demo", 404, id) /\ UNCHANGED launches
       [] OTHER -> Launch("demo", "none", a.signer, id) /\ LaunchResp("demo", id)
  /\ UNCHANGED <<codeVars, authVars, dbVars>>

\* host_demo: can_host_demo, then as start, in demo mode.
HostDemo(a, id) ==
  /\ a \in adminJwts
  /\ CASE ~Perm(a, "can_host_demo") -> RespFor("demo", 403, id) /\ UNCHANGED launches
       [] ~Row(challenges, id) -> RespFor("demo", 404, id) /\ UNCHANGED launches
       [] challenges[id].image = NoImage -> RespFor("demo", 404, id) /\ UNCHANGED launches
       [] OTHER -> Launch("demo", "none", a.signer, id) /\ LaunchResp("demo", id)
  /\ UNCHANGED <<codeVars, authVars, dbVars>>

-----------------------------------------------------------------------------

\* Ids a request may name: every row, and one past the last.
Ids == 1..(MaxRows + 1)

\* Key ids a login may name: the two keys and an unknown one.
LoginIds == KeyIds \cup {NotAKey}

Other == UNCHANGED <<authVars, dbVars, launches, resp>>

Next ==
  \/ \E k \in LoginIds : InitiateChallenge(k)
  \/ \E k \in KeyIds, s \in Signers : FinishChallenge(k, s)
  \/ \E k \in KeyIds : ChallengeJwtExpires(k)
  \/ \E a \in adminJwts :
       \/ AdminJwtExpires(a)
       \/ WipeCodesReq(a)
       \/ \E c \in Codes : GenerateCodeReq(a, c)
       \/ \E n \in Names, sd, ed \in DateInputs : CreateCtf(a, n, sd, ed)
       \/ \E n \in Names, f \in Ids, t \in CategoryInputs :
            CreateCategory(a, n, f, t)
       \/ \E n \in Names, cat \in Ids, up \in Uploads, ci, fl \in BOOLEAN :
            CreateChallenge(a, n, cat, up, ci, fl)
       \/ \E id \in Ids :
            \/ \E img \in Images, n \in PortCounts : ConfigureDocker(a, id, img, n)
            \/ \E b \in {"text", "empty", "non_utf8"} : SetConnectionInstructions(a, id, b)
            \/ \E up \in Uploads : SetArchive(a, id, up)
            \/ HostDemo(a, id)
  \/ \E c \in Codes :
       \/ RedeemCodeReq(c)
       \/ UserJwtExpires(c) /\ Other
       \/ ListCtfs(c)
       \/ \E id \in Ids :
            \/ Start(c, id) \/ GetMetadata(c, id) \/ GetArchive(c, id)
            \/ GetFlag(c, id) \/ GetCategories(c, id) \/ ListChallenges(c, id)
  \/ TimerFires /\ Other

Spec == Init /\ [][Next]_vars

-----------------------------------------------------------------------------
(* Properties                                                              *)

\* The rows of schema.rs's tables, with the columns the handlers tell
\* apart: a CTF is its name (its dates are checked on the way in and are
\* data afterwards); a category its name, ctf_id and category_type text;
\* a challenge its name, category_id, docker_image, the number of
\* port_numbers (port_types has one per number), and whether
\* connection_instructions, archive and flag are set.  References are row
\* ids (joinable!), among the rows that exist.
CtfRows == Names

CategoryRows(nCtfs) ==
  [name : Names, ctf : 1..nCtfs, ctype : {AsStr[t] : t \in CategoryTypes}]

ChallengeRows(nCats) ==
  [name : Names, category : 1..nCats, image : Images \cup {NoImage},
   ports : {0} \cup PortCounts, instr : BOOLEAN, archive : BOOLEAN,
   flag : BOOLEAN]

LaunchRecords ==
  [mode : {"guest", "demo"}, code : Codes \cup {"none"}, by : Signers,
   chall : Ids, image : Images, ports : PortCounts]

ArchiveTypeOK ==
  /\ CodeTypeOK
  /\ chJwts \subseteq KeyIds
  /\ adminJwts \subseteq [id : KeyIds, signer : KeyIds]
  /\ ctfs \in Seq(CtfRows)
  /\ categories \in Seq(CategoryRows(Len(ctfs)))
  /\ challenges \in Seq(ChallengeRows(Len(categories)))
  /\ launches \in Seq(LaunchRecords)

\* The docker columns of the challenges table: what configure_docker writes.
DockerCols(tbl) == [i \in DOMAIN tbl |-> <<tbl[i].image, tbl[i].ports>>]

\* No step writes the tables unless someone holding the private key of an
\* id allowed to make that write signed a login challenge: a changed
\* docker image or port list needs a signer with can_docker, any other
\* change of ctfs, categories or challenges one with can_create.  Takes a
\* login (initiate_challenge, finish_challenge's signature check) and a
\* handler's permission check, in either order of the two keys.
AdminWritesAuthorized ==
  [][ LET docker == DockerCols(challenges') # DockerCols(challenges)
          other  == \/ ctfs' # ctfs
                    \/ categories' # categories
                    \/ challenges' # challenges /\ ~docker
      IN  /\ docker => \E a \in adminJwts : KeyPerms[a.signer].can_docker
          /\ other => \E a \in adminJwts : KeyPerms[a.signer].can_create ]_dbVars

\* Every demo launch (which opens host ports on 0.0.0.0) was asked for by
\* a caller who signed a login challenge with a key that may host demos:
\* finish_challenge and host_demo together keep the invite-only key, and
\* anyone without a key, from punching holes in the firewall.
DemoLaunchAuthorized ==
  \A i \in 1..Len(launches) :
    launches[i].mode = "demo" => KeyPerms[launches[i].by].can_host_demo

\* Every guest launch carries the code of an invite that was redeemed.
GuestLaunchRedeemed ==
  \A i \in 1..Len(launches) :
    launches[i].mode = "guest" => redeemed[launches[i].code] > 0

=============================================================================
