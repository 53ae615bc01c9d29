# fakeaws in TLA+

fakeaws serves AWS control-plane APIs out of one SQLite database, so that Terraform can be tested
against it. This directory holds TLA+ models of its stateful parts, the TLC runs that check them on
small instances, and TLAPS proofs of what matters most for every instance. Paths below are relative
to the repository (`repository/iam.go` is `src/repository/iam.go`).

## The system

One process, one database file, one SQL connection.

| Component | State | Operations | Module |
|---|---|---|---|
| Admin plane and lifecycle (`handlers/handlers.go`, `handlers/admin.go`, `repository/repository.go`, `repository/identity.go`) | the database file, `<db>.snapshot`, `identityMu`, the stored account, the `loaded` flag | boot, `/mock/identity`, `reset`, `snapshot`, `restore`, `load`, a kill and a new boot | `DbFile`, `MockStore`, `Lifecycle` |
| Request log (`handlers/recorder.go`) | a list of the requests answered | append after each answer, cleared by load, reset and `/mock/requests/clear` | `RequestLog`, composed in `Load` |
| Load pipeline (`handlers/load*.go`, `repository/load*.go`) | none of its own; one transaction that replaces every row | `POST /mock/load` | `LoadRows`, `Load`; as one step in `Lifecycle` |
| IAM (`handlers/iam.go`, `repository/iam.go`) | roles, users, policies, profiles, what hangs on them | about thirty writing operations | `IAMStore`, `IAM` |
| Resource tags (`handlers/tags.go`, `repository/tags.go`) | `resource_tags`, emptied by triggers | tag, untag, the tagged create and its undo | in `IAM`, `Route53`, `SQS`, `EC2Network`, `ManagedServices` |
| Route 53 (`handlers/route53.go`, `repository/route53.go`) | zones, record sets, change records | create, delete, change batches, tags | `Route53` |
| SQS (`handlers/sqs.go`, `repository/sqs.go`) | queues, messages, the tombstone | create, delete, attributes, tags, send, receive, delete message | `SQS` |
| Secrets Manager (`handlers/secretsmanager.go`, `repository/secretsmanager.go`) | secrets, versions and their stages | create, put, delete, restore, tag | `SecretsManager` |
| EC2 network (`handlers/ec2.go`, `repository/ec2.go`, `repository/ec2_tags.go`) | VPCs, subnets, gateways, route tables, associations, routes, tags, with their foreign keys, cascades and triggers | create, modify, attach, associate, delete, tag | `EC2Network` |
| EC2 compute (`repository/ec2_compute.go`, `repository/ec2_volumes.go`) | instances, interfaces, volumes, images, key pairs | launch, terminate, modify | `EC2Interfaces`; what an instance holds of a subnet in `EC2Network` |
| RDS, EKS, DynamoDB, S3 (`handlers/{rds,eks,dynamodb,s3}.go`, `repository/{rds,eks,dynamodb,s3}.go`) | database groups, clusters and instances; node groups, add-ons; tables and items; buckets and configurations; their foreign keys and tags | create, put, update, delete, tag | `ManagedServices` |
| EC2 security groups, interfaces and addresses (`repository/ec2.go`) | groups and rules, interfaces, Elastic IPs | create, authorize, revoke, modify, associate, delete | `EC2Interfaces` |
| KMS, SSM, STS | rows, one SQL statement or transaction per operation | create, update, delete | not modelled, but for two KMS operations in `Lifecycle` and the load of parameters in `LoadRows` |
| Wire formats (`handlers/awsproto`), audit matrix, command line | none | parsing, rendering | not modelled |

**How they interact.** Every AWS request runs in a goroutine of its own. Outermost is the recorder
(`recordRequests`), then `holdIdentity`, which takes `identityMu` shared for the whole request; the
admin operations take it exclusively. The handler reads the stored account, then calls methods of the
`Repository`, each of which runs a few SQL statements.

**What is atomic.** `openDB` sets `SetMaxOpenConns(1)` (`repository/repository.go:144`), so a single
`Exec` or `Query` is atomic, and so is a transaction (`inTx`), while the statements of two requests
interleave freely. Every module below takes one step per statement or transaction. This is where the
hard behaviours come from: a handler that reads, decides and writes in separate statements decides on
rows that may be gone, and a handler of several writes may be half done when another request looks,
or when its own next statement is refused.

**What is hard**, by component, and the properties that speak of it:

- *Lifecycle*: the file operations of snapshot and restore, a kill between any two of them, and
  `identityMu` between requests of several statements and the admin operations
  (`RowsUnderStoredAccount`, `SnapshotBetweenRequests`, `ServesReadable`, `ImplementsMockStore`).
- *IAM*: deletes that must refuse while something refers to the entity, beside calls that add
  references, all in SQL conditions and foreign keys (`NothingIsLeftBehind`,
  `HeldEntitiesStay`, `ImplementsIAMStore`).
- *Route 53*: a batch validated whole and then applied change by change (`QuietBatchApplies`).
- *SQS*: visibility, receipt handles and the tombstone, with no foreign key from a message to its
  queue (`QueuesAreSound`, `MessagesStay`, `QuietReceiveHidesWhatItHands`).
- *Secrets Manager*: the stage labels moved version by version, and a terminal state checked before it
  is written (`QuietPutMovesCurrent`, `QuietDestroyedStays`).
- *EC2 network*: multi-row deletes by cascade beside requests that looked a row up, a CIDR check that
  must see every sibling, a delete that cleans up by an earlier list (`NetworkIsSound`,
  `SubnetsNeverOverlap`, `DeletesSpareTheLiving`).
- *EC2 interfaces*: one association written in three rows (the address, the interface's column, the
  interface's JSON), read whole, changed in memory and written back whole (`InterfacesAreSound`,
  `NothingDangles`, `InStepTheyAgree`).
- *RDS, EKS, DynamoDB and S3*: creates that look up several rows and then insert, with foreign keys
  for some of them, an update that merges what it read, and a protection flag read before the row it
  guards is deleted by name (`RowsAreSound`, `WritesAreSound`, `QuietProtectedStay`).
- *Load*: pages in any order, loaders that need one another's rows, and a transaction that a failed
  statement may have ended (`SoundRecordingsLoad`, `LoadTakesItAll`, `LoadedIsSound`,
  `RefusedLoadChangesNothing`).
- *Request log*: an entry appended after the lock is let go, a clear under it (`LogIsOfTheseRows`).

`PROJECT.json` lists each hazard at its line.

## The modules

Conventions, common to the service modules: `pc[c]` is the statement a request is at, `req[c]` what
was sent, further variables what it has read into memory, `ans[c]` its answer. `Send` is the request's
arrival and each action is named after the handler or repository method it stands for; the last
statement of a request returns its client to `"idle"`. A row is reduced to what the properties tell
apart: a document or a description is the request that wrote it, a name is a model value.
`quiet[c]` is a history variable: no other request has written to what `c` works on since `c` began.
No action reads it. Properties that hold of any sequential client, and fail under interference, are
stated of quiet requests. They say what the several statements of one request come to, beside
requests that write elsewhere; they say nothing of the interleavings the code lets through, which are
listed under *Other divergences* below and have no property in `hazards` but a note. What a request had read is forgotten when it is answered: nothing reads it
afterwards, and states that differ in it alone are one.

### DbFile, MockStore, Lifecycle

`DbFile` is a database file: whether it is readable and of this schema version, the stored account, the
`loaded` flag, and its rows reduced to the kinds present per account. `resetTables` keeps the order in
which `Reset` empties the tables, six groups of them. `MockStore` is the abstract specification: each
admin operation one step on the pair (live file, baseline), each request writing under the stored
account only, and, for each fault, the only states an operation cut short may leave. `Lifecycle` has
the steps of the code: the boot (`NewApplication`), requests with `identityMu`, `Reset` table by table,
`Snapshot` (remove, VACUUM, rename), `Restore` (stage, check, close, copy over, reopen), kills at any
point. `ImplementsMockStore` is the refinement: while an admin operation
holds the lock, the files count as those it found.

`identityMu` is Go's `sync.RWMutex`: a waiting writer blocks new readers, blocked readers enter on
`Unlock`. Not modelled: in-memory databases, registered caches (the program registers none), the request log (it is in `Load`), `.tmp`
and `.restore` leftovers, which the next operation overwrites. The WAL counts as part of the live
file.

### IAMStore, IAM

`IAMStore` says what IAM promises: entities (roles, users, policies, profiles), what hangs on them,
and one atomic step per change. `IAM` has each handler as its statements: the lookup before a write,
`NOT EXISTS` conditions, foreign keys, cascades and triggers, the lazily seeded AWS-managed policies,
and the undo of a tagged create. `ImplementsIAMStore` says that every statement is one of the store's
steps, or none. The proofs are in `IAMProofs`.

### Route53

Zones draw their ids from `Zones`, again after a delete (the code draws 32 random bits). A zone is
created in three statements, deleted after a count. A batch goes through `r53ExistenceError` change by
change (`seen` is the handler's map of what the batch has changed so far) and is then applied change by
change. Names carry their trailing dot or lack it, as zone names do in the code.

### SQS

A message is a row with its queue, handle, visibility and receive count. `time` is the clock in
seconds; each request that needs it reads it once, as the handlers do, and it may run on before the
request's next statement. A receive is a SELECT and one UPDATE per message; a negative `MaxNumberOfMessages` is no
LIMIT, and a negative `VisibilityTimeout` leaves visible what it hands out. The tombstone is a queue
name like any other to `CreateQueue` and to a receive, and the empty handle one like any other to
`DeleteMessage`, which is what the code does: `MessagesStay` says what stays all the same.

### SecretsManager

A secret is its state and tags, a version its stages. A put reads the versions, updates each and
inserts; a restore or delete reads the state and writes the next. `AWSPENDING` stands for every label
that is neither `AWSCURRENT` nor `AWSPREVIOUS`. No request deletes a secret's row.

### EC2Network

Seven tables, each a function from ids to rows or `None`, `route` by table and destination, `tagged` the
ids with tags. Ids are drawn once: the code draws 64 random bits, so an id is not expected again, and
`used` records it. A request that is one statement or transaction is one step. A longer one takes its
lookups in the step it arrives in and each write in one of its own. This loses nothing: as ids do not
recur, a row that was found can only be deleted before the write, which the model allows, and a row
that was not found is refused. `ModifyVpcAttribute` keeps its two reads apart, for the row changes in
between. A refusal by a lookup changes nothing and is no step. `DeleteVpc` and `DropSubnet` carry the
cascade and each row's trigger; `Restricted` is the foreign key from instances and their interfaces. An
instance is its subnet and whether it lives. The undo of a tagged create is left out: `PutTags` has no
foreign key, so only a failing disk reaches it. The default security group of a VPC is in
`EC2Interfaces`; no property here depends on it.

### EC2Interfaces

Security groups and their rules, instances, network interfaces, Elastic IPs and loaded volumes, in VPCs
and subnets that stay: a VPC or subnet whose interfaces stand cannot be deleted, and the other races of
their deletes are `EC2Network`'s. An interface is its subnet and private address, its `instance_id`
column, and `data`, the JSON that names the instance once more, with its groups, its public address and
the two flags. A request that changes an interface reads it (`seen`) and writes `data` back whole in a
transaction of its own; that transaction checks some of what it was decided on and not the rest, and
`inStep` records whether any write so far was of a row that had changed meanwhile. `placeRule` keeps the
two ordinals of a rule, `sgPermissions` what DescribeSecurityGroups makes of the rules. A launch draws
ids, takes the subnet's first free private address and derives a public one from the id
(`ec2DerivePublicIP`), moving on while it is taken. A termination is one transaction for all its
instances. `Load` begins a behaviour with the rows a load may have stored: interfaces that termination
keeps and volumes with `deleteOnTermination`, which no request of the mock creates.

Left out: secondary private addresses (only a load stores them and no request changes them), key pairs
and images (one statement each), the tags of the creates, group names and descriptions.

### LoadRows, RequestLog, Load

`LoadRows` is what each loader makes of an item: the order of the loaders (`LoadOrder`), the rows its
write needs, the references checked at the end, what the write refuses, and the rows another
resource's answer must agree with. An item's fields are those that name other rows or that another row
holds a copy of; a field that one row alone holds is left out, and `load_diff.go`, which compares the
rendered trees, is equality of these fields. `RequestLog` is `recordRequests`: what a handler writes
and marks, a panic's settling, and the deferred append, which runs after `identityMu` is let go.
`Load` composes the two with the transaction of `POST /mock/load`: the linking of pages by their
tokens, the delete of every row, one step per item, the repeats, the references, the comparison, and
the commit or rollback, where any statement may fail and SQLite may have ended the transaction. A body
that a loader cannot decode is refused or ends the load (`Decodes`); a panic, in a decoder, a write or a
render, ends it as a failed statement does (`guard`), by `Abort`, and is no step of its own. The
load holds the lock exclusively and the only connection, so nothing reads between its steps but
`LogAppend` and `/mock/requests/clear`, which take no lock.

### ManagedServices

RDS, EKS, DynamoDB and S3 have one shape, so one module: `row[e]` is the row of an entity (a kind and
its key), that is, the references it was created with, whether it is protected, and an item's
attributes. A create is `Receive`, one `LookUp` for each thing it names, `Insert`, and `tagCreated` with
its undo; a delete is one statement (`DeleteRow`) or reads protection and counts replicas first.
`Insert` refuses a row whose parent is gone (`KeysHold`) and replaces an item or a configuration,
`Held` is RESTRICT, `WithChildren` the cascade to an EKS cluster's node groups and add-ons, a table's
items and a bucket's configurations. `ddbUpdateItem` reads the item (`GetDynamoDBItem`) and writes it
back with its attributes over what it read (`Merged`). Of the children a parent may have, which do not
interact, one of each kind is taken, and of a bucket's six kinds of configuration one: all six are put
alike, and it stands for the three (policy, public access block, tagging) that a DELETE may name. A
DELETE that names another of the six deletes the bucket (`handlers/s3.go:200`), which is `s3DeleteBucket`. A table's key schema is left out, an item being one key.

Subnets, security groups and roles are rows of EC2 and IAM, which `ForgetOutside` deletes and
`CreateRole` creates again: subnets and groups have random ids that do not recur, roles have names. The
comparison of VPCs, which reads only rows that do not change, is taken with the INSERT. References are
sets: a DB subnet group has to list two subnets, which may be the same one twice. A second lookup of a
row just looked up, before a write that its foreign key checks, is left out, and so is the last read of
a create, whose result is only rendered, and `ModifyDBInstance`, which reads and answers.

In the modules of the services: one account and one region; operations that only read, and refusals made
before any statement (malformed input), are left out, since they change nothing.

## The runs

`X.cfg` is the run `X`; the properties are defined, with the behaviour they are about, at the end of
their module. Deadlock is checked in every
run but `ec2_network` and `ec2_interfaces`, where the ids run out.

`IAM`, `SQS`, `EC2Network`, `EC2Interfaces`, `ManagedServices` and `Load` take their operations, or their
recordings, from `Mixes`: a behaviour chooses one set of
operations at its start and its clients send those. Whatever follows from two requests of any two
operations of one set is explored, and the cost is the sum of the sets, not their product.

| Run | Shows |
|---|---|
| `lifecycle` | Two requests of several statements beside every admin operation, with no fault: identityMu keeps a request on the account it read and whole in or out of a baseline, no counted row ends up under another account, nothing is minted into a loaded database and every other VPC served has its defaults. |
| `lifecycle_faults` | Under every fault modelled (kills, failed deletes, VACUUMs and copies) an admin operation cut short ends only where MockStore lets it, and no file of another schema version goes live. |
| `lifecycle_live` | Two clients beside resets, snapshots, restores and kills, with fairness: a waiting request is let in and a waiting admin operation gets the lock, however many requests keep coming, and what is served can be read. |
| `iam` | Two clients create, attach, tag, change and delete roles, managed policies and instance profiles, or users with keys and policies, statement by statement: nothing is left of an entity that is gone, nothing held goes, DeleteUser takes no key or policy along although its foreign keys cascade, and every statement is a step of IAMStore. |
| `route53` | All four writing operations by two clients on one zone id, under a dotted and an undotted name, with batches of up to two changes: the cascade and the trigger leave nothing of a deleted zone, record sets are stored under one form of their name, and what r53ExistenceError predicts of a batch is what applying it meets when nobody else writes to the zone. |
| `sqs` | Two clients, over two seconds: queues created with and without tags, changed, tagged, deleted, sent to and received from, and two messages under two receivers. A request that no other write overlaps orphans no message, every delivery is counted, a message leaves only by a handle it was handed out under or, never received, by the empty one, and a rebadged message changes only by a request that names the tombstone. Negative timeouts and LIMITs, the empty handle and a queue of the tombstone's name are among the requests. |
| `secrets` | Two clients create a secret, put values with and without stage labels, tag, schedule for deletion, restore and destroy it: a put that no other write overlaps moves AWSCURRENT to its own version, and no request that runs alone revives a destroyed secret. |
| `ec2_network` | Two clients on two VPCs: subnets of overlapping blocks, route tables with associations and routes, gateways, instances and tags, created, changed and deleted beside each other. No row is left without its parent, every VPC keeps its one main route table and each table its local route, no two subnets of a VPC overlap, and a delete takes exactly what it should. |
| `managed` | Two clients create, tag, protect and delete RDS groups, clusters, instances and replicas, EKS clusters, node groups and add-ons, DynamoDB tables and items, or S3 buckets and configurations, beside EC2 and IAM that delete what these name: no foreign key or tag outlives its parent, a group or cluster is of one VPC, a node group takes subnets of its cluster, an update of an item changes what it names, and a protected database goes only to a request that was overtaken. |
| `load` | Recordings of an instance, a network, an IAM role and paged key pairs, whole, torn or at odds with themselves, are loaded a statement at a time, with failing statements and with requests still to be logged: a load leaves sound rows or what it found, takes every item of every page, and refuses no recording that holds together. |
| `ec2_interfaces` | Two clients on two VPCs and one subnet, from nothing or from a load: groups and their rules, launches and terminations, changes of instances and interfaces, and Elastic IPs allocated, associated and released beside each other. Rules are shown as they were given, addresses are unique, nothing is left of what terminated, and an interface and its address disagree only after a request wrote over what it had not read. |

Runs that are expected to fail, each on one property that a comment or document of the repository
states; `findings` in `PROJECT.json` quotes it:

| Run | Counterexample |
|---|---|
| `route53_half_batch` | Another request's DELETE between a batch's validation and its end: the batch answers an error with its earlier changes in place. |

Other divergences of the same kind, read in the code and admitted by the models, each a plain
counterexample when its property is stated without the quiet condition, have no run of their own:

- Tagged creates (`handlers/tags.go:42`): the tags are a transaction of their own and the undo deletes
  by name, so when another request deletes the new resource first, and a third creates it again, the
  undo takes the third's.
- RDS: `ModifyDBInstance` stores nothing, though `concepts.md:297` has it for in-place updates; a
  protected cluster created between the read and the DELETE of a delete goes with it; an instance may
  become its own replica, which no request can delete; `CreateDBInstance` and
  `CreateDBSubnetGroup` fail on a nil row when theirs is deleted before they read it back.
- EKS: node groups of subnets that are not their cluster's, when the cluster is replaced meanwhile.
- IAM: a `DeletePolicy` that finds no row answers `DeleteConflict` when the policy is created between
  its DELETE and its read; an account's policy that bears a managed policy's name hides it from
  `SeedManagedPolicy`.
- Route 53: `DeleteHostedZone` between a count of no records and its DELETE loses a record put in
  between; two overlapping batches may both CREATE one key, the second replacing the first.
- SQS: a send that has looked its queue up stores its message after the queue is gone; the receipt
  handle of a message is the same on every receive; a message never received has the empty handle, and
  `DeleteMessage` with it (`handlers/sqs.go:400`) takes every such message of the queue; overlapping `SetQueueAttributes` lose one another's attributes, and
  may set `FifoQueue` on a queue whose name says otherwise; the tombstone's name can be created (`repository/sqs.go:103`), a receive from it
  stamps what was rebadged, and no request deletes it again (`repository/sqs.go:194`).
- Secrets Manager: a put with stages of its own leaves no version `AWSCURRENT`, and overlapping puts
  leave two (`repository/secretsmanager.go:330`); a restore or a
  scheduled delete brings a destroyed secret back.
- EC2: a gateway attached while its VPC is deleted stays attached to the VPC that is gone; tags put on
  a resource that is deleted meanwhile stay without it; overlapping `ModifyVpcAttribute` calls lose one
  another's change, and turn host names on beside DNS support that was turned off meanwhile. A
  `ModifyNetworkInterfaceAttribute` or an association that another one overtakes writes back what the
  other changed. Terminated instances hold a subnet's rows until `DeleteSubnet` purges them; `DeleteVPC`
  does not, though the comment at `handlers/ec2.go:3642` names both.
- DynamoDB: overlapping `UpdateItem` calls on one item lose one another's attributes; an item put while
  its table is created again with another key schema is kept under the old key.
- Load: an address that names an instance is not compared with the instance its interface is on.
- Lifecycle: a reset cut short before `ec2`'s tables leaves rows under no stored account, as
  `MockStore` states; the request log may receive an entry of a request answered before it was cleared.

**Bounds.** Two requests in flight are enough for every race named above: each is between one reader
and one writer of the same row. `lifecycle_faults` has one, for its questions are about the admin operations and their files, and
a request whole in or out of a baseline is `lifecycle`'s. One name per kind, so that all requests
collide. `lifecycle` sends the requests of several statements that write (`CreateHostedZone`), that
seed (`DescribeImages`) and the one backfill is about (`CreateVpc`), with every admin operation;
`lifecycle_faults` adds the delete and every fault; `lifecycle_live` has one account and no identity
change or load, which hold the lock like the others, and the two KMS operations. In `Lifecycle`
nothing counts: rows are kinds present. `route53` has batches of one change and pairs of changes, on
record sets of one name: a pair is what the interplay of a change with an earlier one takes. `SQS`:
`Ids` bounds the messages ever sent and each mix says how many are sent (one beside attributes and tags, two without),
which names are created (the third mix creates the tombstone's too), what receives ask for (a negative
limit and a negative timeout among them; the empty handle is among `Handles`), and how often messages
are handed out before no more requests come (`most`), for a negative timeout hands out without end.
`MaxTime` bounds the clock, at one second: a visibility timeout of one second runs out and is set again. `secrets`: `Versions` bounds the values put; three give each of current, previous and
older. `ec2_network` has two VPCs, two subnets with three blocks of which two overlap the third, a main
and an extra table, and one gateway: enough for a row to be held by a VPC that another delete takes.
Its mixes are routing, routes, gateways, a refused delete, attributes, instances and tags, each with
the creates and deletes of the VPCs and of what it needs. `ec2_interfaces` has two instances, two
interfaces (one may be a load's) and two addresses, so that each may take what the other has; a subnet of two private
addresses, one of them asked for by launches (`Wanted`), so that it fills up; and a public range of
three (`Net`) in which every id derives the same one, so that the second has to move on. `MaxAsked` is the rules one
authorize lists, `Singly` the operations of which one request at a time is in flight: what an
authorize or a launch looks up is groups and a subnet, which no other one writes, so two of them in flight
do what one after the other does. `Protection` lets a launch ask for termination protection in the
mixes that terminate, for a termination alone reads it. `GroupLists` are lists of one group. `managed` has one row of each kind, and two
instances, for a replica and its source; its mixes are RDS groups and clusters, replicas, parameter
groups, tagged databases, EKS clusters with node groups, and with tagged add-ons, DynamoDB with two
attributes and tags, and S3; of the subnets two are of one VPC and the third of another. `load` posts
every combination of a small set of items per mix: an instance with its interface, address and volume
(each present or not, agreeing or not); a VPC with gateways, route tables (one with the edge association of a gateway), groups and rules; roles,
profiles, images and parameters with refused and undecodable answers; two and three pages of one read
or two, with repeats; failing statements; and requests beside loads and resets (`MaxCalls`, `MaxLoads`).

**Fairness** is assumed in `lifecycle_live` alone: weak fairness of every request's own steps and of
the admin operation's. A goroutine that can run is run by Go's scheduler, every SQL statement ends,
and Go's `RWMutex` lets blocked readers in when the writer unlocks. Nothing makes a client send, or
fairness would hide that no admin operation is ever needed.

## The proofs

`AdminPlaneProofs` holds two developments that share no state, of `Lifecycle` and of `Load`. Of
`Lifecycle` it proves, for any clients, accounts, operations and faults, that `IInv` is inductive: the types, that a writer holds the lock alone (`Mutex`), that a booting process has no requests
(`BootAlone`), what the operation under way has been given (`JobOK`), that a lazy seed still sees an
unloaded database (`SeedsUnloaded`), and the two properties themselves. Without `Mutex` an identity
change could fall between a request's read and its write; without `JobOK` a restore might copy another
file than the one it checked. From it follow `AccountKept`, `NothingMinted`, `SnapshotWhole` and
`OtherVersionStaysOut`. They rest on `DefaultAssumption` and `OpsAssumption`.

`IAMProofs` proves `IAMStore`'s own integrity first (`StoreIsSound`: what hangs on an entity hangs on
one that exists), then that every statement of every handler is a step of `IAMStore` or leaves its
variables alone (`Implementation`). The invariant of `IAM` adds to the store's what a request holds in
memory between its statements. `NothingLeft` and `HeldStay` carry the store's promises
over to the statements.

`ManagedServicesProofs` proves, for any clients, names, references, attributes and mixes, that
`RowsInv` (rows of their tables, parents stored, tags of stored rows), `ClientsInv` (what a request
holds in memory) and `ProtInv` are inductive. Each kind of statement has a lemma (`ReceiveStep`,
`LookUpStep`, `InsertStep`, `DeleteRowStep`, ...), and each handler cites those it is made of. `ProtInv`
says that what a request read of `deletion_protection` still holds while no other step has written
a row; without it nothing ties the row a DELETE takes to the one that was read. `LookInv` is the same
for a create: what it has looked up is still there while it is quiet, and a node group past its
cluster's look-up holds that cluster's row as it was, whose own subnets are of one VPC (`ClustersInv`);
without it the node group's subnets would be compared with a row nothing is known of. `Told` sorts a
create's statements (looks up, reads, inserts, rests) from all others and leaves the other requests'
memory alone. From these follow `RowsStaySound`, `ProtectedStay` and `WrittenAsChecked`. They rest on
`EntitiesAssumption` (entities are of the kinds modelled; subnets and security groups, and they alone,
have a VPC) and `NoneAssumption` (`None` is no row).

`SQSProofs` proves, for any clients, queues, messages, timeouts and clock, that `Inv` is inductive. To
the types and the two invariants it adds what a request found of its queue (`ClientOK`): a message that
a SELECT returned is in the queue still, in the tombstone or gone (`PickedOK`), without which an UPDATE
that misses it could leave a delivery uncounted; and of a quiet request, that the queue it is to insert
into is there, and the queue it is to drop is empty. Each statement's lemma shows what it leaves the
other requests (`Leaves`: messages only move to the tombstone or go, and a request stays quiet only when
its queue is untouched), and `StepIsGood` puts the two together. `PickInv` adds that what a quiet receive
has picked is in its queue and hidden from nobody at the second it read; `Apart` is why it stays so: a
step that changes a message ends the quiet of every other request of that queue. From these follow
`QueuesStaySound`, `QuietOrphansNothing`, `QuietReceiveHides` and `TrailStays`, without further
hypotheses: only a `DeleteMessage` deletes, and by a handle the row bears, and only a request that
names the tombstone matches a rebadged row (`RequestOn`). They rest on `ConstantsAssumption` and
`NoneAssumption`.

Three more invariants of the lifecycle hold only of some faults, and the theorems say which.
`ServedIsReadable` needs that no copy fails: `ReadInv` says that only a restore closes the file, and
that it has it whole again before it opens it; after a failed copy it stays closed while requests are
let in. `ServedHaveDefaults` needs that no DELETE of a reset fails, but allows kills: `EmptiedInv`
says how far a reset has come (`zone`, `ns`, keys, fixtures and defaults are gone in that order), so
that the one table that is emptied before its VPCs' is never served (`FilledInv`). `RowsStayUnderTheAccount`
needs neither a failed DELETE nor a kill: a reset that is cut short past the identity leaves rows under
an account that is no longer stored (`UnderInv` holds outside `MidReset` alone).

`Implementation` needs no such hypothesis: under any faults `Lifecycle` implements `MockStore`. The
refinement mapping shows the files as the lock was taken, so that the step that lets the lock go
(`Unlock`, a refused boot, a kill) is where an operation's whole effect is seen. `StoreInv` says what
each operation has done so far to the files it found (`IdentityUnderWay` ... `RestoreUnderWay`, one line
per stage), `StaysUnderWay` that every step takes it to the next stage, and `Released` that each stage,
cut there, is an action of `MockStore` or a stutter. `EmptiedIs` is the lemma about `Reset`: its tables
one by one come to what `Emptied` says in closed form, and all six to a fresh database. A snapshot that
fails without a fault of its own needs a database left unreadable by a failed copy, which is why
`ReadInv` is part of it. Every other step is shown to be a stutter or an action of its own
(`ServesAsStore`: a request changes rows of the stored account alone, of the kinds it may write).

`EC2NetworkProofs` proves, for any clients, ids, blocks and number of rows, that `Inv` is inductive: the
row types and the sound network, that what is stored was drawn (`Drawn`: without it a fresh id might name
a row), that a main association goes with its table, and what each request carries. `ListedOK` says
that the instances `DeleteSubnet` listed are not live for good, which is why its later purge takes
none; `ModifyOK` that a quiet change has read the VPC as it is. `RowsFade` is what a step leaves the
others: of rows drawn before it only takes away. `NextInv` shows with the invariant the
four action properties' steps (`Promised`). It rests on `IdsAssumption`.

`Route53Proofs` proves it of batches of any length without induction: `WillBe` says of a key, in closed
form, whether a slice of the batch leaves it stored (its last change in the slice is no DELETE; else as
it was), and `WillBeBehind` and `WillBeAhead` move the slice's ends by one, as validation
and application do. `ValidatedOK` says of a quiet batch that what validation believes is what the changes so
far will leave; `RestFits` that the changes still to apply fit the record sets as they are. It rests on
`ConstantsAssumption`.

`SecretsManagerProofs`: the invariant knows of a quiet put that it has read every version of its secret
and that those it has come past are demoted; rows never go (`RowsStay`), so what a request found
stays. It rests on `ConstantsAssumption` and `NoneAssumption`.

`EC2InterfacesProofs` has the largest invariant. `Drawn` and `OfVpc` tie an interface to groups that
are, or were before they went, of its VPC. `DataFits` says the same of the data a request read, whatever
happened to the interface since, which is what makes a write-over of stale data harmless to the
groups. `Agreement` is `InStepTheyAgree` with `ShownOnce` added (an address is shown by one interface).
The rules of a group are added one by one, so `RulesReadBack` needs an induction over their number;
the library's induction theorems take an operator, and it is done by a first counterexample instead (`Least`,
from well-foundedness): `AddAllIsOK` shows each partial result in the order the read-back relies
on (`Ordered`, `Bounded`), and `ReadBack` that rows so ordered are shown as they were asked. It rests on
`InterfacesAssumption`.

Of `Load`, `AdminPlaneProofs` proves, for any recordings, any rows they replace, any failing statements and
any callers, all five properties the run checks. Four invariants carry them:

- `TxInv`: once SQLite has ended a load's transaction nothing was written since, and a failed statement
  leaves nothing open but the guard and the rollback. Without it a statement after the failure would
  be outside the transaction, and the rollback would not take it back
  (`ARefusedLoadChangesNothing`).
- `LogInv`: while a request's handler runs no load does, so that its era is the rows'; and unless a
  request was still to be logged at the clear, none of an earlier era is (`TheLogIsOfTheseRows`).
- `LoadInv`: what a load has passed, holds and has stored. A *place* is an exchange and an item of it,
  and `Passed` the places behind the load. `HeldInv` says that what is held, and each chain of pages it
  was seen in, is of a place passed; `TakenInv` that a load that refused nothing holds every place
  passed; `RowsInv` that the rows stored are the items held, each on the rows it was written on
  (`Written`); `FoundInv` what `link` and `resolve` found. At the end every place is passed, so the
  items held are the recording's (`EndHoldsAll`, and `ALoadTakesItAll` from it), and rows accepted one
  by one agree with one another (`AcceptedRowsAreSound`: an instance's copy of its interface is shown
  from the interface, an interface's address from the address, and a volume's attachment was compared
  with the mapping when it was written). `UndoInv` carries that over to the load that replaces them
  (`WhatIsLoadedIsSound`).
- `SoundInv`: nothing of a recording that holds together has been refused. Its pages link
  (`SoundRecordingsLink`); what an item's write needs is of a type of lower rank (`ParentsRankLower`),
  so its exchange is behind the load (`NextIsFirst`) and its row is stored (`LowerRanksAreWritten`); an
  item met again is of another read, so of another chain (`ChainWithinRead`); and what is compared at
  the end agrees (`SoundItemsAreAccepted`). This is the theorem about the order in which the loaders
  are registered: two types swapped in `LoadOrder` make `ParentsRankLower` false
  (`WhatHoldsTogetherLoads`).

A chain is a recursive function of the page, so what it is of all pages takes an induction: it is
done by a first counterexample (`HasLeast`, from well-foundedness), in `ChainUnfolds`, which shows that
the function has the value its definition says, and `ChainWithinRead`. They rest on
`RecordingsAssumption` (an exchange holds items of its loader's type; an instance's block devices name a
volume once, as EC2 answers: `checkVolumeAttachment` compares the first that does),
`BeforeAssumption` (rows that a load left before are sound, which the theorem itself shows of each
load; rows never loaded may be any), `MixesAssumption` and `CallsAssumption`.

Only model-checked: `EveryoneGetsIn`, which is liveness under fairness.

## Not modelled

- KMS (but for creating a key and scheduling its deletion), SSM's requests and STS: each operation is
  one SQL statement or one transaction, so no interleaving reaches anything a unit test would not.
- Key pairs and images, for the same reason.
- Wire formats, the audit matrix and the command line: no state.
- Reads with their filters, orders and pages, everywhere: they change nothing, and what they filter is
  layout for the models here.
- The hazards of `PROJECT.json` that have no property, each with a note. Most are interleavings the code
  lets through and nothing in the repository promises to keep out: updates that lose one another
  (`SetQueueAttributes`, `ModifyVpcAttribute`, network interfaces), rows that go between a count or a
  look-up and the write decided on it (a zone's records, a queue under a send, an EKS cluster's role),
  overlapping puts and a forced delete of a secret, a log entry that lands late, a gateway attached to a
  VPC deleted meanwhile, and the undo of a tagged create by name. The models have each of these steps.

## Plan

1. A property of the tagged create's undo that holds without interference.
2. Secondary private addresses, and the tags of interfaces and groups.
