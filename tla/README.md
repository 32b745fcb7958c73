# The light stemcell builder in TLA+

`light-stemcell-builder` takes a machine image, has AWS make an AMI of it in every configured
region, copies the AMIs to further regions, and writes the manifest of a light stemcell that names
one AMI per region. This directory models that program, checks the models with TLC and proves the
properties that matter most with TLAPS. Line numbers refer to the sources in `src/`.

## 1. Inventory

| part | state it keeps | operations | hard part | what makes it correct |
|---|---|---|---|---|
| `main.go` | flags, the configuration as far as it is complete, two shared collections, a `sync.WaitGroup`, the manifest | check flags, read, complete and validate the configuration, one goroutine per `ami_regions` entry, merge, wait, write, exit | interleaved merges; `logger.Fatal` cuts off deferred calls; panics run them | all or nothing: the manifest is written whole and complete, or the run fails |
| `publisher/standard_region.go` | the entry's AMIs and errors, the machine image it must delete | image, KMS alias, snapshot, AMI, one goroutine per copy | copies fail one by one, panic, append concurrently | no error means the source AMI and every copy are there |
| `publisher/isolated_region.go` | the image and the volume it must delete | image, volume, snapshot, AMI | two deferred deletes, order | nothing that is held is left behind |
| `collection/` | a slice under a mutex | `Add`, `GetAll`, `Merge`, `Error` | append is read and store; `GetAll` does not copy | it behaves like an atomic collection |
| `manifest/` | published AMIs, the region map, the name | `Write` | the map's last entry of a region wins; the first AMI speaks for all | every region is named with an AMI of its own; the name says `hvm` |
| `driver/create_ami_driver.go`, `copy_ami_driver.go` | nothing of their own; the image, the snapshot and their permissions in EC2 | register or copy, wait, tag, share, publish, find the copy's snapshot | every call may fail, and may have worked although it failed | who may use what, at every moment and when a loop stops half-way |
| `driver/kms_driver.go` | the alias and the replicas in KMS | `CreateAlias`, `ReplicateKey` | concurrent callers, leftovers of earlier runs | our key and no other; callers do not fail each other; a list longer than a page is an error at worst |
| `driver/snapshot_from_image_driver.go` | an import task | import, bounded poll, open | a task that never ends or vanishes | returned means complete |
| `driver/create_volume_driver.go`, `snapshot_from_volume_driver.go`, `delete_volume_driver.go` | conversion task, volume, snapshot | import, bounded poll, snapshot, delete | the same, plus a volume to clean up | no snapshot of half an image |
| `driver/create_machine_image_driver.go`, `..._manifest_driver.go`, `delete_machine_image_driver.go` | objects in S3, presigned URLs | upload, sign, delete | URLs expire; partial failure; parts sent by several goroutines | nothing is left behind in silence; the whole image or nothing |
| `driver/retryer.go`, with the uploader and the retries of the SDK | attempts, a token bucket, the parts that were sent | decide whether to try again | the bucket is shared; retries are counted as attempts; a request may work and fail | an upload is one step with two outcomes, and ends |
| `config/` | the configuration | defaults, `validate`, `GetAwsConfig` | what the other parts take for granted | what is started satisfies the assumptions of the models |
| `driverset/`, constructors of the drivers | the AWS clients | make clients from credentials | credentials are put together again, field by field, for other regions | one account per entry, the entry's domain at home only |
| `resources/`, `driver/reqinputs`, `driver/manifests`, logger | none | data, layout | none | not modelled |

The parts meet in four ways. main calls `Publish()` of a publisher in a goroutine and shares the two
collections with it; a publisher calls its drivers one after the other, and the copy driver from one
goroutine per destination; drivers call AWS, which changes by itself while they wait; and deferred
calls (`Delete`, `Done`, `Close`) run when a function returns or panics, but not after
`logger.Fatal`. Nothing is persisted locally: a run that dies is started again from the beginning.

The hazards that follow from this are listed, line by line, in `PROJECT.json`, with the properties
that would notice them going wrong.

## 2. The modules

    Publisher                         what both publishers do
      StandardRegionPublisher         + KMS alias, copies
      IsolatedRegionPublisher         + volume
        LightStemcellBuilder          both, main and the manifest; composes the whole run
          LightStemcellBuilderInvariant   its inductive invariant
            LightStemcellBuilderProofs    theorems
              StemcellPublicationProofs   that a run is a publication
            MCLightStemcellBuilder        TLC instances
      StemcellPublication             what a run promises, abstractly
    AtomicCollection                  what a collection promises
    AmiCollection                     collection/, by lock, read, store, unlock
      AmiCollectionProofs, MCAmiCollection
    DriverRequest                     what drivers are asked for; their constants
      AmiDriver                       an image and a snapshot in EC2, and who may use them
        CreateAmiDriver, CopyAmiDriver
      SnapshotFromImageDriver         import of the machine image as a snapshot
      StandardRegionDrivers           composes MachineImageDrivers, SnapshotFromImageDriver,
        |                             CreateAmiDriver and CopyAmiDriver as the publisher does
        StandardRegionDriversProofs, MCStandardRegionDrivers
      IsolatedRegionDrivers           volume and snapshot; composes them with
        |                             MachineImageDrivers and CreateAmiDriver
        IsolatedRegionDriversProofs, MCIsolatedRegionDrivers
    MachineImageDrivers               upload, presigned URLs, deletion
      MachineImageUpload              its upload in detail: parts, workers, retries, tokens
        MachineImageUploadProofs, MCMachineImageUpload
    KmsDriver                         aliases and replicas, with racing callers
      KmsDriverProofs, MCKmsDriver
    Configuration                     main before the fan-out, config/
      AwsClients                      the clients the drivers make from it
        AwsClientsProofs              theorems
        MCConfiguration               inputs for TLC

**The run.** `Publisher` has one `pc`, `err`, `image` and collection `amis` for each entry of
`ami_regions`. A call of a driver is one step there with every outcome the driver has: success;
failure with nothing done; failure although AWS did the work, so that something is left behind
(`registered`, `image = "abandoned"`); and, with `Malformed`, a panic where a driver indexes a list
that AWS may send empty or follows the pointer to an id or a task that AWS may leave out. The driver modules open those steps. `StandardRegionPublisher` adds the
copy goroutines (`copyPc`), their error collection (`errCol`) and the wait group: it is at zero when
every goroutine has run `defer procGroup.Done()`, panicking or not. `IsolatedRegionPublisher` adds
the volume, which is deleted before the image because deferred calls run last in, first out.

`LightStemcellBuilder` adds what main's goroutines do with the result of `Publish()`
(`ReportError`, `MergeNext`, `Done`), main itself (`AwaitPublishers`, `CheckErrors`,
`RefuseEmptyManifest`, `EnterAmi`, `FinishWrite`, `CloseConfig`) and the end of the process:
`exit` is set by `logger.Fatal` and by the return of main, after which nothing runs, or by `Crash`,
which may come at any time after a panicking goroutine has run its deferred calls.
`Add` is one step here; `AmiCollection` shows that it may be: there an `Add` is lock, read, store and
unlock, and it is proved to implement `AtomicCollection`.

`StemcellPublication` says what a run is about in three actions (an AMI comes into being, a copy
after its source; all of them are published at once; the run fails). The run refines it with
`built <- registered`, `catalog` the manifest once it is written whole and `outcome` from `output`
and `exit`.

**The drivers.** A driver module has the driver's `pc`, its loop counters and its result, and the
part of AWS it works on, which also moves by itself (`Settle`, `Work`, `Convert`, `Expire`, ...;
these are marked external in `PROJECT.json`). A call that returns an error may have taken effect.
The account loops, the poll loops and the order of sharing and publishing are as in the code. Tags
are left out: an error in setting them is logged, nothing more.

`StandardRegionDrivers` and `IsolatedRegionDrivers` instantiate the driver modules, each with
variables of its own but for what they share (`config`, and `snapshotGrants`, the permissions of the
snapshot that one driver makes and the next one shares). They add `Publish()`: a driver starts when
the one before it returned no error, and the deferred deletions start when a call failed or the last
one returned (`Leaving`, `VolumeUsed`, `ImageUsed`). The publisher and its drivers are one thread of
control; AWS works, and presigned URLs expire, at any moment between two of its steps. A standard
region has one copy here: the copies share only the source AMI, and what their goroutines do
together is in `StandardRegionPublisher`. A panic of a driver runs the deferred deletion like a
return does; that the process may die meanwhile is in `LightStemcellBuilder`. The copy's goroutine
says `Done` in a step of its own (`copyDone`), and only then the publisher goes on.

Both modules refine the module of their publisher (`ImplementsPublisher`): whatever happens in the
many steps of a driver, to the publisher the call is the one step that `StandardRegionPublisher` or
`IsolatedRegionPublisher` has for it, with one of the outcomes listed there. The mapping lets a call
take effect when it returns: `registered` counts an AMI once its driver is back, `image` and
`volume` are `abandoned` when the call failed and something is there, `kept` when its deletion
failed. Both refinements are proved; that the theorems of section 5 about the whole run therefore
hold of a run with these drivers is an argument, not a theorem yet (section 6).

`MachineImageUpload` opens one step of `MachineImageDrivers`, `UploadImage`, and refines it in turn
(`ImplementsUpload`): `upload()` queues parts in a bounded channel, workers send them, each request
may be answered with an error whether or not it took effect, and is tried again as long as there are
attempts and tokens. Its code is that of the vendored SDK as far as `retryer.go` configures it. What
makes an error worth a retry is not modelled: any may be.

**The start.** `Configuration` is `main` up to the fan-out. An input is what the flags say and what
the files hold, good or bad; `WithDefaults`, `Valid` and `AliasOf` are `NewFromReader`, `validate`
and the alias handling of `main`. `AwsClients` goes on with the clients: those of the driver sets,
made from the entry's credentials, and those the KMS and the copy driver make for each call from
`DerivedCredentials`. A client is who signs (keys or the instance, and the role), a region and a
domain. `VolumeSizeGB` belongs to the image manifest driver, but its correctness hangs on a check of
the flags.

**Names.** Operators are named after the call or statement they stand for. Those whose name begins
with `Bad` are the slips a maintainer might make in the definition that follows them (a dropped
guard, a forgotten error, a swapped order); every property of every passing run is shown to fail
with one of them in place, so that no property is true of just any program.

## 3. The runs

| run | what it checks | instance |
|---|---|---|
| `distinct` | types, no AMI unlisted, refinement of `StemcellPublication`, termination | 1 standard entry, 2 copies, 1 isolated entry, no panics |
| `colliding` | the inductive invariant, complete manifest, hvm name, failed entries merge nothing, nil means all copied, cleanup before exit, collections frozen when read | 2 standard entries, 2 copies, 1 isolated entry, colliding regions, panics |
| `panic_loses_region` | *violated*: status 0 means all regions | 1 entry, 2 copies, panics |
| `collection` | lock invariant, atomicity, the slice of a reader | 3 goroutines, 4 items, 1 reader |
| `standard_drivers` | what a returned snapshot, AMI and copy is worth; who may use image, snapshot and copy at every moment; no configured account has the disk without the AMI; the image stays for its import; leftovers are reported; refinement of `StandardRegionPublisher`; bounded | 0, 1 and 2 accounts; public and private; encrypted or not; 4 polls |
| `public_stays_private`, `private_is_opened` | *violated*: visibility | the same, without empty or incomplete answers |
| `isolated_drivers` | no snapshot of half an image, no AMI of an unfinished snapshot, leftovers are reported, a manifest leads to its image, both stay for the conversion, refinement of `IsolatedRegionPublisher`; bounded | public and private; 4 polls |
| `kms` | our key, and racers succeed | 2 publishers and 2 copies on one region each, any leftovers, any list longer than a page |
| `configuration` | what is started is as the models assume; the volume holds the image; one account per entry; the entry's domain at home only | 1128 inputs: AMI configurations, entries and pairs of entries, flags; good and bad |
| `endpoint_base` | *violated*: the domain of all services | the same |
| `upload` | refinement of `UploadImage`; the upload returns | 2 workers, 4 parts, 3 attempts, 3 tokens, retries of 1 and 2 tokens |

**Bounds.** Two copies of one entry are enough for a copy that fails next to one that succeeds, and
for two appends in either order. Two standard entries add merges that interleave; in `colliding`
both destinations of the first entry are the second one's home, so destinations collide with each
other and with an entry, the two ways `validate()` allows. An isolated entry differs from the others
in its steps, so one is in both big runs. `MaxPolls` (60, 100 and 120 in the code) is small because
each round of a loop forgets the one before; what matters is that there is a first, a middle and a
last round. Two accounts are enough for a loop that stops between them. Time is not counted: a
presigned URL expires at any moment, those with the shorter lifetime first. The inputs of
`configuration` vary the AMI configuration, one entry and a pair of entries separately, because
`validate()` looks at each by itself; in the pair every choice of destinations meets every other.
`GB` is four bytes there, and files have zero to nine, so that sizes fall on, below and above a
multiple. In `upload` the channel of two is full before the last of four parts, so `upload()` does wait
for a worker; two cheap retries use up the attempts of a request with a token to spare, and a dear
one next to a cheap one leaves no token for anybody. No other quantity is
bounded: the collections grow to the number of AMIs.

**Fairness.** `LightStemcellBuilder!Fairness` is weak fairness of each goroutine and of main while
the process runs. The Go scheduler gives it, provided that every driver call returns. The waiters of
the SDK and the poll loops are bounded (shown by the `Returns` properties); that each single request
returns is assumed, and the code does not secure it for the `http.Get` of
`create_volume_driver.go:63`, which has no time limit. The upload's is that of its goroutines:
they end although a worker meets an error, because the others go on emptying the channel. The drivers' `FairSpec` is weak fairness of
the publisher and its drivers only, never of AWS: `Returns` holds even when a task never ends. `Crash` is fair: Go ends
a process with an unrecovered panic.

**Deadlock** is checked in every run; a process that has ended, and a driver that has returned, may
stutter (`Ended`, `Returned`). In `collection` this check is what shows that the deferred unlock
always lets the others in.

## 4. What the violated runs show

* `panic_loses_region`: `DescribeImages` is asked with a filter, which EC2 may answer with an empty
  list; `copy_ami_driver.go:150` then panics. The deferred `procGroup.Done()` runs, no error was
  added, so `Publish()` returns nil, and main can write a manifest without the region and exit 0
  before the runtime ends the process. The integration test expects every region of a run that
  exits 0. The window is small, but nothing closes it.
* `public_stays_private`: the error of making an AMI public is dropped (`create_ami_driver.go:148`).
* `private_is_opened`: the snapshot of a private stemcell's copy is made public when it is not
  encrypted (`copy_ami_driver.go:212`). The driver of isolated regions does the same to every
  snapshot (`snapshot_from_volume_driver.go:54`).
* `endpoint_base`: the README promises `endpoint_base` for all services, KMS among them, but the
  client of `kms_driver.go:122-134` is made of keys, role and region alone. S3 and EC2 of the same
  entry do use it. (That a copy's destination does not inherit it is intended, `config_test.go:379`,
  and is what `EndpointOnlyAtHome` says.)

Two more disagreements have no run. The comment of `delete_machine_image_driver.go:29` promises
requests to all URLs while `Delete()` gives up at the first that fails; `LeftoversAreReported` shows
that the error reaches the publisher's log at least. `NewS3RetryerWithRetries(50)` makes 50 attempts,
that is 49 retries (`retryer.go:51`).

## 5. What is proved

`LightStemcellBuilderProofs` proves, for any set of entries, copies, regions and names that
satisfies the named assumptions of the modules (those `validate()` enforces, and that the copies are
finitely many):

* `TypeCorrect`: the type invariant;
* `InvCorrect`: the inductive invariant `Inv` (`LightStemcellBuilderInvariant`);
* from it `ManifestCompleteAlways`, `NoAmiUnlistedAlways`, `HvmNameAlways`,
  `FailedEntryAlwaysMergesNothing`, `AlwaysCleanedUpBeforeExit` and the action property
  `AlwaysFrozenWhenRead`.

None of these properties is inductive. That the manifest is complete when it is written depends on
the whole chain: a copy that got to `Done()` without a panic is in the error collection or in the
AMIs (`CopyOK`); `Publish()` returns nil only with an empty error collection, and from then on no
copy runs (`PublisherOK`, `CopyOK`); an entry calls `wg.Done()` only after it has reported, and what
was merged is in the shared collection (`ReportOK`); main reads the collections after all have
called it, and the part of the manifest that was entered so far is the part of the collection that
was passed (`MainInv`). `Inv` is the conjunction of these, one part per goroutine. The proof that a
step keeps it has one lemma per part, with one step per action, after `NextCases` has split the
next-state relation; `OtherPublisher` and `OtherCopy` dispose of the goroutines that do not move.
The theorems cover `Malformed = TRUE`, that is, runs with panics; `ManifestComplete` and
`NoAmiUnlisted` exclude the panicking runs in their statement, and `panic_loses_region` shows that
they must.

`AmiCollectionProofs` proves mutual exclusion and that a slice read under the lock is still current
when it is stored (`InvCorrect`), that the collection therefore implements the atomic one
(`CollectionIsAtomic`, every step an atomic `Add` or a stutter), and that the slice `GetAll()` gave
away stays a prefix of the collection (`ReadSliceAlwaysStays`).

`AwsClientsProofs` starts from the types of flags and files (`InputsAssumption`; `GBAssumption` for the
size of the volume) and proves what
the other models assume of their entries (`AlwaysLaunchedAsAssumed`), that the imported volume fits
the image (`VolumeAlwaysHoldsImage`), and the two properties of the clients
(`AlwaysOneAccountPerEntry`, `EndpointAlwaysOnlyAtHome`). The invariant `ConfigInv` says in which
stage the configuration has become valid and its entries complete: that `Settle`, which changes it
after it was accepted, does not undo this, and that `GetAwsConfig` sees the region and the domain
filled in by `config.go`, is what the theorems rest on. `ClientsInv` relates each client to its entry,
from which the comparison of two clients follows.

`MachineImageUploadProofs` proves for any workers, parts, attempts and tokens that the upload is the
one step `UploadImage` of the drivers' model (`UploadIsOneStep`). `ImplementsUpload` alone is not
inductive: that no object is made of some of the parts needs that, without an error, the parts queued
so far are those in S3, in the channel or with a worker (`PartsOK`); that a worker leaves only a
closed and empty channel, and makes requests only for a part it holds (`WorkersOK`); and that nothing
is with the workers before the first and after the last part (`Quiet`), so that no late error
contradicts what was returned.

`StemcellPublicationProofs` adds what these invariants say of the run as a whole:

* `NilAlwaysMeansAllCopied` counts: the names of a collection are pairwise different (`OnceInv`: a
  copy's name is in it only when the one step that adds it is over), and they are the entry's name
  and those of all its copies; so the positions of the slice are in bijection with them, and the
  finiteness of `Copies` makes that a length.
* `RunIsPublication`: in a behaviour without panics every step is an AMI that comes into being, the
  publication, the failure, or a stutter. That a copy comes after its source follows from `CopyOK`
  and `PublisherOK`; that nothing comes into being once main has passed the wait group, from
  `MainInv` and `ReportOK`; that everything exists when the manifest is written, from the argument
  for `ManifestComplete`. The hypothesis `[]NoPanic` is needed: `panic_loses_region` has the
  counterexample. `WellFormedRunIsPublication` derives it from `Malformed = FALSE`, which is what
  the run `distinct` assumes.

`StandardRegionDriversProofs` and `IsolatedRegionDriversProofs` assume of the constants only what
`DriverRequest` states: at least one poll (`PollsAssumption`), lists of accounts none of which is
called `all` (`SharedAssumption`), and that empty or incomplete answers either may come or not
(`MalformedAssumption`). They hold for lists of any length, with repetitions, and any number of polls. None of the properties is inductive, for two reasons. First, a property of a returned result
rests on what the loop has done so far: `SourceInv` and `CopyInv` say that the accounts before the
loop's counter have access (`Before`), that between the two requests of one round the image's
permission is there and the snapshot's is not yet, and what a wait that has succeeded has
established. Second, a property that relates two drivers rests on their order: `TurnInv` says that a
driver has left its first step only after the success of the one before, and that the deferred
deletions have begun only when a call failed or the last one returned. That order also shows that the
stages of the refinement mapping exclude each other in every reachable state. `ImageInv`,
`ImportInv`, `VolumeInv` and `AmiInv` relate each driver to what AWS holds. From `Inv` follow all
invariants the two runs check, and the refinements (`CallsAreStepsOfPublisher`): one lemma per action
(`...Seen`) shows which step of the publisher it is, or that nothing the publisher sees has changed
(`Unseen`), which is so for every step of AWS, of a loop or of a wait.

`KmsDriverProofs` proves for any callers on any regions (`CallersAssumption`) that an alias that is
returned is ours and that racers do not fail each other. The invariant says of each caller that it
searches a list only for what is there, made by itself or reported as existing, and justifies its
result (`CallOK`); a step of one caller keeps the others' because KMS only gets more (`OnlyMore`):
nobody deletes an alias, a key or an entry of a list.

Only model-checked: termination (`Terminates`, and `Returns` of the drivers and of the upload). It
is a matter of fairness, and the prover does not handle ENABLED.

## 6. What is not modelled, and the plan

Not modelled: logging, request structures, XML and YAML layout, the parsing of JSON and YAML (it may
fail, no more), which errors the SDK thinks worth a retry, tags of AMIs and snapshots, CI scripts.
AWS is modelled from how the drivers use it. The session token, which neither the KMS nor the copy
driver takes over, is in the clients, but no property speaks of it: with temporary keys those calls
are simply refused, which the driver modules allow for every call. Object names are the time in
nanoseconds; two publishers of one bucket that read the same time would overwrite each other's
image, and since nothing in the code rules that out each publisher has a bucket of its own here. An
image smaller than a part is sent by one request, which needs no model.

Every safety property and every refinement that a run checks is also proved. What is left of the plan
is to put the refinements together, the drivers of one entry in the place of the steps of
`LightStemcellBuilder`, in one theorem: today the chain is one of several theorems, each about a
publisher by itself.
