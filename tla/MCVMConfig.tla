----------------------------- MODULE MCVMConfig -----------------------------
(* Provider specs and an inventory for TLC.  Ids are unique per resource.  *)
EXTENDS VMConfigInvariant

R(kind, name, id) == [kind |-> kind, name |-> name, id |-> id]
ByName(n) == [by |-> "name", val |-> n]
ByUUID(u) == [by |-> "uuid", val |-> u]
NoType == [by |-> "unset", val |-> None]
Nil == [by |-> "none", val |-> None]

\* Image i2 may share, or with a renamed i1 take over, its name; subnet s3
\* may share that of s1; the cluster may be renamed.
SmallInventory ==
    { R("cluster", "pe", "c1"), R("image", "rhcos", "i1"), R("subnet", "net", "s1"),
      R("subnet", "lan", "s2"), R("category", "own", "k1"), R("category", "env", "k2"),
      R("gpu", "tesla", "g1"), R("project", "ocp", "p1") }

SmallUniverse == SmallInventory \cup
    { R("image", "rhcos", "i2"), R("image", "old", "i1"),
      R("subnet", "net", "s3"), R("cluster", "other", "c1") }

Basic ==
    [ cluster |-> ByName("pe"), image |-> ByName("rhcos"), subnets |-> <<ByName("net")>>,
      project |-> NoType, categories |-> <<>>, gpus |-> <<>>, disks |-> <<>>,
      vcpus |-> 1, sockets |-> 1, memoryMib |-> 2048, diskMib |-> 20480, boot |-> "unset",
      failureDomain |-> None, credentialsSecret |-> TRUE, userDataSecret |-> TRUE,
      windows |-> FALSE, clusterID |-> TRUE ]

Disk(device, adapter, source) ==
    [ sizeMib |-> 1024, device |-> device, adapter |-> adapter, index |-> 0,
      mode |-> "none", container |-> Nil, source |-> source ]

SmallSpecs ==
    { Basic,
      [Basic EXCEPT !.cluster = ByUUID("c1"), !.image = ByUUID("i1"),
                    !.subnets = <<ByUUID("s1"), ByName("lan")>>, !.boot = "UEFI"],
      [Basic EXCEPT !.project = ByName("ocp"), !.categories = <<"env">>, !.gpus = <<ByName("tesla")>>],
      [Basic EXCEPT !.disks = <<Disk("disk", "SPAPR", ByName("rhcos")), Disk("cdrom", "SATA", Nil)>>],
      [Basic EXCEPT !.disks = <<Disk("cdrom", "SCSI", Nil)>>],
      [Basic EXCEPT !.disks = <<[Disk("none", "unset", Nil) EXCEPT !.sizeMib = 1023]>>],
      [Basic EXCEPT !.memoryMib = 2047],
      [Basic EXCEPT !.diskMib = 20479],
      [Basic EXCEPT !.sockets = 0],
      [Basic EXCEPT !.subnets = <<>>],
      [Basic EXCEPT !.image = NoType],
      [Basic EXCEPT !.gpus = <<[by |-> "unset", val |-> "g1"]>>],
      [Basic EXCEPT !.failureDomain = "fd1", !.windows = TRUE],
      [Basic EXCEPT !.failureDomain = "fd2", !.userDataSecret = FALSE],
      [Basic EXCEPT !.clusterID = FALSE],
      [Basic EXCEPT !.credentialsSecret = FALSE] }

Fd(cluster, subnets) == [cluster |-> cluster, subnets |-> subnets]
BasicAuth(u, p) == [type |-> "basic_auth", user |-> u, password |-> p]

BasicEnv ==
    [ address |-> "pc1", port |-> 9440,
      domains |-> [n \in {"fd1", "fd2"} |->
                     IF n = "fd1" THEN Fd(ByUUID("c1"), <<ByName("lan"), ByName("net")>>)
                     ELSE Fd(ByName("pe"), <<[by |-> "label", val |-> "net"]>>)],
      secret |-> <<BasicAuth("u1", "p1")>>,
      userData |-> [content |-> "d1", ignition |-> TRUE] ]

\* Another Prism Central with other credentials and user data that is no
\* ignition; a failure domain that moved and one that went; broken ones.
SmallEnvironments ==
    { BasicEnv,
      [BasicEnv EXCEPT !.address = "pc2", !.port = 65535,
          !.secret = <<BasicAuth("u2", "p2"), BasicAuth("u1", "p1")>>,
          !.userData = [content |-> "d2", ignition |-> FALSE]],
      [BasicEnv EXCEPT !.domains = [n \in {"fd1"} |-> Fd(ByName("pe"), <<ByUUID("s2")>>)]],
      [BasicEnv EXCEPT !.port = 65536, !.secret = <<BasicAuth("u1", None)>>],
      [BasicEnv EXCEPT !.secret = <<[type |-> "token", user |-> "u1", password |-> "p1"]>>,
                       !.userData = None] }
=============================================================================
