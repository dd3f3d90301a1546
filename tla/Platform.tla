------------------------------ MODULE Platform ------------------------------
(***************************************************************************)
(* What hipObject takes from the system it runs on: the functions of the   *)
(* libibverbs that is installed, which may lack some (ibv-wrapper.cpp);    *)
(* the environment variables, which hipObjInit() reads (parseOptions());   *)
(* and the way to register a buffer that the two leave (buffer.cpp).       *)
(*                                                                         *)
(* One thread runs: the interleavings of calls are those of the modules    *)
(* Lifecycle and BufferMap.                                                *)
(***************************************************************************)
EXTENDS Parse

CONSTANTS Libraries,             \* The functions of each libibverbs there is
          Environments,          \* The values of the variables
          kMaxTransfers, kDefaultMaxTransfers,
          kMaxStageTimeout, kDefaultStageTimeout,
          SIZE_MAX, INT64_MAX    \* The largest values of the two types

Required ==
    <<"get_device_list", "free_device_list", "open_device", "close_device", "get_device_name",
      "query_device", "query_port", "query_gid", "alloc_pd", "dealloc_pd", "reg_mr_iova2", "dereg_mr",
      "create_cq", "destroy_cq", "create_qp", "modify_qp", "destroy_qp">>
Optional == {"reg_dmabuf_mr", "poll_cq", "post_send"}

ASSUME SizesAssumption ==
    /\ Libraries \subseteq SUBSET (ToSet(Required) \cup Optional)
    /\ kDefaultMaxTransfers \in 1 .. kMaxTransfers /\ kMaxTransfers <= SIZE_MAX
    /\ kDefaultStageTimeout \in 1 .. kMaxStageTimeout /\ kMaxStageTimeout <= INT64_MAX

VARIABLES pc,        \* The next step
          installed, \* The functions of the libibverbs that is installed
          library,   \* Whether it is loaded
          funcs,     \* The functions found in it
          next,      \* The required function to find next
          called,    \* The pointer last called
          env,       \* The environment when the instance was made
          options,   \* The instance's options, or NoOptions
          device,    \* Whether the buffer being registered is the GPU's
          fds,       \* The dma-buf fds that are open
          mr         \* What the buffer's registration covers

libraryVars == <<installed, library, funcs, next>>
optionVars == <<env, options>>
bufferVars == <<device, fds, mr>>
vars == <<pc, libraryVars, called, optionVars, bufferVars>>

NoOptions == [maxTransfers |-> 0]

(***************************************************************************)
(* The environment variables                                               *)
(***************************************************************************)
startsWithOneOf(value, chars) == value # <<>> /\ Head(value) \in chars


\* An unset variable reads as an empty one.  HIPOBJ_RDMA_DEBUG only makes
\* messages.
parseOptions(e) ==
    LET ms == {n \in parseSigned(e.STAGE_TIMEOUT_MS, 10, INT64_MAX) : n \in 1 .. kMaxStageTimeout}
        transfers == {n \in parseNumber(e.MAX_TRANSFERS, 10, SIZE_MAX) : n \in 1 .. kMaxTransfers}
        valueOr(s, default) == IF s = {} THEN default ELSE CHOOSE n \in s : TRUE
    IN  [stageTimeout     |-> valueOr(ms, kDefaultStageTimeout),
         maxTransfers     |-> valueOr(transfers, kDefaultMaxTransfers),
         requireGpuDirect |-> e.REQUIRE_GPU_DIRECT # <<>>
                              /\ ~startsWithOneOf(e.REQUIRE_GPU_DIRECT, {"0", "n", "N"}),
         dmabuf           |-> ~startsWithOneOf(e.DMABUF, {"0", "n", "N"})]

(***************************************************************************)
(* libibverbs                                                              *)
(***************************************************************************)
Init ==
    /\ pc = "load"
    /\ installed \in Libraries /\ library = FALSE /\ funcs = {} /\ next = 1
    /\ called = "nothing"
    /\ env \in Environments /\ options = NoOptions
    /\ device = FALSE /\ fds = 0 /\ mr = "none"

\* loadLibibverbs() opens the library, which may fail, and looks for the
\* functions that it can do without
open_libibverbs ==
    /\ pc = "load"
    /\ \/ pc' = "null" /\ UNCHANGED libraryVars
       \/ /\ pc' = "functions"
          /\ library' = TRUE /\ funcs' = installed \cap Optional
          /\ UNCHANGED <<installed, next>>
    /\ UNCHANGED <<called, optionVars, bufferVars>>

\* load_functions() looks for the others in turn; the first that is missing
\* ends it, and the handle closes the library
dlsym_load ==
    /\ pc = "functions" /\ next <= Len(Required)
    /\ IF Required[next] \in installed
       THEN /\ funcs' = funcs \cup {Required[next]} /\ next' = next + 1
            /\ UNCHANGED <<pc, library>>
       ELSE pc' = "null" /\ library' = FALSE /\ UNCHANGED <<funcs, next>>
    /\ UNCHANGED <<installed, called, optionVars, bufferVars>>

Loaded ==
    /\ pc = "functions" /\ next > Len(Required)
    /\ pc' = "loaded"
    /\ UNCHANGED <<libraryVars, called, optionVars, bufferVars>>

\* The pointer in the table, which is null when the function was not found
Pointer(f) == IF f \in funcs THEN f ELSE "null"

\* Mutant of Forward: takes poll_cq for a function that is always there
ForwardPoll(f) ==
    IF f = "reg_mr" THEN Pointer("reg_mr_iova2")
    ELSE IF f = "post_send" /\ f \notin funcs THEN "context ops"
    ELSE IF f = "reg_dmabuf_mr" /\ f \notin funcs THEN "EOPNOTSUPP"
    ELSE Pointer(f)

\* What LoadedVerbs calls for f
Forward(f) ==
    IF f = "reg_mr" THEN Pointer("reg_mr_iova2")
    ELSE IF f \in {"poll_cq", "post_send"} /\ f \notin funcs THEN "context ops"
    ELSE IF f = "reg_dmabuf_mr" /\ f \notin funcs THEN "EOPNOTSUPP"
    ELSE Pointer(f)

supportsDmabuf == "reg_dmabuf_mr" \in funcs

\* hipObject makes any of the calls, and the deleters the ones that undo them
CallVerbs ==
    /\ pc = "ready"
    /\ \E f \in (ToSet(Required) \ {"reg_mr_iova2"}) \cup {"poll_cq", "post_send"} :
        called' = Forward(f)
    /\ UNCHANGED <<pc, libraryVars, optionVars, bufferVars>>

(***************************************************************************)
(* The instance                                                            *)
(***************************************************************************)
\* Every call reads the environment, which is any by then
hipObjInit ==
    /\ pc = "loaded" /\ pc' = "ready"
    /\ env' \in Environments /\ options' = parseOptions(env')
    /\ UNCHANGED <<libraryVars, called, bufferVars>>

\* Undoes the registration, and closes the device last
hipObjShutdown ==
    /\ pc = "ready" /\ pc' = "loaded"
    /\ options' = NoOptions /\ device' = FALSE /\ mr' = "none"
    /\ called' = Forward("close_device")
    /\ UNCHANGED <<libraryVars, env, fds>>

(***************************************************************************)
(* The registration of a buffer                                            *)
(***************************************************************************)
registerBuffer ==
    /\ pc = "ready" /\ mr = "none"
    /\ device' \in BOOLEAN
    /\ pc' = IF options.dmabuf /\ supportsDmabuf THEN "export" ELSE "plain"
    /\ UNCHANGED <<libraryVars, called, optionVars, fds, mr>>

\* registerDeviceMemory() exports the memory as a dma-buf, which fails for
\* memory of the host
exportDmabuf ==
    /\ pc = "export"
    /\ \/ pc' = "plain" /\ UNCHANGED fds
       \/ pc' = "dmabuf" /\ fds' = fds + 1
    /\ UNCHANGED <<libraryVars, called, optionVars, device, mr>>

\* Mutant of reg_dmabuf_mr: closes the fd only when it could not be used
reg_dmabuf_mr_kept ==
    /\ pc = "dmabuf"
    /\ called' = Forward("reg_dmabuf_mr")
    /\ \/ pc' = "ready" /\ mr' = "buffer" /\ UNCHANGED fds
       \/ pc' = "plain" /\ fds' = fds - 1 /\ UNCHANGED mr
    /\ UNCHANGED <<libraryVars, optionVars, device>>

\* It registers the dma-buf; the fd is closed whether or not it can
reg_dmabuf_mr ==
    /\ pc = "dmabuf"
    /\ called' = Forward("reg_dmabuf_mr")
    /\ \/ pc' = "ready" /\ mr' = "buffer"
       \/ pc' = "plain" /\ UNCHANGED mr
    /\ fds' = fds - 1
    /\ UNCHANGED <<libraryVars, optionVars, device>>


\* Then it registers the memory itself.  In strict mode a GPU's buffer is
\* registered that way or not at all.
reg_mr ==
    /\ pc = "plain"
    /\ called' = Forward("reg_mr")
    /\ \/ pc' = "ready" /\ mr' = "buffer"
       \/ /\ pc' = IF device /\ options.requireGpuDirect THEN "ready" ELSE "stage"
          /\ UNCHANGED mr
    /\ UNCHANGED <<libraryVars, optionVars, device, fds>>

\* A staging buffer, which may not be allocated, or not be registered
hostMalloc ==
    /\ pc = "stage" /\ pc' = "ready"
    /\ \/ UNCHANGED <<called, mr>>
       \/ called' = Forward("reg_mr") /\ mr' \in {"staging", "none"}
    /\ UNCHANGED <<libraryVars, optionVars, device, fds>>

hipObjBufDeregister ==
    /\ pc = "ready" /\ mr # "none"
    /\ mr' = "none" /\ called' = Forward("dereg_mr")
    /\ UNCHANGED <<pc, libraryVars, optionVars, device, fds>>

Next ==
    \/ open_libibverbs \/ dlsym_load \/ Loaded \/ CallVerbs
    \/ hipObjInit \/ hipObjShutdown
    \/ registerBuffer \/ exportDmabuf \/ reg_dmabuf_mr \/ reg_mr \/ hostMalloc \/ hipObjBufDeregister
    \/ pc = "null" /\ UNCHANGED vars

Spec == Init /\ [][Next]_vars

(***************************************************************************)
(* Properties                                                              *)
(***************************************************************************)
\* No call goes through a null pointer, whatever functions the library that
\* is installed has (LoadedVerbs).
NeverCallsNull == called # "null"

\* The number n is what a text says, in decimal digits only
Means(text, n) == text # <<>> /\ AllDigits(text, 10) /\ Value(text, 10) = n



\* A dma-buf's fd is closed on every way out of a registration
\* (DmabufFd).
DmabufsAreClosed == pc # "dmabuf" => fds = 0
=============================================================================
