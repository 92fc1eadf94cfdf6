------------------------------ MODULE HipStubs ------------------------------
(*****************************************************************************)
(* The generated HIP stubs of the client, codegen/gen_hip_client.inc, each   *)
(* with the exported function that picks its connection and calls it.        *)
(*****************************************************************************)
EXTENDS HipMemoryStubs

hipGetLastError ==
  Call("connection", <<>>, <<F("return_value", "hipError_t")>>)

hipExtGetLastError ==
  Call("connection", <<>>, <<F("return_value", "hipError_t")>>)

hipPeekAtLastError ==
  Call("connection", <<>>, <<F("return_value", "hipError_t")>>)

hipGetDevicePropertiesR0600 ==
  Call("connection_for_device", <<F("deviceId", "int")>>,
    <<F("prop", "hipDeviceProp_tR0600"), F("return_value", "hipError_t")>>)

hipDeviceGetName ==
  With([len : Cnt],
  Call("connection_for_device", <<F("len", "int"), F("deviceId", "int")>>,
    <<Arr("name", "char", {"len"}), F("return_value", "hipError_t")>>))

hipDeviceTotalMem ==
  Call("connection_for_device", <<F("deviceId", "int")>>,
    <<F("bytes", "size_t"), F("return_value", "hipError_t")>>)

hipDeviceGetAttribute ==
  Call("connection_for_device", <<F("attr", "hipDeviceAttribute_t"), F("deviceId", "int")>>,
    <<F("pi", "int"), F("return_value", "hipError_t")>>)

hipDriverGetVersion ==
  Call("connection", <<>>, <<F("driverVersion", "int"), F("return_value", "hipError_t")>>)

hipRuntimeGetVersion ==
  Call("connection", <<>>, <<F("runtimeVersion", "int"), F("return_value", "hipError_t")>>)

hipDeviceComputeCapability ==
  Call("connection_for_device", <<F("device", "hipDevice_t")>>,
    <<F("major", "int"), F("minor", "int"), F("return_value", "hipError_t")>>)

hipDeviceGetUuid ==
  Call("connection_for_device", <<F("device", "hipDevice_t")>>,
    <<F("uuid", "hipUUID"), F("return_value", "hipError_t")>>)

hipDeviceGetP2PAttribute ==
  Call("connection", <<F("attr", "hipDeviceP2PAttr"), F("srcDevice", "int"),
      F("dstDevice", "int")>>,
    <<F("value", "int"), F("return_value", "hipError_t")>>)

hipDeviceGetPCIBusId ==
  With([len : Cnt],
  Call("connection_for_device", <<F("len", "int"), F("device", "int")>>,
    <<Arr("pciBusId", "char", {"len"}), F("return_value", "hipError_t")>>))

hipDeviceGetByPCIBusId ==
  With([pciBusId_len : Len1],
  Call("connection", <<F("pciBusId_len", "size_t"), Arr("pciBusId", "byte", {"pciBusId_len"})>>,
    <<F("device", "int"), F("return_value", "hipError_t")>>))

hipDeviceSynchronize ==
  Call("connection", <<>>, <<F("return_value", "hipError_t")>>)

hipDeviceGetDefaultMemPool ==
  Call("connection_for_device", <<F("device", "int")>>,
    <<F("mem_pool", "hipMemPool_t"), F("return_value", "hipError_t")>>)

hipDeviceSetMemPool ==
  Call("connection_for_device", <<F("device", "int"), F("mem_pool", "hipMemPool_t")>>,
    <<F("return_value", "hipError_t")>>)

hipDeviceGetMemPool ==
  Call("connection_for_device", <<F("device", "int")>>,
    <<F("mem_pool", "hipMemPool_t"), F("return_value", "hipError_t")>>)

hipDeviceGetTexture1DLinearMaxWidth ==
  Call("connection_for_device", <<F("desc", "hipChannelFormatDesc"), F("device", "int")>>,
    <<F("max_width", "size_t"), F("return_value", "hipError_t")>>)

hipDeviceSetCacheConfig ==
  Call("connection", <<F("cacheConfig", "hipFuncCache_t")>>, <<F("return_value", "hipError_t")>>)

hipDeviceGetCacheConfig ==
  Call("connection", <<>>, <<F("cacheConfig", "hipFuncCache_t"), F("return_value", "hipError_t")>>)

hipDeviceGetLimit ==
  Call("connection", <<F("limit", "enum hipLimit_t")>>,
    <<F("pValue", "size_t"), F("return_value", "hipError_t")>>)

hipDeviceSetLimit ==
  Call("connection", <<F("limit", "enum hipLimit_t"), F("value", "size_t")>>,
    <<F("return_value", "hipError_t")>>)

hipDeviceGetSharedMemConfig ==
  Call("connection", <<>>, <<F("pConfig", "hipSharedMemConfig"), F("return_value", "hipError_t")>>)

hipGetDeviceFlags ==
  Call("connection", <<>>, <<F("flags", "unsigned int"), F("return_value", "hipError_t")>>)

hipDeviceSetSharedMemConfig ==
  Call("connection", <<F("config", "hipSharedMemConfig")>>, <<F("return_value", "hipError_t")>>)

hipSetDeviceFlags ==
  Call("connection", <<F("flags", "unsigned")>>, <<F("return_value", "hipError_t")>>)

hipChooseDeviceR0600 ==
  Call("connection", <<F("prop", "hipDeviceProp_tR0600")>>,
    <<F("device", "int"), F("return_value", "hipError_t")>>)

hipExtGetLinkTypeAndHopCount ==
  Call("connection", <<F("device1", "int"), F("device2", "int")>>,
    <<F("linktype", "uint32_t"), F("hopcount", "uint32_t"), F("return_value", "hipError_t")>>)

hipDeviceGetStreamPriorityRange ==
  Call("connection", <<>>,
    <<F("leastPriority", "int"), F("greatestPriority", "int"), F("return_value", "hipError_t")>>)

hipDeviceGraphMemTrim ==
  Call("connection_for_device", <<F("device", "int")>>, <<F("return_value", "hipError_t")>>)

hipProfilerStart ==
  Call("connection", <<>>, <<F("return_value", "hipError_t")>>)

hipProfilerStop ==
  Call("connection", <<>>, <<F("return_value", "hipError_t")>>)

hipStreamCreate ==
  Call("connection", <<>>, <<F("stream", "hipStream_t"), F("return_value", "hipError_t")>>)

hipStreamCreateWithFlags ==
  Call("connection", <<F("flags", "unsigned int")>>,
    <<F("stream", "hipStream_t"), F("return_value", "hipError_t")>>)

hipStreamCreateWithPriority ==
  Call("connection", <<F("flags", "unsigned int"), F("priority", "int")>>,
    <<F("stream", "hipStream_t"), F("return_value", "hipError_t")>>)

hipStreamDestroy ==
  Call("connection", <<F("stream", "hipStream_t")>>, <<F("return_value", "hipError_t")>>)

hipStreamQuery ==
  Call("connection", <<F("stream", "hipStream_t")>>, <<F("return_value", "hipError_t")>>)

hipStreamSynchronize ==
  Call("connection", <<F("stream", "hipStream_t")>>, <<F("return_value", "hipError_t")>>)

hipStreamWaitEvent ==
  Call("connection", <<F("stream", "hipStream_t"), F("event", "hipEvent_t"),
      F("flags", "unsigned int")>>,
    <<F("return_value", "hipError_t")>>)

hipStreamGetFlags ==
  Call("connection", <<F("stream", "hipStream_t")>>,
    <<F("flags", "unsigned int"), F("return_value", "hipError_t")>>)

hipStreamGetId ==
  Call("connection", <<F("stream", "hipStream_t")>>,
    <<F("streamId", "unsigned long long"), F("return_value", "hipError_t")>>)

hipStreamGetPriority ==
  Call("connection", <<F("stream", "hipStream_t")>>,
    <<F("priority", "int"), F("return_value", "hipError_t")>>)

hipStreamGetDevice ==
  Call("connection", <<F("stream", "hipStream_t")>>,
    <<F("device", "hipDevice_t"), F("return_value", "hipError_t")>>)

hipExtStreamCreateWithCUMask ==
  With([cuMaskSize : Cnt],
  Call("connection", <<F("cuMaskSize", "uint32_t"), Arr("cuMask", "uint32_t", {"cuMaskSize"})>>,
    <<F("stream", "hipStream_t"), F("return_value", "hipError_t")>>))

hipExtStreamGetCUMask ==
  With([cuMaskSize : Cnt],
  Call("connection", <<F("stream", "hipStream_t"), F("cuMaskSize", "uint32_t")>>,
    <<Arr("cuMask", "uint32_t", {"cuMaskSize"}), F("return_value", "hipError_t")>>))

hipStreamSetAttribute ==
  Call("connection", <<F("stream", "hipStream_t"), F("attr", "hipLaunchAttributeID"),
      F("value", "hipLaunchAttributeValue")>>,
    <<F("return_value", "hipError_t")>>)

hipStreamGetAttribute ==
  Call("connection", <<F("stream", "hipStream_t"), F("attr", "hipLaunchAttributeID")>>,
    <<F("value_out", "hipLaunchAttributeValue"), F("return_value", "hipError_t")>>)

hipStreamCopyAttributes ==
  Call("connection", <<F("dst", "hipStream_t"), F("src", "hipStream_t")>>,
    <<F("return_value", "hipError_t")>>)

hipStreamWaitValue32 ==
  Call("connection", <<F("stream", "hipStream_t"), F("ptr", "void*"), F("value", "uint32_t"),
      F("flags", "unsigned int"), F("mask", "uint32_t")>>,
    <<F("return_value", "hipError_t")>>)

hipStreamWaitValue64 ==
  Call("connection", <<F("stream", "hipStream_t"), F("ptr", "void*"), F("value", "uint64_t"),
      F("flags", "unsigned int"), F("mask", "uint64_t")>>,
    <<F("return_value", "hipError_t")>>)

hipStreamWriteValue32 ==
  Call("connection", <<F("stream", "hipStream_t"), F("ptr", "void*"), F("value", "uint32_t"),
      F("flags", "unsigned int")>>,
    <<F("return_value", "hipError_t")>>)

hipStreamWriteValue64 ==
  Call("connection", <<F("stream", "hipStream_t"), F("ptr", "void*"), F("value", "uint64_t"),
      F("flags", "unsigned int")>>,
    <<F("return_value", "hipError_t")>>)

hipStreamBatchMemOp ==
  With([count : Cnt],
  Call("connection", <<F("stream", "hipStream_t"), F("count", "unsigned int"),
      Arr("paramArray", "hipStreamBatchMemOpParams", {"count"}), F("flags", "unsigned int")>>,
    <<F("return_value", "hipError_t")>>))

hipGraphAddBatchMemOpNode ==
  With([numDependencies : Cnt, nodeParams : Cnt],
  Call("connection", <<F("hGraph", "hipGraph_t"), F("numDependencies", "size_t"),
      Arr("dependencies", "hipGraphNode_t", {"numDependencies"}),
      F("nodeParams", "hipBatchMemOpNodeParams"),
      Arr("nodeParams.paramArray", "*nodeParams.paramArray", {"nodeParams"})>>,
    <<F("phGraphNode", "hipGraphNode_t"), F("return_value", "hipError_t")>>))

hipGraphBatchMemOpNodeSetParams ==
  With([nodeParams : Cnt],
  Call("connection", <<F("hNode", "hipGraphNode_t"), F("nodeParams", "hipBatchMemOpNodeParams"),
      Arr("nodeParams.paramArray", "*nodeParams.paramArray", {"nodeParams"})>>,
    <<F("return_value", "hipError_t")>>))

hipGraphExecBatchMemOpNodeSetParams ==
  With([nodeParams : Cnt],
  Call("connection", <<F("hGraphExec", "hipGraphExec_t"), F("hNode", "hipGraphNode_t"),
      F("nodeParams", "hipBatchMemOpNodeParams"),
      Arr("nodeParams.paramArray", "*nodeParams.paramArray", {"nodeParams"})>>,
    <<F("return_value", "hipError_t")>>))

hipEventCreateWithFlags ==
  Call("connection", <<F("flags", "unsigned")>>,
    <<F("event", "hipEvent_t"), F("return_value", "hipError_t")>>)

hipEventCreate ==
  Call("connection", <<>>, <<F("event", "hipEvent_t"), F("return_value", "hipError_t")>>)

hipEventRecordWithFlags ==
  Call("connection", <<F("event", "hipEvent_t"), F("stream", "hipStream_t"),
      F("flags", "unsigned int")>>,
    <<F("return_value", "hipError_t")>>)

hipEventRecord ==
  Call("connection", <<F("event", "hipEvent_t"), F("stream", "hipStream_t")>>,
    <<F("return_value", "hipError_t")>>)

hipEventDestroy ==
  Call("connection", <<F("event", "hipEvent_t")>>, <<F("return_value", "hipError_t")>>)

hipEventSynchronize ==
  Call("connection", <<F("event", "hipEvent_t")>>, <<F("return_value", "hipError_t")>>)

hipEventElapsedTime ==
  Call("connection", <<F("start", "hipEvent_t"), F("stop", "hipEvent_t")>>,
    <<F("ms", "float"), F("return_value", "hipError_t")>>)

hipEventQuery ==
  Call("connection", <<F("event", "hipEvent_t")>>, <<F("return_value", "hipError_t")>>)

hipExtMallocWithFlags ==
  Call("connection", <<F("sizeBytes", "size_t"), F("flags", "unsigned int")>>,
    <<F("ptr", "void*"), F("return_value", "hipError_t")>>)

hipStreamAttachMemAsync ==
  Call("connection", <<F("stream", "hipStream_t"), F("dev_ptr", "void*"), F("length", "size_t"),
      F("flags", "unsigned int")>>,
    <<F("return_value", "hipError_t")>>)

hipModuleGetGlobal ==
  With([dptr_present : Flag, bytes_present : Flag, name_len : Len1],
  Call("connection", <<F("dptr_present", "uint8_t"), FIf("dptr_present", "dptr", "hipDeviceptr_t"),
      F("bytes_present", "uint8_t"), FIf("bytes_present", "bytes", "size_t"),
      F("hmod", "hipModule_t"), F("name_len", "size_t"), Arr("name", "byte", {"name_len"})>>,
    <<FIf("dptr_present", "dptr", "hipDeviceptr_t"), FIf("bytes_present", "bytes", "size_t"),
        F("return_value", "hipError_t")>>))

hipGetMipmappedArrayLevel ==
  Call("connection", <<F("mipmappedArray", "hipMipmappedArray_const_t"),
      F("level", "unsigned int")>>,
    <<F("levelArray", "hipArray_t"), F("return_value", "hipError_t")>>)

hipDeviceCanAccessPeer ==
  Call("connection", <<F("deviceId", "int"), F("peerDeviceId", "int")>>,
    <<F("canAccessPeer", "int"), F("return_value", "hipError_t")>>)

hipDeviceEnablePeerAccess ==
  Call("connection", <<F("peerDeviceId", "int"), F("flags", "unsigned int")>>,
    <<F("return_value", "hipError_t")>>)

hipDeviceDisablePeerAccess ==
  Call("connection", <<F("peerDeviceId", "int")>>, <<F("return_value", "hipError_t")>>)

hipCtxCreate ==
  Call("connection_for_device", <<F("flags", "unsigned int"), F("device", "hipDevice_t")>>,
    <<F("ctx", "hipCtx_t"), F("return_value", "hipError_t")>>)

hipCtxDestroy ==
  Call("connection", <<F("ctx", "hipCtx_t")>>, <<F("return_value", "hipError_t")>>)

hipCtxPopCurrent ==
  With([ctx_present : Flag],
  Call("connection", <<F("ctx_present", "uint8_t"), FIf("ctx_present", "ctx", "hipCtx_t")>>,
    <<FIf("ctx_present", "ctx", "hipCtx_t"), F("return_value", "hipError_t")>>))

hipCtxPushCurrent ==
  Call("connection", <<F("ctx", "hipCtx_t")>>, <<F("return_value", "hipError_t")>>)

hipCtxSetCurrent ==
  Call("connection", <<F("ctx", "hipCtx_t")>>, <<F("return_value", "hipError_t")>>)

hipCtxGetCurrent ==
  Call("connection", <<>>, <<F("ctx", "hipCtx_t"), F("return_value", "hipError_t")>>)

hipCtxGetDevice ==
  Call("connection", <<>>, <<F("device", "hipDevice_t"), F("return_value", "hipError_t")>>)

hipCtxGetApiVersion ==
  Call("connection", <<F("ctx", "hipCtx_t")>>,
    <<F("apiVersion", "unsigned int"), F("return_value", "hipError_t")>>)

hipCtxGetCacheConfig ==
  Call("connection", <<>>, <<F("cacheConfig", "hipFuncCache_t"), F("return_value", "hipError_t")>>)

hipCtxSetCacheConfig ==
  Call("connection", <<F("cacheConfig", "hipFuncCache_t")>>, <<F("return_value", "hipError_t")>>)

hipCtxSetSharedMemConfig ==
  Call("connection", <<F("config", "hipSharedMemConfig")>>, <<F("return_value", "hipError_t")>>)

hipCtxGetSharedMemConfig ==
  Call("connection", <<>>, <<F("pConfig", "hipSharedMemConfig"), F("return_value", "hipError_t")>>)

hipCtxSynchronize ==
  Call("connection", <<>>, <<F("return_value", "hipError_t")>>)

hipCtxGetFlags ==
  Call("connection", <<>>, <<F("flags", "unsigned int"), F("return_value", "hipError_t")>>)

hipCtxEnablePeerAccess ==
  Call("connection", <<F("peerCtx", "hipCtx_t"), F("flags", "unsigned int")>>,
    <<F("return_value", "hipError_t")>>)

hipCtxDisablePeerAccess ==
  Call("connection", <<F("peerCtx", "hipCtx_t")>>, <<F("return_value", "hipError_t")>>)

hipDevicePrimaryCtxGetState ==
  Call("connection_for_device", <<F("dev", "hipDevice_t")>>,
    <<F("flags", "unsigned int"), F("active", "int"), F("return_value", "hipError_t")>>)

hipDevicePrimaryCtxRelease ==
  Call("connection_for_device", <<F("dev", "hipDevice_t")>>, <<F("return_value", "hipError_t")>>)

hipDevicePrimaryCtxRetain ==
  Call("connection_for_device", <<F("dev", "hipDevice_t")>>,
    <<F("pctx", "hipCtx_t"), F("return_value", "hipError_t")>>)

hipDevicePrimaryCtxReset ==
  Call("connection_for_device", <<F("dev", "hipDevice_t")>>, <<F("return_value", "hipError_t")>>)

hipDevicePrimaryCtxSetFlags ==
  Call("connection_for_device", <<F("dev", "hipDevice_t"), F("flags", "unsigned int")>>,
    <<F("return_value", "hipError_t")>>)

hipModuleGetFunction ==
  With([kname_len : Len1],
  Call("connection", <<F("module", "hipModule_t"), F("kname_len", "size_t"),
      Arr("kname", "byte", {"kname_len"})>>,
    <<F("function", "hipFunction_t"), F("return_value", "hipError_t")>>))

hipModuleGetFunctionCount ==
  Call("connection", <<F("mod", "hipModule_t")>>,
    <<F("count", "unsigned int"), F("return_value", "hipError_t")>>)

hipLibraryUnload ==
  Call("connection", <<F("library", "hipLibrary_t")>>, <<F("return_value", "hipError_t")>>)

hipLibraryGetKernel ==
  With([name_len : Len1],
  Call("connection", <<F("library", "hipLibrary_t"), F("name_len", "size_t"),
      Arr("name", "byte", {"name_len"})>>,
    <<F("pKernel", "hipKernel_t"), F("return_value", "hipError_t")>>))

hipLibraryGetKernelCount ==
  Call("connection", <<F("library", "hipLibrary_t")>>,
    <<F("count", "unsigned int"), F("return_value", "hipError_t")>>)

hipLibraryEnumerateKernels ==
  With([numKernels : Cnt],
  Call("connection", <<F("numKernels", "unsigned int"), F("library", "hipLibrary_t")>>,
    <<Arr("kernels", "hipKernel_t", {"numKernels"}), F("return_value", "hipError_t")>>))

hipKernelGetLibrary ==
  Call("connection", <<F("kernel", "hipKernel_t")>>,
    <<F("library", "hipLibrary_t"), F("return_value", "hipError_t")>>)

hipFuncGetAttribute ==
  Call("connection", <<F("attrib", "hipFunction_attribute"), F("hfunc", "hipFunction_t")>>,
    <<F("value", "int"), F("return_value", "hipError_t")>>)

hipModuleOccupancyMaxPotentialBlockSize ==
  Call("connection", <<F("f", "hipFunction_t"), F("dynSharedMemPerBlk", "size_t"),
      F("blockSizeLimit", "int")>>,
    <<F("gridSize", "int"), F("blockSize", "int"), F("return_value", "hipError_t")>>)

hipModuleOccupancyMaxPotentialBlockSizeWithFlags ==
  Call("connection", <<F("f", "hipFunction_t"), F("dynSharedMemPerBlk", "size_t"),
      F("blockSizeLimit", "int"), F("flags", "unsigned int")>>,
    <<F("gridSize", "int"), F("blockSize", "int"), F("return_value", "hipError_t")>>)

hipModuleOccupancyMaxActiveBlocksPerMultiprocessor ==
  Call("connection", <<F("f", "hipFunction_t"), F("blockSize", "int"),
      F("dynSharedMemPerBlk", "size_t")>>,
    <<F("numBlocks", "int"), F("return_value", "hipError_t")>>)

hipModuleOccupancyMaxActiveBlocksPerMultiprocessorWithFlags ==
  Call("connection", <<F("f", "hipFunction_t"), F("blockSize", "int"),
      F("dynSharedMemPerBlk", "size_t"), F("flags", "unsigned int")>>,
    <<F("numBlocks", "int"), F("return_value", "hipError_t")>>)

hipGetChannelDesc ==
  Call("connection", <<F("array", "hipArray_const_t")>>,
    <<F("desc", "hipChannelFormatDesc"), F("return_value", "hipError_t")>>)

hipStreamBeginCapture ==
  Call("connection", <<F("stream", "hipStream_t"), F("mode", "hipStreamCaptureMode")>>,
    <<F("return_value", "hipError_t")>>)

hipStreamBeginCaptureToGraph ==
  With([numDependencies : Cnt],
  Call("connection", <<F("stream", "hipStream_t"), F("graph", "hipGraph_t"),
      F("numDependencies", "size_t"), Arr("dependencies", "hipGraphNode_t", {"numDependencies"}),
      Arr("dependencyData", "hipGraphEdgeData", {"numDependencies"}),
      F("mode", "hipStreamCaptureMode")>>,
    <<F("return_value", "hipError_t")>>))

hipStreamEndCapture ==
  Call("connection", <<F("stream", "hipStream_t")>>,
    <<F("pGraph", "hipGraph_t"), F("return_value", "hipError_t")>>)

hipStreamGetCaptureInfo ==
  With([pId_present : Flag],
  Call("connection", <<F("stream", "hipStream_t"), F("pId_present", "uint8_t"),
      FIf("pId_present", "pId", "unsigned long long")>>,
    <<F("pCaptureStatus", "hipStreamCaptureStatus"),
        FIf("pId_present", "pId", "unsigned long long"), F("return_value", "hipError_t")>>))

hipStreamIsCapturing ==
  Call("connection", <<F("stream", "hipStream_t")>>,
    <<F("pCaptureStatus", "hipStreamCaptureStatus"), F("return_value", "hipError_t")>>)

hipStreamUpdateCaptureDependencies ==
  With([numDependencies : Cnt],
  Call("connection", <<F("stream", "hipStream_t"), F("numDependencies", "size_t"),
      Arr("dependencies", "hipGraphNode_t", {"numDependencies"}), F("flags", "unsigned int")>>,
    <<F("return_value", "hipError_t")>>))

hipThreadExchangeStreamCaptureMode ==
  Call("connection", <<F("mode", "hipStreamCaptureMode")>>,
    <<F("mode", "hipStreamCaptureMode"), F("return_value", "hipError_t")>>)

hipGraphCreate ==
  Call("connection", <<F("flags", "unsigned int")>>,
    <<F("pGraph", "hipGraph_t"), F("return_value", "hipError_t")>>)

hipGraphDestroy ==
  Call("connection", <<F("graph", "hipGraph_t")>>, <<F("return_value", "hipError_t")>>)

hipGraphAddDependencies ==
  With([numDependencies : Cnt],
  Call("connection", <<F("graph", "hipGraph_t"), F("numDependencies", "size_t"),
      Arr("from", "hipGraphNode_t", {"numDependencies"}),
      Arr("to", "hipGraphNode_t", {"numDependencies"})>>,
    <<F("return_value", "hipError_t")>>))

hipGraphRemoveDependencies ==
  With([numDependencies : Cnt],
  Call("connection", <<F("graph", "hipGraph_t"), F("numDependencies", "size_t"),
      Arr("from", "hipGraphNode_t", {"numDependencies"}),
      Arr("to", "hipGraphNode_t", {"numDependencies"})>>,
    <<F("return_value", "hipError_t")>>))

hipGraphGetEdges ==
  With({a \in [numEdges_requested : Cnt, from_null : Flag, to_null : Flag] :
      a.from_null = 1 => a.numEdges_requested = 0},
  Call("connection", <<F("graph", "hipGraph_t"), F("numEdges_requested", "size_t"),
      F("from_null", "uint8_t"), F("to_null", "uint8_t")>>,
    <<F("numEdges", "size_t"),
        ArrUnless("from_null", "from", "hipGraphNode_t", {"numEdges", "numEdges_requested"}),
        ArrUnless("to_null", "to", "hipGraphNode_t", {"numEdges", "numEdges_requested"}),
        F("return_value", "hipError_t")>>))

hipGraphGetNodes ==
  With({a \in [numNodes_requested : Cnt, nodes_null : Flag] :
      a.nodes_null = 1 => a.numNodes_requested = 0},
  Call("connection", <<F("graph", "hipGraph_t"), F("numNodes_requested", "size_t"),
      F("nodes_null", "uint8_t")>>,
    <<F("numNodes", "size_t"),
        ArrUnless("nodes_null", "nodes", "hipGraphNode_t", {"numNodes", "numNodes_requested"}),
        F("return_value", "hipError_t")>>))

hipGraphGetRootNodes ==
  With({a \in [pNumRootNodes_requested : Cnt, pRootNodes_null : Flag] :
      a.pRootNodes_null = 1 => a.pNumRootNodes_requested = 0},
  Call("connection", <<F("graph", "hipGraph_t"), F("pNumRootNodes_requested", "size_t"),
      F("pRootNodes_null", "uint8_t")>>,
    <<F("pNumRootNodes", "size_t"),
        ArrUnless("pRootNodes_null", "pRootNodes", "hipGraphNode_t",
            {"pNumRootNodes", "pNumRootNodes_requested"}),
        F("return_value", "hipError_t")>>))

hipGraphNodeGetDependencies ==
  With({a \in [pNumDependencies_requested : Cnt, pDependencies_null : Flag] :
      a.pDependencies_null = 1 => a.pNumDependencies_requested = 0},
  Call("connection", <<F("node", "hipGraphNode_t"), F("pNumDependencies_requested", "size_t"),
      F("pDependencies_null", "uint8_t")>>,
    <<F("pNumDependencies", "size_t"),
        ArrUnless("pDependencies_null", "pDependencies", "hipGraphNode_t",
            {"pNumDependencies", "pNumDependencies_requested"}),
        F("return_value", "hipError_t")>>))

hipGraphNodeGetDependentNodes ==
  With({a \in [pNumDependentNodes_requested : Cnt, pDependentNodes_null : Flag] :
      a.pDependentNodes_null = 1 => a.pNumDependentNodes_requested = 0},
  Call("connection", <<F("node", "hipGraphNode_t"), F("pNumDependentNodes_requested", "size_t"),
      F("pDependentNodes_null", "uint8_t")>>,
    <<F("pNumDependentNodes", "size_t"),
        ArrUnless("pDependentNodes_null", "pDependentNodes", "hipGraphNode_t",
            {"pNumDependentNodes", "pNumDependentNodes_requested"}),
        F("return_value", "hipError_t")>>))

hipGraphNodeGetType ==
  Call("connection", <<F("node", "hipGraphNode_t")>>,
    <<F("pType", "hipGraphNodeType"), F("return_value", "hipError_t")>>)

hipGraphDestroyNode ==
  Call("connection", <<F("node", "hipGraphNode_t")>>, <<F("return_value", "hipError_t")>>)

hipGraphClone ==
  Call("connection", <<F("originalGraph", "hipGraph_t")>>,
    <<F("pGraphClone", "hipGraph_t"), F("return_value", "hipError_t")>>)

hipGraphNodeFindInClone ==
  Call("connection", <<F("originalNode", "hipGraphNode_t"), F("clonedGraph", "hipGraph_t")>>,
    <<F("pNode", "hipGraphNode_t"), F("return_value", "hipError_t")>>)

hipGraphInstantiate ==
  With([pErrorNode_present : Flag, bufferSize : Cnt, pLogBuffer_null : Flag],
  Call("connection", <<F("graph", "hipGraph_t"), F("pErrorNode_present", "uint8_t"),
      FIf("pErrorNode_present", "pErrorNode", "hipGraphNode_t"), F("bufferSize", "size_t"),
      F("pLogBuffer_null", "uint8_t")>>,
    <<F("pGraphExec", "hipGraphExec_t"), FIf("pErrorNode_present", "pErrorNode", "hipGraphNode_t"),
        ArrUnless("pLogBuffer_null", "pLogBuffer", "char", {"bufferSize"}),
        F("return_value", "hipError_t")>>))

hipGraphInstantiateWithFlags ==
  Call("connection", <<F("graph", "hipGraph_t"), F("flags", "unsigned long long")>>,
    <<F("pGraphExec", "hipGraphExec_t"), F("return_value", "hipError_t")>>)

hipGraphInstantiateWithParams ==
  Call("connection", <<F("graph", "hipGraph_t"),
      F("instantiateParams", "hipGraphInstantiateParams")>>,
    <<F("pGraphExec", "hipGraphExec_t"), F("instantiateParams", "hipGraphInstantiateParams"),
        F("return_value", "hipError_t")>>)

hipGraphLaunch ==
  Call("connection", <<F("graphExec", "hipGraphExec_t"), F("stream", "hipStream_t")>>,
    <<F("return_value", "hipError_t")>>)

hipGraphUpload ==
  Call("connection", <<F("graphExec", "hipGraphExec_t"), F("stream", "hipStream_t")>>,
    <<F("return_value", "hipError_t")>>)

hipGraphExecGetFlags ==
  Call("connection", <<F("graphExec", "hipGraphExec_t")>>,
    <<F("flags", "unsigned long long"), F("return_value", "hipError_t")>>)

hipGraphExecDestroy ==
  Call("connection", <<F("graphExec", "hipGraphExec_t")>>, <<F("return_value", "hipError_t")>>)

hipGraphExecUpdate ==
  With([hErrorNode_out_present : Flag],
  Call("connection", <<F("hGraphExec", "hipGraphExec_t"), F("hGraph", "hipGraph_t"),
      F("hErrorNode_out_present", "uint8_t"),
      FIf("hErrorNode_out_present", "hErrorNode_out", "hipGraphNode_t")>>,
    <<FIf("hErrorNode_out_present", "hErrorNode_out", "hipGraphNode_t"),
        F("updateResult_out", "hipGraphExecUpdateResult"), F("return_value", "hipError_t")>>))

hipGraphAddMemsetNode ==
  With([numDependencies : Cnt],
  Call("connection", <<F("graph", "hipGraph_t"), F("numDependencies", "size_t"),
      Arr("pDependencies", "hipGraphNode_t", {"numDependencies"}),
      F("pMemsetParams", "hipMemsetParams")>>,
    <<F("pGraphNode", "hipGraphNode_t"), F("return_value", "hipError_t")>>))

hipGraphMemsetNodeGetParams ==
  Call("connection", <<F("node", "hipGraphNode_t")>>,
    <<F("pNodeParams", "hipMemsetParams"), F("return_value", "hipError_t")>>)

hipGraphMemsetNodeSetParams ==
  Call("connection", <<F("node", "hipGraphNode_t"), F("pNodeParams", "hipMemsetParams")>>,
    <<F("return_value", "hipError_t")>>)

hipGraphExecMemsetNodeSetParams ==
  Call("connection", <<F("hGraphExec", "hipGraphExec_t"), F("node", "hipGraphNode_t"),
      F("pNodeParams", "hipMemsetParams")>>,
    <<F("return_value", "hipError_t")>>)

hipGraphAddChildGraphNode ==
  With([numDependencies : Cnt],
  Call("connection", <<F("graph", "hipGraph_t"), F("numDependencies", "size_t"),
      Arr("pDependencies", "hipGraphNode_t", {"numDependencies"}), F("childGraph", "hipGraph_t")>>,
    <<F("pGraphNode", "hipGraphNode_t"), F("return_value", "hipError_t")>>))

hipGraphChildGraphNodeGetGraph ==
  Call("connection", <<F("node", "hipGraphNode_t")>>,
    <<F("pGraph", "hipGraph_t"), F("return_value", "hipError_t")>>)

hipGraphExecChildGraphNodeSetParams ==
  Call("connection", <<F("hGraphExec", "hipGraphExec_t"), F("node", "hipGraphNode_t"),
      F("childGraph", "hipGraph_t")>>,
    <<F("return_value", "hipError_t")>>)

hipGraphAddEmptyNode ==
  With([numDependencies : Cnt],
  Call("connection", <<F("graph", "hipGraph_t"), F("numDependencies", "size_t"),
      Arr("pDependencies", "hipGraphNode_t", {"numDependencies"})>>,
    <<F("pGraphNode", "hipGraphNode_t"), F("return_value", "hipError_t")>>))

hipGraphAddEventRecordNode ==
  With([numDependencies : Cnt],
  Call("connection", <<F("graph", "hipGraph_t"), F("numDependencies", "size_t"),
      Arr("pDependencies", "hipGraphNode_t", {"numDependencies"}), F("event", "hipEvent_t")>>,
    <<F("pGraphNode", "hipGraphNode_t"), F("return_value", "hipError_t")>>))

hipGraphEventRecordNodeGetEvent ==
  Call("connection", <<F("node", "hipGraphNode_t")>>,
    <<F("event_out", "hipEvent_t"), F("return_value", "hipError_t")>>)

hipGraphEventRecordNodeSetEvent ==
  Call("connection", <<F("node", "hipGraphNode_t"), F("event", "hipEvent_t")>>,
    <<F("return_value", "hipError_t")>>)

hipGraphExecEventRecordNodeSetEvent ==
  Call("connection", <<F("hGraphExec", "hipGraphExec_t"), F("hNode", "hipGraphNode_t"),
      F("event", "hipEvent_t")>>,
    <<F("return_value", "hipError_t")>>)

hipGraphAddEventWaitNode ==
  With([numDependencies : Cnt],
  Call("connection", <<F("graph", "hipGraph_t"), F("numDependencies", "size_t"),
      Arr("pDependencies", "hipGraphNode_t", {"numDependencies"}), F("event", "hipEvent_t")>>,
    <<F("pGraphNode", "hipGraphNode_t"), F("return_value", "hipError_t")>>))

hipGraphEventWaitNodeGetEvent ==
  Call("connection", <<F("node", "hipGraphNode_t")>>,
    <<F("event_out", "hipEvent_t"), F("return_value", "hipError_t")>>)

hipGraphEventWaitNodeSetEvent ==
  Call("connection", <<F("node", "hipGraphNode_t"), F("event", "hipEvent_t")>>,
    <<F("return_value", "hipError_t")>>)

hipGraphExecEventWaitNodeSetEvent ==
  Call("connection", <<F("hGraphExec", "hipGraphExec_t"), F("hNode", "hipGraphNode_t"),
      F("event", "hipEvent_t")>>,
    <<F("return_value", "hipError_t")>>)

hipGraphAddMemFreeNode ==
  With([numDependencies : Cnt],
  Call("connection", <<F("graph", "hipGraph_t"), F("numDependencies", "size_t"),
      Arr("pDependencies", "hipGraphNode_t", {"numDependencies"}), F("dev_ptr", "void*")>>,
    <<F("pGraphNode", "hipGraphNode_t"), F("return_value", "hipError_t")>>))

hipGraphMemFreeNodeGetParams ==
  Call("connection", <<F("node", "hipGraphNode_t")>>,
    <<F("dev_ptr", "byte[8]"), F("return_value", "hipError_t")>>)

hipGraphKernelNodeCopyAttributes ==
  Call("connection", <<F("hSrc", "hipGraphNode_t"), F("hDst", "hipGraphNode_t")>>,
    <<F("return_value", "hipError_t")>>)

hipGraphNodeSetEnabled ==
  Call("connection", <<F("hGraphExec", "hipGraphExec_t"), F("hNode", "hipGraphNode_t"),
      F("isEnabled", "unsigned int")>>,
    <<F("return_value", "hipError_t")>>)

hipGraphNodeGetEnabled ==
  Call("connection", <<F("hGraphExec", "hipGraphExec_t"), F("hNode", "hipGraphNode_t")>>,
    <<F("isEnabled", "unsigned int"), F("return_value", "hipError_t")>>)

hipDrvGraphAddMemsetNode ==
  With([numDependencies : Cnt],
  Call("connection", <<F("hGraph", "hipGraph_t"), F("numDependencies", "size_t"),
      Arr("dependencies", "hipGraphNode_t", {"numDependencies"}),
      F("memsetParams", "hipMemsetParams"), F("ctx", "hipCtx_t")>>,
    <<F("phGraphNode", "hipGraphNode_t"), F("return_value", "hipError_t")>>))

hipDrvGraphAddMemFreeNode ==
  With([numDependencies : Cnt],
  Call("connection", <<F("hGraph", "hipGraph_t"), F("numDependencies", "size_t"),
      Arr("dependencies", "hipGraphNode_t", {"numDependencies"}), F("dptr", "hipDeviceptr_t")>>,
    <<F("phGraphNode", "hipGraphNode_t"), F("return_value", "hipError_t")>>))

hipDrvGraphExecMemsetNodeSetParams ==
  Call("connection", <<F("hGraphExec", "hipGraphExec_t"), F("hNode", "hipGraphNode_t"),
      F("memsetParams", "hipMemsetParams"), F("ctx", "hipCtx_t")>>,
    <<F("return_value", "hipError_t")>>)

HipStubsTable ==
  [hipGetLastError |-> hipGetLastError, hipExtGetLastError |-> hipExtGetLastError,
   hipPeekAtLastError |-> hipPeekAtLastError,
   hipGetDevicePropertiesR0600 |-> hipGetDevicePropertiesR0600,
   hipDeviceGetName |-> hipDeviceGetName, hipDeviceTotalMem |-> hipDeviceTotalMem,
   hipDeviceGetAttribute |-> hipDeviceGetAttribute, hipDriverGetVersion |-> hipDriverGetVersion,
   hipRuntimeGetVersion |-> hipRuntimeGetVersion,
   hipDeviceComputeCapability |-> hipDeviceComputeCapability, hipDeviceGetUuid |-> hipDeviceGetUuid,
   hipDeviceGetP2PAttribute |-> hipDeviceGetP2PAttribute,
   hipDeviceGetPCIBusId |-> hipDeviceGetPCIBusId, hipDeviceGetByPCIBusId |-> hipDeviceGetByPCIBusId,
   hipDeviceSynchronize |-> hipDeviceSynchronize,
   hipDeviceGetDefaultMemPool |-> hipDeviceGetDefaultMemPool,
   hipDeviceSetMemPool |-> hipDeviceSetMemPool, hipDeviceGetMemPool |-> hipDeviceGetMemPool,
   hipDeviceGetTexture1DLinearMaxWidth |-> hipDeviceGetTexture1DLinearMaxWidth,
   hipDeviceSetCacheConfig |-> hipDeviceSetCacheConfig,
   hipDeviceGetCacheConfig |-> hipDeviceGetCacheConfig, hipDeviceGetLimit |-> hipDeviceGetLimit,
   hipDeviceSetLimit |-> hipDeviceSetLimit,
   hipDeviceGetSharedMemConfig |-> hipDeviceGetSharedMemConfig,
   hipGetDeviceFlags |-> hipGetDeviceFlags,
   hipDeviceSetSharedMemConfig |-> hipDeviceSetSharedMemConfig,
   hipSetDeviceFlags |-> hipSetDeviceFlags, hipChooseDeviceR0600 |-> hipChooseDeviceR0600,
   hipExtGetLinkTypeAndHopCount |-> hipExtGetLinkTypeAndHopCount,
   hipDeviceGetStreamPriorityRange |-> hipDeviceGetStreamPriorityRange,
   hipDeviceGraphMemTrim |-> hipDeviceGraphMemTrim, hipProfilerStart |-> hipProfilerStart,
   hipProfilerStop |-> hipProfilerStop, hipIpcGetMemHandle |-> hipIpcGetMemHandle,
   hipIpcOpenMemHandle |-> hipIpcOpenMemHandle, hipIpcCloseMemHandle |-> hipIpcCloseMemHandle,
   hipIpcGetEventHandle |-> hipIpcGetEventHandle, hipIpcOpenEventHandle |-> hipIpcOpenEventHandle,
   hipStreamCreate |-> hipStreamCreate, hipStreamCreateWithFlags |-> hipStreamCreateWithFlags,
   hipStreamCreateWithPriority |-> hipStreamCreateWithPriority,
   hipStreamDestroy |-> hipStreamDestroy, hipStreamQuery |-> hipStreamQuery,
   hipStreamSynchronize |-> hipStreamSynchronize, hipStreamWaitEvent |-> hipStreamWaitEvent,
   hipStreamGetFlags |-> hipStreamGetFlags, hipStreamGetId |-> hipStreamGetId,
   hipStreamGetPriority |-> hipStreamGetPriority, hipStreamGetDevice |-> hipStreamGetDevice,
   hipExtStreamCreateWithCUMask |-> hipExtStreamCreateWithCUMask,
   hipExtStreamGetCUMask |-> hipExtStreamGetCUMask, hipStreamSetAttribute |-> hipStreamSetAttribute,
   hipStreamGetAttribute |-> hipStreamGetAttribute,
   hipStreamCopyAttributes |-> hipStreamCopyAttributes,
   hipStreamWaitValue32 |-> hipStreamWaitValue32, hipStreamWaitValue64 |-> hipStreamWaitValue64,
   hipStreamWriteValue32 |-> hipStreamWriteValue32, hipStreamWriteValue64 |-> hipStreamWriteValue64,
   hipStreamBatchMemOp |-> hipStreamBatchMemOp,
   hipGraphAddBatchMemOpNode |-> hipGraphAddBatchMemOpNode,
   hipGraphBatchMemOpNodeSetParams |-> hipGraphBatchMemOpNodeSetParams,
   hipGraphExecBatchMemOpNodeSetParams |-> hipGraphExecBatchMemOpNodeSetParams,
   hipEventCreateWithFlags |-> hipEventCreateWithFlags, hipEventCreate |-> hipEventCreate,
   hipEventRecordWithFlags |-> hipEventRecordWithFlags, hipEventRecord |-> hipEventRecord,
   hipEventDestroy |-> hipEventDestroy, hipEventSynchronize |-> hipEventSynchronize,
   hipEventElapsedTime |-> hipEventElapsedTime, hipEventQuery |-> hipEventQuery,
   hipPointerGetAttributes |-> hipPointerGetAttributes, hipMalloc |-> hipMalloc,
   hipExtMallocWithFlags |-> hipExtMallocWithFlags, hipMallocManaged |-> hipMallocManaged,
   hipMemPrefetchAsync |-> hipMemPrefetchAsync, hipMemPrefetchAsync_v2 |-> hipMemPrefetchAsync_v2,
   hipMemAdvise |-> hipMemAdvise, hipMemAdvise_v2 |-> hipMemAdvise_v2,
   hipMemRangeGetAttribute |-> hipMemRangeGetAttribute,
   hipStreamAttachMemAsync |-> hipStreamAttachMemAsync, hipMallocAsync |-> hipMallocAsync,
   hipFreeAsync |-> hipFreeAsync, hipMemPoolTrimTo |-> hipMemPoolTrimTo,
   hipMemPoolSetAccess |-> hipMemPoolSetAccess, hipMemPoolGetAccess |-> hipMemPoolGetAccess,
   hipMemPoolCreate |-> hipMemPoolCreate, hipMemPoolDestroy |-> hipMemPoolDestroy,
   hipMallocFromPoolAsync |-> hipMallocFromPoolAsync,
   hipMemPoolExportPointer |-> hipMemPoolExportPointer,
   hipMemPoolImportPointer |-> hipMemPoolImportPointer, hipMallocPitch |-> hipMallocPitch,
   hipMemAllocPitch |-> hipMemAllocPitch, hipFree |-> hipFree, hipMemcpyHtoD |-> hipMemcpyHtoD,
   hipMemcpyDtoH |-> hipMemcpyDtoH, hipMemcpyDtoD |-> hipMemcpyDtoD,
   hipMemcpyAtoD |-> hipMemcpyAtoD, hipMemcpyDtoA |-> hipMemcpyDtoA,
   hipMemcpyAtoA |-> hipMemcpyAtoA, hipMemcpyDtoDAsync |-> hipMemcpyDtoDAsync,
   hipMemcpyAtoH |-> hipMemcpyAtoH, hipMemcpyHtoA |-> hipMemcpyHtoA,
   hipMemcpy2DArrayToArray |-> hipMemcpy2DArrayToArray, hipMemcpyPeer |-> hipMemcpyPeer,
   hipMemcpyPeerAsync |-> hipMemcpyPeerAsync, hipModuleGetGlobal |-> hipModuleGetGlobal,
   hipMemset |-> hipMemset, hipMemsetD8 |-> hipMemsetD8, hipMemsetD8Async |-> hipMemsetD8Async,
   hipMemsetD16 |-> hipMemsetD16, hipMemsetD16Async |-> hipMemsetD16Async,
   hipMemsetD32 |-> hipMemsetD32, hipMemsetAsync |-> hipMemsetAsync,
   hipMemsetD32Async |-> hipMemsetD32Async, hipMemset2D |-> hipMemset2D,
   hipMemset2DAsync |-> hipMemset2DAsync, hipMemset3D |-> hipMemset3D,
   hipMemset3DAsync |-> hipMemset3DAsync, hipMemsetD2D8 |-> hipMemsetD2D8,
   hipMemsetD2D8Async |-> hipMemsetD2D8Async, hipMemsetD2D16 |-> hipMemsetD2D16,
   hipMemsetD2D16Async |-> hipMemsetD2D16Async, hipMemsetD2D32 |-> hipMemsetD2D32,
   hipMemsetD2D32Async |-> hipMemsetD2D32Async, hipMemGetInfo |-> hipMemGetInfo,
   hipMemPtrGetInfo |-> hipMemPtrGetInfo, hipMemGetAddressRange |-> hipMemGetAddressRange,
   hipMallocArray |-> hipMallocArray, hipArrayCreate |-> hipArrayCreate,
   hipArrayDestroy |-> hipArrayDestroy, hipArray3DCreate |-> hipArray3DCreate,
   hipMalloc3D |-> hipMalloc3D, hipFreeArray |-> hipFreeArray,
   hipMalloc3DArray |-> hipMalloc3DArray, hipArrayGetInfo |-> hipArrayGetInfo,
   hipArrayGetDescriptor |-> hipArrayGetDescriptor,
   hipArray3DGetDescriptor |-> hipArray3DGetDescriptor,
   hipMallocMipmappedArray |-> hipMallocMipmappedArray,
   hipFreeMipmappedArray |-> hipFreeMipmappedArray,
   hipGetMipmappedArrayLevel |-> hipGetMipmappedArrayLevel,
   hipMipmappedArrayCreate |-> hipMipmappedArrayCreate,
   hipMipmappedArrayDestroy |-> hipMipmappedArrayDestroy,
   hipMipmappedArrayGetLevel |-> hipMipmappedArrayGetLevel,
   hipDeviceCanAccessPeer |-> hipDeviceCanAccessPeer,
   hipDeviceEnablePeerAccess |-> hipDeviceEnablePeerAccess,
   hipDeviceDisablePeerAccess |-> hipDeviceDisablePeerAccess, hipCtxCreate |-> hipCtxCreate,
   hipCtxDestroy |-> hipCtxDestroy, hipCtxPopCurrent |-> hipCtxPopCurrent,
   hipCtxPushCurrent |-> hipCtxPushCurrent, hipCtxSetCurrent |-> hipCtxSetCurrent,
   hipCtxGetCurrent |-> hipCtxGetCurrent, hipCtxGetDevice |-> hipCtxGetDevice,
   hipCtxGetApiVersion |-> hipCtxGetApiVersion, hipCtxGetCacheConfig |-> hipCtxGetCacheConfig,
   hipCtxSetCacheConfig |-> hipCtxSetCacheConfig,
   hipCtxSetSharedMemConfig |-> hipCtxSetSharedMemConfig,
   hipCtxGetSharedMemConfig |-> hipCtxGetSharedMemConfig, hipCtxSynchronize |-> hipCtxSynchronize,
   hipCtxGetFlags |-> hipCtxGetFlags, hipCtxEnablePeerAccess |-> hipCtxEnablePeerAccess,
   hipCtxDisablePeerAccess |-> hipCtxDisablePeerAccess,
   hipDevicePrimaryCtxGetState |-> hipDevicePrimaryCtxGetState,
   hipDevicePrimaryCtxRelease |-> hipDevicePrimaryCtxRelease,
   hipDevicePrimaryCtxRetain |-> hipDevicePrimaryCtxRetain,
   hipDevicePrimaryCtxReset |-> hipDevicePrimaryCtxReset,
   hipDevicePrimaryCtxSetFlags |-> hipDevicePrimaryCtxSetFlags,
   hipModuleGetFunction |-> hipModuleGetFunction,
   hipModuleGetFunctionCount |-> hipModuleGetFunctionCount, hipLibraryUnload |-> hipLibraryUnload,
   hipLibraryGetKernel |-> hipLibraryGetKernel,
   hipLibraryGetKernelCount |-> hipLibraryGetKernelCount,
   hipLibraryEnumerateKernels |-> hipLibraryEnumerateKernels,
   hipKernelGetLibrary |-> hipKernelGetLibrary, hipFuncGetAttribute |-> hipFuncGetAttribute,
   hipModuleOccupancyMaxPotentialBlockSize |-> hipModuleOccupancyMaxPotentialBlockSize,
   hipModuleOccupancyMaxPotentialBlockSizeWithFlags |-> hipModuleOccupancyMaxPotentialBlockSizeWithFlags,
   hipModuleOccupancyMaxActiveBlocksPerMultiprocessor |-> hipModuleOccupancyMaxActiveBlocksPerMultiprocessor,
   hipModuleOccupancyMaxActiveBlocksPerMultiprocessorWithFlags |-> hipModuleOccupancyMaxActiveBlocksPerMultiprocessorWithFlags,
   hipCreateTextureObject |-> hipCreateTextureObject,
   hipDestroyTextureObject |-> hipDestroyTextureObject, hipGetChannelDesc |-> hipGetChannelDesc,
   hipGetTextureObjectResourceDesc |-> hipGetTextureObjectResourceDesc,
   hipGetTextureObjectResourceViewDesc |-> hipGetTextureObjectResourceViewDesc,
   hipGetTextureObjectTextureDesc |-> hipGetTextureObjectTextureDesc,
   hipTexObjectCreate |-> hipTexObjectCreate, hipTexObjectDestroy |-> hipTexObjectDestroy,
   hipTexObjectGetResourceDesc |-> hipTexObjectGetResourceDesc,
   hipTexObjectGetResourceViewDesc |-> hipTexObjectGetResourceViewDesc,
   hipTexObjectGetTextureDesc |-> hipTexObjectGetTextureDesc,
   hipCreateSurfaceObject |-> hipCreateSurfaceObject,
   hipDestroySurfaceObject |-> hipDestroySurfaceObject,
   hipStreamBeginCapture |-> hipStreamBeginCapture,
   hipStreamBeginCaptureToGraph |-> hipStreamBeginCaptureToGraph,
   hipStreamEndCapture |-> hipStreamEndCapture, hipStreamGetCaptureInfo |-> hipStreamGetCaptureInfo,
   hipStreamIsCapturing |-> hipStreamIsCapturing,
   hipStreamUpdateCaptureDependencies |-> hipStreamUpdateCaptureDependencies,
   hipThreadExchangeStreamCaptureMode |-> hipThreadExchangeStreamCaptureMode,
   hipGraphCreate |-> hipGraphCreate, hipGraphDestroy |-> hipGraphDestroy,
   hipGraphAddDependencies |-> hipGraphAddDependencies,
   hipGraphRemoveDependencies |-> hipGraphRemoveDependencies, hipGraphGetEdges |-> hipGraphGetEdges,
   hipGraphGetNodes |-> hipGraphGetNodes, hipGraphGetRootNodes |-> hipGraphGetRootNodes,
   hipGraphNodeGetDependencies |-> hipGraphNodeGetDependencies,
   hipGraphNodeGetDependentNodes |-> hipGraphNodeGetDependentNodes,
   hipGraphNodeGetType |-> hipGraphNodeGetType, hipGraphDestroyNode |-> hipGraphDestroyNode,
   hipGraphClone |-> hipGraphClone, hipGraphNodeFindInClone |-> hipGraphNodeFindInClone,
   hipGraphInstantiate |-> hipGraphInstantiate,
   hipGraphInstantiateWithFlags |-> hipGraphInstantiateWithFlags,
   hipGraphInstantiateWithParams |-> hipGraphInstantiateWithParams,
   hipGraphLaunch |-> hipGraphLaunch, hipGraphUpload |-> hipGraphUpload,
   hipGraphExecGetFlags |-> hipGraphExecGetFlags, hipGraphExecDestroy |-> hipGraphExecDestroy,
   hipGraphExecUpdate |-> hipGraphExecUpdate, hipGraphAddMemsetNode |-> hipGraphAddMemsetNode,
   hipGraphMemsetNodeGetParams |-> hipGraphMemsetNodeGetParams,
   hipGraphMemsetNodeSetParams |-> hipGraphMemsetNodeSetParams,
   hipGraphExecMemsetNodeSetParams |-> hipGraphExecMemsetNodeSetParams,
   hipGraphAddChildGraphNode |-> hipGraphAddChildGraphNode,
   hipGraphChildGraphNodeGetGraph |-> hipGraphChildGraphNodeGetGraph,
   hipGraphExecChildGraphNodeSetParams |-> hipGraphExecChildGraphNodeSetParams,
   hipGraphAddEmptyNode |-> hipGraphAddEmptyNode,
   hipGraphAddEventRecordNode |-> hipGraphAddEventRecordNode,
   hipGraphEventRecordNodeGetEvent |-> hipGraphEventRecordNodeGetEvent,
   hipGraphEventRecordNodeSetEvent |-> hipGraphEventRecordNodeSetEvent,
   hipGraphExecEventRecordNodeSetEvent |-> hipGraphExecEventRecordNodeSetEvent,
   hipGraphAddEventWaitNode |-> hipGraphAddEventWaitNode,
   hipGraphEventWaitNodeGetEvent |-> hipGraphEventWaitNodeGetEvent,
   hipGraphEventWaitNodeSetEvent |-> hipGraphEventWaitNodeSetEvent,
   hipGraphExecEventWaitNodeSetEvent |-> hipGraphExecEventWaitNodeSetEvent,
   hipGraphAddMemFreeNode |-> hipGraphAddMemFreeNode,
   hipGraphMemFreeNodeGetParams |-> hipGraphMemFreeNodeGetParams,
   hipGraphKernelNodeCopyAttributes |-> hipGraphKernelNodeCopyAttributes,
   hipGraphNodeSetEnabled |-> hipGraphNodeSetEnabled,
   hipGraphNodeGetEnabled |-> hipGraphNodeGetEnabled,
   hipDrvGraphAddMemsetNode |-> hipDrvGraphAddMemsetNode,
   hipDrvGraphAddMemFreeNode |-> hipDrvGraphAddMemFreeNode,
   hipDrvGraphExecMemsetNodeSetParams |-> hipDrvGraphExecMemsetNodeSetParams,
   hipMemAddressFree |-> hipMemAddressFree, hipMemAddressReserve |-> hipMemAddressReserve,
   hipMemCreate |-> hipMemCreate, hipMemGetAccess |-> hipMemGetAccess,
   hipMemGetAllocationGranularity |-> hipMemGetAllocationGranularity,
   hipMemGetAllocationPropertiesFromHandle |-> hipMemGetAllocationPropertiesFromHandle,
   hipMemMap |-> hipMemMap, hipMemMapArrayAsync |-> hipMemMapArrayAsync,
   hipMemRelease |-> hipMemRelease, hipMemRetainAllocationHandle |-> hipMemRetainAllocationHandle,
   hipMemSetAccess |-> hipMemSetAccess, hipMemUnmap |-> hipMemUnmap]
=============================================================================
