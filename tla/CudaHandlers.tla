---------------------------- MODULE CudaHandlers ----------------------------
(*****************************************************************************)
(* The generated CUDA handlers of the server, codegen/gen_cuda_server.cpp,   *)
(* for the requests the stubs of CudaStubs send.                             *)
(*****************************************************************************)
EXTENDS CudaMemoryHandlers

\* cuda_server.cpp, called with include_count.
lupine_write_pending_dtoh_copies ==
  <<F("copy_count", "uint32_t"), Arr("copies", "lupine_host_rows", {"copy_count"})>>

\* device_stdout.cpp
lupine_write_captured_stdout ==
  <<F("output_size", "uint64_t"), Arr("output", "byte", {"output_size"})>>

handle_cuDeviceGetLuid ==
  Reply(<<Alloc("luid"), F("dev", "CUdevice")>>,
    <<F("luid", "byte[8]"), F("deviceNodeMask", "unsigned int"), F("return_value", "CUresult")>>)

handle_cuDeviceGetTexture1DLinearMaxWidth ==
  Reply(<<F("format", "CUarray_format"), F("numChannels", "unsigned"), F("dev", "CUdevice")>>,
    <<F("maxWidthInElements", "size_t"), F("return_value", "CUresult")>>)

handle_cuDeviceSetMemPool ==
  Reply(<<F("dev", "CUdevice"), F("pool", "CUmemoryPool")>>, <<F("return_value", "CUresult")>>)

handle_cuDeviceGetMemPool ==
  Reply(<<F("dev", "CUdevice")>>, <<F("pool", "CUmemoryPool"), F("return_value", "CUresult")>>)

handle_cuDeviceGetDefaultMemPool ==
  Reply(<<F("dev", "CUdevice")>>, <<F("pool_out", "CUmemoryPool"), F("return_value", "CUresult")>>)

handle_cuDeviceGetExecAffinitySupport ==
  Reply(<<F("type", "CUexecAffinityType"), F("dev", "CUdevice")>>,
    <<F("pi", "int"), F("return_value", "CUresult")>>)

handle_cuFlushGPUDirectRDMAWrites ==
  Reply(<<F("target", "CUflushGPUDirectRDMAWritesTarget"),
      F("scope", "CUflushGPUDirectRDMAWritesScope")>>,
    <<F("return_value", "CUresult")>>)

handle_cuDeviceGetProperties ==
  Reply(<<F("dev", "CUdevice")>>, <<F("prop", "CUdevprop"), F("return_value", "CUresult")>>)

handle_cuDeviceComputeCapability ==
  Reply(<<F("dev", "CUdevice")>>,
    <<F("major", "int"), F("minor", "int"), F("return_value", "CUresult")>>)

handle_cuCtxGetFlags ==
  Reply(<<>>, <<F("flags", "unsigned int"), F("return_value", "CUresult")>>)

handle_cuCtxGetId ==
  Reply(<<F("ctx", "CUcontext")>>,
    <<F("ctxId", "unsigned long long"), F("return_value", "CUresult")>>)

handle_cuCtxSynchronize ==
  Driver([copy_count : Cnt, output_size : Cnt],
  Reply(<<>>,
    lupine_write_pending_dtoh_copies \o lupine_write_captured_stdout \o
        <<F("return_value", "CUresult")>>))

handle_cuCtxSynchronize_v2 ==
  Driver([copy_count : Cnt, output_size : Cnt],
  Reply(<<F("ctx", "CUcontext")>>,
    lupine_write_pending_dtoh_copies \o lupine_write_captured_stdout \o
        <<F("return_value", "CUresult")>>))

handle_cuCtxSetLimit ==
  Reply(<<F("limit", "CUlimit"), F("value", "size_t")>>, <<F("return_value", "CUresult")>>)

handle_cuCtxGetLimit ==
  Reply(<<F("limit", "CUlimit")>>, <<F("pvalue", "size_t"), F("return_value", "CUresult")>>)

handle_cuCtxGetCacheConfig ==
  Reply(<<>>, <<F("pconfig", "CUfunc_cache"), F("return_value", "CUresult")>>)

handle_cuCtxSetCacheConfig ==
  Reply(<<F("config", "CUfunc_cache")>>, <<F("return_value", "CUresult")>>)

handle_cuCtxGetApiVersion ==
  Reply(<<F("ctx", "CUcontext")>>, <<F("version", "unsigned int"), F("return_value", "CUresult")>>)

handle_cuCtxResetPersistingL2Cache ==
  Reply(<<>>, <<F("return_value", "CUresult")>>)

handle_cuCtxGetExecAffinity ==
  Reply(<<F("type", "CUexecAffinityType")>>,
    <<F("pExecAffinity", "CUexecAffinityParam"), F("return_value", "CUresult")>>)

handle_cuCtxRecordEvent ==
  Reply(<<F("hCtx", "CUcontext"), F("hEvent", "CUevent")>>, <<F("return_value", "CUresult")>>)

handle_cuCtxWaitEvent ==
  Reply(<<F("hCtx", "CUcontext"), F("hEvent", "CUevent")>>, <<F("return_value", "CUresult")>>)

handle_cuCtxGetSharedMemConfig ==
  Reply(<<>>, <<F("pConfig", "CUsharedconfig"), F("return_value", "CUresult")>>)

handle_cuCtxSetSharedMemConfig ==
  Reply(<<F("config", "CUsharedconfig")>>, <<F("return_value", "CUresult")>>)

handle_cuModuleUnload ==
  Reply(<<F("hmod", "CUmodule")>>, <<F("return_value", "CUresult")>>)

handle_cuModuleGetTexRef ==
  Reply(<<F("hmod", "CUmodule"), F("name_len", "size_t"), AllocArr("name", {"name_len"}),
      Arr("name", "byte", {"name_len"})>>,
    <<F("pTexRef", "CUtexref"), F("return_value", "CUresult")>>)

handle_cuModuleGetSurfRef ==
  Reply(<<F("hmod", "CUmodule"), F("name_len", "size_t"), AllocArr("name", {"name_len"}),
      Arr("name", "byte", {"name_len"})>>,
    <<F("pSurfRef", "CUsurfref"), F("return_value", "CUresult")>>)

handle_cuLibraryGetGlobal ==
  Reply(<<F("dptr_present", "uint8_t"), FIf("dptr_present", "dptr", "CUdeviceptr"),
      F("bytes_present", "uint8_t"), FIf("bytes_present", "bytes", "size_t"),
      F("library", "CUlibrary"), F("name_len", "size_t"), AllocArr("name", {"name_len"}),
      Arr("name", "byte", {"name_len"})>>,
    <<FIf("dptr_present", "dptr", "CUdeviceptr"), FIf("bytes_present", "bytes", "size_t"),
        F("return_value", "CUresult")>>)

handle_cuLibraryGetManaged ==
  Reply(<<F("dptr_present", "uint8_t"), FIf("dptr_present", "dptr", "CUdeviceptr"),
      F("bytes_present", "uint8_t"), FIf("bytes_present", "bytes", "size_t"),
      F("library", "CUlibrary"), F("name_len", "size_t"), AllocArr("name", {"name_len"}),
      Arr("name", "byte", {"name_len"})>>,
    <<FIf("dptr_present", "dptr", "CUdeviceptr"), FIf("bytes_present", "bytes", "size_t"),
        F("return_value", "CUresult")>>)

handle_cuLibraryGetUnifiedFunction ==
  Reply(<<F("library", "CUlibrary"), F("symbol_len", "size_t"), AllocArr("symbol", {"symbol_len"}),
      Arr("symbol", "byte", {"symbol_len"})>>,
    <<F("fptr", "void*"), F("return_value", "CUresult")>>)

handle_cuKernelSetAttribute ==
  Run(<<F("async_sequence", "uint64_t"), F("attrib", "CUfunction_attribute"), F("val", "int"),
      F("kernel", "CUkernel"), F("dev", "CUdevice")>>)

handle_cuKernelSetCacheConfig ==
  Reply(<<F("kernel", "CUkernel"), F("config", "CUfunc_cache"), F("dev", "CUdevice")>>,
    <<F("return_value", "CUresult")>>)

handle_cuKernelGetName ==
  Driver([name_len : Out],
  Reply(<<F("hfunc", "CUkernel")>>,
    <<F("name_len", "size_t"), Arr("name", "byte", {"name_len"}), F("return_value", "CUresult")>>))

handle_cuDeviceGetByPCIBusId ==
  Reply(<<F("dev_present", "uint8_t"), FIf("dev_present", "dev", "CUdevice"),
      F("pciBusId_len", "size_t"), AllocArr("pciBusId", {"pciBusId_len"}),
      Arr("pciBusId", "byte", {"pciBusId_len"})>>,
    <<FIf("dev_present", "dev", "CUdevice"), F("return_value", "CUresult")>>)

handle_cuDeviceGetPCIBusId ==
  Reply(<<F("len", "int"), NonNegative("len"), AllocArr("pciBusId", {"len"}),
      F("dev", "CUdevice")>>,
    <<Arr("pciBusId", "char", {"len"}), F("return_value", "CUresult")>>)

handle_cuStreamGetPriority ==
  Reply(<<F("hStream", "CUstream"), F("priority", "int")>>,
    <<F("priority", "int"), F("return_value", "CUresult")>>)

handle_cuStreamGetFlags ==
  Reply(<<F("hStream", "CUstream"), F("flags", "unsigned int")>>,
    <<F("flags", "unsigned int"), F("return_value", "CUresult")>>)

handle_cuStreamGetId ==
  Reply(<<F("hStream", "CUstream"), F("streamId", "unsigned long long")>>,
    <<F("streamId", "unsigned long long"), F("return_value", "CUresult")>>)

handle_cuStreamGetCtx ==
  Reply(<<F("hStream", "CUstream"), F("pctx", "CUcontext")>>,
    <<F("pctx", "CUcontext"), F("return_value", "CUresult")>>)

handle_cuStreamAttachMemAsync ==
  Reply(<<F("hStream", "CUstream"), F("dptr", "CUdeviceptr"), F("length", "size_t"),
      F("flags", "unsigned int")>>,
    <<F("return_value", "CUresult")>>)

handle_cuStreamQuery ==
  Driver([copy_count : Cnt],
  Reply(<<F("hStream", "CUstream")>>,
    lupine_write_pending_dtoh_copies \o <<F("return_value", "CUresult")>>))

handle_cuStreamSynchronize ==
  Driver([copy_count : Cnt, output_size : Cnt],
  Reply(<<F("hStream", "CUstream")>>,
    lupine_write_pending_dtoh_copies \o lupine_write_captured_stdout \o
        <<F("return_value", "CUresult")>>))

handle_cuStreamDestroy_v2 ==
  Reply(<<F("hStream", "CUstream")>>, <<F("return_value", "CUresult")>>)

handle_cuStreamCopyAttributes ==
  Reply(<<F("dst", "CUstream"), F("src", "CUstream")>>, <<F("return_value", "CUresult")>>)

handle_cuStreamGetAttribute ==
  Reply(<<F("hStream", "CUstream"), F("attr", "CUstreamAttrID"),
      F("value_out", "CUstreamAttrValue")>>,
    <<F("value_out", "CUstreamAttrValue"), F("return_value", "CUresult")>>)

handle_cuStreamSetAttribute ==
  Reply(<<F("hStream", "CUstream"), F("attr", "CUstreamAttrID"), F("value", "CUstreamAttrValue")>>,
    <<F("return_value", "CUresult")>>)

handle_cuEventSynchronize ==
  Driver([copy_count : Cnt, output_size : Cnt],
  Reply(<<F("hEvent", "CUevent")>>,
    lupine_write_pending_dtoh_copies \o lupine_write_captured_stdout \o
        <<F("return_value", "CUresult")>>))

\* Mutant: the result is not written.
handle_cuEventElapsedTime_v2NoResult ==
  Reply(<<F("pMilliseconds", "float"), F("hStart", "CUevent"), F("hEnd", "CUevent")>>,
    <<F("pMilliseconds", "float")>>)

handle_cuEventElapsedTime_v2 ==
  Reply(<<F("pMilliseconds", "float"), F("hStart", "CUevent"), F("hEnd", "CUevent")>>,
    <<F("pMilliseconds", "float"), F("return_value", "CUresult")>>)

handle_cuSignalExternalSemaphoresAsync ==
  Reply(<<F("numExtSems", "unsigned int"), AllocArr("extSemArray", {"numExtSems"}),
      Arr("extSemArray", "CUexternalSemaphore", {"numExtSems"}),
      AllocArr("paramsArray", {"numExtSems"}),
      Arr("paramsArray", "CUDA_EXTERNAL_SEMAPHORE_SIGNAL_PARAMS", {"numExtSems"}),
      F("stream", "CUstream")>>,
    <<F("return_value", "CUresult")>>)

handle_cuWaitExternalSemaphoresAsync ==
  Reply(<<F("numExtSems", "unsigned int"), AllocArr("extSemArray", {"numExtSems"}),
      Arr("extSemArray", "CUexternalSemaphore", {"numExtSems"}),
      AllocArr("paramsArray", {"numExtSems"}),
      Arr("paramsArray", "CUDA_EXTERNAL_SEMAPHORE_WAIT_PARAMS", {"numExtSems"}),
      F("stream", "CUstream")>>,
    <<F("return_value", "CUresult")>>)

handle_cuStreamWaitValue32_v2 ==
  Reply(<<F("stream", "CUstream"), F("addr", "CUdeviceptr"), F("value", "cuuint32_t"),
      F("flags", "unsigned int")>>,
    <<F("return_value", "CUresult")>>)

handle_cuStreamWaitValue64_v2 ==
  Reply(<<F("stream", "CUstream"), F("addr", "CUdeviceptr"), F("value", "cuuint64_t"),
      F("flags", "unsigned int")>>,
    <<F("return_value", "CUresult")>>)

handle_cuStreamWriteValue32_v2 ==
  Reply(<<F("stream", "CUstream"), F("addr", "CUdeviceptr"), F("value", "cuuint32_t"),
      F("flags", "unsigned int")>>,
    <<F("return_value", "CUresult")>>)

handle_cuStreamWriteValue64_v2 ==
  Reply(<<F("stream", "CUstream"), F("addr", "CUdeviceptr"), F("value", "cuuint64_t"),
      F("flags", "unsigned int")>>,
    <<F("return_value", "CUresult")>>)

handle_cuStreamBatchMemOp_v2 ==
  Reply(<<F("stream", "CUstream"), F("count", "unsigned int"), AllocArr("paramArray", {"count"}),
      Arr("paramArray", "CUstreamBatchMemOpParams", {"count"}), F("flags", "unsigned int")>>,
    <<F("return_value", "CUresult")>>)

handle_cuFuncGetAttribute ==
  Reply(<<F("pi", "int"), F("attrib", "CUfunction_attribute"), F("hfunc", "CUfunction")>>,
    <<F("pi", "int"), F("return_value", "CUresult")>>)

handle_cuFuncSetAttribute ==
  Reply(<<F("hfunc", "CUfunction"), F("attrib", "CUfunction_attribute"), F("value", "int")>>,
    <<F("return_value", "CUresult")>>)

handle_cuFuncSetCacheConfig ==
  Reply(<<F("hfunc", "CUfunction"), F("config", "CUfunc_cache")>>,
    <<F("return_value", "CUresult")>>)

handle_cuFuncGetModule ==
  Reply(<<F("hmod", "CUmodule"), F("hfunc", "CUfunction")>>,
    <<F("hmod", "CUmodule"), F("return_value", "CUresult")>>)

handle_cuFuncGetName ==
  Driver([name_len : Out],
  Reply(<<F("hfunc", "CUfunction")>>,
    <<F("name_len", "size_t"), Arr("name", "byte", {"name_len"}), F("return_value", "CUresult")>>))

handle_cuFuncSetBlockShape ==
  Reply(<<F("hfunc", "CUfunction"), F("x", "int"), F("y", "int"), F("z", "int")>>,
    <<F("return_value", "CUresult")>>)

handle_cuFuncSetSharedSize ==
  Reply(<<F("hfunc", "CUfunction"), F("bytes", "unsigned int")>>, <<F("return_value", "CUresult")>>)

handle_cuParamSetSize ==
  Reply(<<F("hfunc", "CUfunction"), F("numbytes", "unsigned int")>>,
    <<F("return_value", "CUresult")>>)

handle_cuParamSeti ==
  Reply(<<F("hfunc", "CUfunction"), F("offset", "int"), F("value", "unsigned int")>>,
    <<F("return_value", "CUresult")>>)

handle_cuParamSetf ==
  Reply(<<F("hfunc", "CUfunction"), F("offset", "int"), F("value", "float")>>,
    <<F("return_value", "CUresult")>>)

handle_cuParamSetv ==
  Reply(<<F("hfunc", "CUfunction"), F("offset", "int"), F("numbytes", "unsigned int"),
      AllocArr("ptr", {"numbytes"}), Arr("ptr", "byte", {"numbytes"})>>,
    <<F("return_value", "CUresult")>>)

handle_cuLaunch ==
  Reply(<<F("f", "CUfunction")>>, <<F("return_value", "CUresult")>>)

handle_cuLaunchGrid ==
  Reply(<<F("f", "CUfunction"), F("grid_width", "int"), F("grid_height", "int")>>,
    <<F("return_value", "CUresult")>>)

handle_cuLaunchGridAsync ==
  Reply(<<F("f", "CUfunction"), F("grid_width", "int"), F("grid_height", "int"),
      F("hStream", "CUstream")>>,
    <<F("return_value", "CUresult")>>)

handle_cuParamSetTexRef ==
  Reply(<<F("hfunc", "CUfunction"), F("texunit", "int"), F("hTexRef", "CUtexref")>>,
    <<F("return_value", "CUresult")>>)

handle_cuFuncSetSharedMemConfig ==
  Reply(<<F("hfunc", "CUfunction"), F("config", "CUsharedconfig")>>,
    <<F("return_value", "CUresult")>>)

handle_cuGraphCreate ==
  Reply(<<F("phGraph", "CUgraph"), F("flags", "unsigned int")>>,
    <<F("phGraph", "CUgraph"), F("return_value", "CUresult")>>)

handle_cuGraphMemcpyNodeGetParams ==
  Reply(<<F("hNode", "CUgraphNode"), F("nodeParams", "CUDA_MEMCPY3D")>>,
    <<F("nodeParams", "CUDA_MEMCPY3D"), F("return_value", "CUresult")>>)

handle_cuGraphMemcpyNodeSetParams ==
  Reply(<<F("hNode", "CUgraphNode"), F("nodeParams", "CUDA_MEMCPY3D")>>,
    <<F("return_value", "CUresult")>>)

handle_cuGraphMemsetNodeGetParams ==
  Reply(<<F("hNode", "CUgraphNode"), F("nodeParams", "CUDA_MEMSET_NODE_PARAMS")>>,
    <<F("nodeParams", "CUDA_MEMSET_NODE_PARAMS"), F("return_value", "CUresult")>>)

handle_cuGraphMemsetNodeSetParams ==
  Reply(<<F("hNode", "CUgraphNode"), F("nodeParams", "CUDA_MEMSET_NODE_PARAMS")>>,
    <<F("return_value", "CUresult")>>)

handle_cuGraphAddChildGraphNode ==
  Reply(<<F("phGraphNode", "CUgraphNode"), F("hGraph", "CUgraph"), F("numDependencies", "size_t"),
      AllocArr("dependencies", {"numDependencies"}),
      Arr("dependencies", "CUgraphNode", {"numDependencies"}), F("childGraph", "CUgraph")>>,
    <<F("phGraphNode", "CUgraphNode"), F("return_value", "CUresult")>>)

handle_cuGraphChildGraphNodeGetGraph ==
  Reply(<<F("hNode", "CUgraphNode"), F("phGraph", "CUgraph")>>,
    <<F("phGraph", "CUgraph"), F("return_value", "CUresult")>>)

handle_cuGraphAddEmptyNode ==
  Reply(<<F("phGraphNode", "CUgraphNode"), F("hGraph", "CUgraph"), F("numDependencies", "size_t"),
      AllocArr("dependencies", {"numDependencies"}),
      Arr("dependencies", "CUgraphNode", {"numDependencies"})>>,
    <<F("phGraphNode", "CUgraphNode"), F("return_value", "CUresult")>>)

handle_cuGraphAddEventRecordNode ==
  Reply(<<F("phGraphNode", "CUgraphNode"), F("hGraph", "CUgraph"), F("numDependencies", "size_t"),
      AllocArr("dependencies", {"numDependencies"}),
      Arr("dependencies", "CUgraphNode", {"numDependencies"}), F("event", "CUevent")>>,
    <<F("phGraphNode", "CUgraphNode"), F("return_value", "CUresult")>>)

handle_cuGraphEventRecordNodeGetEvent ==
  Reply(<<F("hNode", "CUgraphNode"), F("event_out", "CUevent")>>,
    <<F("event_out", "CUevent"), F("return_value", "CUresult")>>)

handle_cuGraphEventRecordNodeSetEvent ==
  Reply(<<F("hNode", "CUgraphNode"), F("event", "CUevent")>>, <<F("return_value", "CUresult")>>)

handle_cuGraphAddEventWaitNode ==
  Reply(<<F("phGraphNode", "CUgraphNode"), F("hGraph", "CUgraph"), F("numDependencies", "size_t"),
      AllocArr("dependencies", {"numDependencies"}),
      Arr("dependencies", "CUgraphNode", {"numDependencies"}), F("event", "CUevent")>>,
    <<F("phGraphNode", "CUgraphNode"), F("return_value", "CUresult")>>)

handle_cuGraphEventWaitNodeGetEvent ==
  Reply(<<F("hNode", "CUgraphNode"), F("event_out", "CUevent")>>,
    <<F("event_out", "CUevent"), F("return_value", "CUresult")>>)

handle_cuGraphEventWaitNodeSetEvent ==
  Reply(<<F("hNode", "CUgraphNode"), F("event", "CUevent")>>, <<F("return_value", "CUresult")>>)

handle_cuGraphAddExternalSemaphoresSignalNode ==
  Reply(<<F("phGraphNode", "CUgraphNode"), F("hGraph", "CUgraph"), F("numDependencies", "size_t"),
      AllocArr("dependencies", {"numDependencies"}),
      Arr("dependencies", "CUgraphNode", {"numDependencies"}),
      F("nodeParams", "CUDA_EXT_SEM_SIGNAL_NODE_PARAMS"),
      Arr("nodeParams.extSemArray", "*nodeParams.extSemArray", {"nodeParams"}),
      Arr("nodeParams.paramsArray", "*nodeParams.paramsArray", {"nodeParams"})>>,
    <<F("phGraphNode", "CUgraphNode"), F("return_value", "CUresult")>>)

handle_cuGraphExternalSemaphoresSignalNodeGetParams ==
  Driver([params_out : Out],
  Reply(<<F("hNode", "CUgraphNode")>>,
    <<F("params_out", "CUDA_EXT_SEM_SIGNAL_NODE_PARAMS"),
        Arr("params_out.extSemArray", "*params_out.extSemArray", {"params_out"}),
        Arr("params_out.paramsArray", "*params_out.paramsArray", {"params_out"}),
        F("return_value", "CUresult")>>))

handle_cuGraphExternalSemaphoresSignalNodeSetParams ==
  Reply(<<F("hNode", "CUgraphNode"), F("nodeParams", "CUDA_EXT_SEM_SIGNAL_NODE_PARAMS"),
      Arr("nodeParams.extSemArray", "*nodeParams.extSemArray", {"nodeParams"}),
      Arr("nodeParams.paramsArray", "*nodeParams.paramsArray", {"nodeParams"})>>,
    <<F("return_value", "CUresult")>>)

handle_cuGraphAddExternalSemaphoresWaitNode ==
  Reply(<<F("phGraphNode", "CUgraphNode"), F("hGraph", "CUgraph"), F("numDependencies", "size_t"),
      AllocArr("dependencies", {"numDependencies"}),
      Arr("dependencies", "CUgraphNode", {"numDependencies"}),
      F("nodeParams", "CUDA_EXT_SEM_WAIT_NODE_PARAMS"),
      Arr("nodeParams.extSemArray", "*nodeParams.extSemArray", {"nodeParams"}),
      Arr("nodeParams.paramsArray", "*nodeParams.paramsArray", {"nodeParams"})>>,
    <<F("phGraphNode", "CUgraphNode"), F("return_value", "CUresult")>>)

handle_cuGraphExternalSemaphoresWaitNodeGetParams ==
  Driver([params_out : Out],
  Reply(<<F("hNode", "CUgraphNode")>>,
    <<F("params_out", "CUDA_EXT_SEM_WAIT_NODE_PARAMS"),
        Arr("params_out.extSemArray", "*params_out.extSemArray", {"params_out"}),
        Arr("params_out.paramsArray", "*params_out.paramsArray", {"params_out"}),
        F("return_value", "CUresult")>>))

handle_cuGraphExternalSemaphoresWaitNodeSetParams ==
  Reply(<<F("hNode", "CUgraphNode"), F("nodeParams", "CUDA_EXT_SEM_WAIT_NODE_PARAMS"),
      Arr("nodeParams.extSemArray", "*nodeParams.extSemArray", {"nodeParams"}),
      Arr("nodeParams.paramsArray", "*nodeParams.paramsArray", {"nodeParams"})>>,
    <<F("return_value", "CUresult")>>)

handle_cuGraphAddBatchMemOpNode ==
  Reply(<<F("phGraphNode", "CUgraphNode"), F("hGraph", "CUgraph"), F("numDependencies", "size_t"),
      AllocArr("dependencies", {"numDependencies"}),
      Arr("dependencies", "CUgraphNode", {"numDependencies"}),
      F("nodeParams", "CUDA_BATCH_MEM_OP_NODE_PARAMS"),
      Arr("nodeParams.paramArray", "*nodeParams.paramArray", {"nodeParams"})>>,
    <<F("phGraphNode", "CUgraphNode"), F("return_value", "CUresult")>>)

handle_cuGraphBatchMemOpNodeGetParams ==
  Driver([nodeParams_out : Out],
  Reply(<<F("hNode", "CUgraphNode")>>,
    <<F("nodeParams_out", "CUDA_BATCH_MEM_OP_NODE_PARAMS"),
        Arr("nodeParams_out.paramArray", "*nodeParams_out.paramArray", {"nodeParams_out"}),
        F("return_value", "CUresult")>>))

handle_cuGraphBatchMemOpNodeSetParams ==
  Reply(<<F("hNode", "CUgraphNode"), F("nodeParams", "CUDA_BATCH_MEM_OP_NODE_PARAMS"),
      Arr("nodeParams.paramArray", "*nodeParams.paramArray", {"nodeParams"})>>,
    <<F("return_value", "CUresult")>>)

handle_cuGraphExecBatchMemOpNodeSetParams ==
  Reply(<<F("hGraphExec", "CUgraphExec"), F("hNode", "CUgraphNode"),
      F("nodeParams", "CUDA_BATCH_MEM_OP_NODE_PARAMS"),
      Arr("nodeParams.paramArray", "*nodeParams.paramArray", {"nodeParams"})>>,
    <<F("return_value", "CUresult")>>)

handle_cuGraphAddMemAllocNode ==
  Reply(<<F("phGraphNode", "CUgraphNode"), F("hGraph", "CUgraph"), F("numDependencies", "size_t"),
      AllocArr("dependencies", {"numDependencies"}),
      Arr("dependencies", "CUgraphNode", {"numDependencies"}),
      F("nodeParams", "CUDA_MEM_ALLOC_NODE_PARAMS"),
      Arr("nodeParams.accessDescs", "*nodeParams.accessDescs", {"nodeParams"})>>,
    <<F("phGraphNode", "CUgraphNode"), F("nodeParams", "CUDA_MEM_ALLOC_NODE_PARAMS"),
        F("return_value", "CUresult")>>)

handle_cuGraphMemAllocNodeGetParams ==
  Driver([params_out : Out],
  Reply(<<F("hNode", "CUgraphNode")>>,
    <<F("params_out", "CUDA_MEM_ALLOC_NODE_PARAMS"),
        Arr("params_out.accessDescs", "*params_out.accessDescs", {"params_out"}),
        F("return_value", "CUresult")>>))

handle_cuGraphAddMemFreeNode ==
  Reply(<<F("phGraphNode", "CUgraphNode"), F("hGraph", "CUgraph"), F("numDependencies", "size_t"),
      AllocArr("dependencies", {"numDependencies"}),
      Arr("dependencies", "CUgraphNode", {"numDependencies"}), F("dptr", "CUdeviceptr")>>,
    <<F("phGraphNode", "CUgraphNode"), F("return_value", "CUresult")>>)

handle_cuGraphMemFreeNodeGetParams ==
  Reply(<<F("hNode", "CUgraphNode"), F("dptr_out", "CUdeviceptr")>>,
    <<F("dptr_out", "CUdeviceptr"), F("return_value", "CUresult")>>)

handle_cuDeviceGraphMemTrim ==
  Reply(<<F("device", "CUdevice")>>, <<F("return_value", "CUresult")>>)

handle_cuGraphNodeFindInClone ==
  Reply(<<F("phNode", "CUgraphNode"), F("hOriginalNode", "CUgraphNode"),
      F("hClonedGraph", "CUgraph")>>,
    <<F("phNode", "CUgraphNode"), F("return_value", "CUresult")>>)

handle_cuGraphNodeGetType ==
  Reply(<<F("hNode", "CUgraphNode"), F("type", "CUgraphNodeType")>>,
    <<F("type", "CUgraphNodeType"), F("return_value", "CUresult")>>)

handle_cuGraphNodeGetContainingGraph ==
  Reply(<<F("hNode", "CUgraphNode")>>, <<F("phGraph", "CUgraph"), F("return_value", "CUresult")>>)

handle_cuGraphNodeGetLocalId ==
  Reply(<<F("hNode", "CUgraphNode")>>,
    <<F("nodeId", "unsigned int"), F("return_value", "CUresult")>>)

handle_cuGraphNodeGetToolsId ==
  Reply(<<F("hNode", "CUgraphNode")>>,
    <<F("toolsNodeId", "unsigned long long"), F("return_value", "CUresult")>>)

handle_cuGraphGetId ==
  Reply(<<F("hGraph", "CUgraph")>>, <<F("graphId", "unsigned int"), F("return_value", "CUresult")>>)

handle_cuGraphExecGetId ==
  Reply(<<F("hGraphExec", "CUgraphExec")>>,
    <<F("graphId", "unsigned int"), F("return_value", "CUresult")>>)

handle_cuGraphGetNodes ==
  Driver([numNodes : Out],
  Reply(<<F("hGraph", "CUgraph"), F("numNodes_requested", "size_t"), F("nodes_null", "uint8_t"),
      AllocUnless("nodes_null", "nodes")>>,
    <<F("numNodes", "size_t"),
        ArrUnless("nodes_null", "nodes", "CUgraphNode", {"numNodes", "numNodes_requested"}),
        F("return_value", "CUresult")>>))

\* Mutant: all the nodes the driver reports are written.
handle_cuGraphGetRootNodesUnclamped ==
  Driver([numRootNodes : Out],
  Reply(<<F("hGraph", "CUgraph"), F("numRootNodes_requested", "size_t"),
      F("rootNodes_null", "uint8_t"), AllocUnless("rootNodes_null", "rootNodes")>>,
    <<F("numRootNodes", "size_t"),
        ArrUnless("rootNodes_null", "rootNodes", "CUgraphNode", {"numRootNodes"}),
        F("return_value", "CUresult")>>))

handle_cuGraphGetRootNodes ==
  Driver([numRootNodes : Out],
  Reply(<<F("hGraph", "CUgraph"), F("numRootNodes_requested", "size_t"),
      F("rootNodes_null", "uint8_t"), AllocUnless("rootNodes_null", "rootNodes")>>,
    <<F("numRootNodes", "size_t"),
        ArrUnless("rootNodes_null", "rootNodes", "CUgraphNode",
            {"numRootNodes", "numRootNodes_requested"}),
        F("return_value", "CUresult")>>))

handle_cuGraphGetEdges_v2 ==
  Driver([numEdges : Out],
  Reply(<<F("hGraph", "CUgraph"), F("numEdges_requested", "size_t"), F("from_null", "uint8_t"),
      AllocUnless("from_null", "from"), F("to_null", "uint8_t"), AllocUnless("to_null", "to"),
      F("edgeData_null", "uint8_t"), AllocUnless("edgeData_null", "edgeData")>>,
    <<F("numEdges", "size_t"),
        ArrUnless("from_null", "from", "CUgraphNode", {"numEdges", "numEdges_requested"}),
        ArrUnless("to_null", "to", "CUgraphNode", {"numEdges", "numEdges_requested"}),
        ArrUnless("edgeData_null", "edgeData", "CUgraphEdgeData",
            {"numEdges", "numEdges_requested"}),
        F("return_value", "CUresult")>>))

handle_cuGraphNodeGetDependencies_v2 ==
  Driver([numDependencies : Out],
  Reply(<<F("hNode", "CUgraphNode"), F("numDependencies_requested", "size_t"),
      F("dependencies_null", "uint8_t"), AllocUnless("dependencies_null", "dependencies"),
      F("edgeData_null", "uint8_t"), AllocUnless("edgeData_null", "edgeData")>>,
    <<F("numDependencies", "size_t"),
        ArrUnless("dependencies_null", "dependencies", "CUgraphNode",
            {"numDependencies", "numDependencies_requested"}),
        ArrUnless("edgeData_null", "edgeData", "CUgraphEdgeData",
            {"numDependencies", "numDependencies_requested"}),
        F("return_value", "CUresult")>>))

handle_cuGraphNodeGetDependentNodes_v2 ==
  Driver([numDependentNodes : Out],
  Reply(<<F("hNode", "CUgraphNode"), F("numDependentNodes_requested", "size_t"),
      F("dependentNodes_null", "uint8_t"), AllocUnless("dependentNodes_null", "dependentNodes"),
      F("edgeData_null", "uint8_t"), AllocUnless("edgeData_null", "edgeData")>>,
    <<F("numDependentNodes", "size_t"),
        ArrUnless("dependentNodes_null", "dependentNodes", "CUgraphNode",
            {"numDependentNodes", "numDependentNodes_requested"}),
        ArrUnless("edgeData_null", "edgeData", "CUgraphEdgeData",
            {"numDependentNodes", "numDependentNodes_requested"}),
        F("return_value", "CUresult")>>))

handle_cuGraphDestroyNode ==
  Reply(<<F("hNode", "CUgraphNode")>>, <<F("return_value", "CUresult")>>)

handle_cuGraphExecGetFlags ==
  Reply(<<F("hGraphExec", "CUgraphExec"), F("flags", "cuuint64_t")>>,
    <<F("flags", "cuuint64_t"), F("return_value", "CUresult")>>)

handle_cuGraphExecMemcpyNodeSetParams ==
  Reply(<<F("hGraphExec", "CUgraphExec"), F("hNode", "CUgraphNode"),
      F("copyParams", "CUDA_MEMCPY3D"), F("ctx", "CUcontext")>>,
    <<F("return_value", "CUresult")>>)

handle_cuGraphExecMemsetNodeSetParams ==
  Reply(<<F("hGraphExec", "CUgraphExec"), F("hNode", "CUgraphNode"),
      F("memsetParams", "CUDA_MEMSET_NODE_PARAMS"), F("ctx", "CUcontext")>>,
    <<F("return_value", "CUresult")>>)

handle_cuGraphExecChildGraphNodeSetParams ==
  Reply(<<F("hGraphExec", "CUgraphExec"), F("hNode", "CUgraphNode"), F("childGraph", "CUgraph")>>,
    <<F("return_value", "CUresult")>>)

handle_cuGraphExecEventRecordNodeSetEvent ==
  Reply(<<F("hGraphExec", "CUgraphExec"), F("hNode", "CUgraphNode"), F("event", "CUevent")>>,
    <<F("return_value", "CUresult")>>)

handle_cuGraphExecEventWaitNodeSetEvent ==
  Reply(<<F("hGraphExec", "CUgraphExec"), F("hNode", "CUgraphNode"), F("event", "CUevent")>>,
    <<F("return_value", "CUresult")>>)

handle_cuGraphExecExternalSemaphoresSignalNodeSetParams ==
  Reply(<<F("hGraphExec", "CUgraphExec"), F("hNode", "CUgraphNode"),
      F("nodeParams", "CUDA_EXT_SEM_SIGNAL_NODE_PARAMS"),
      Arr("nodeParams.extSemArray", "*nodeParams.extSemArray", {"nodeParams"}),
      Arr("nodeParams.paramsArray", "*nodeParams.paramsArray", {"nodeParams"})>>,
    <<F("return_value", "CUresult")>>)

handle_cuGraphExecExternalSemaphoresWaitNodeSetParams ==
  Reply(<<F("hGraphExec", "CUgraphExec"), F("hNode", "CUgraphNode"),
      F("nodeParams", "CUDA_EXT_SEM_WAIT_NODE_PARAMS"),
      Arr("nodeParams.extSemArray", "*nodeParams.extSemArray", {"nodeParams"}),
      Arr("nodeParams.paramsArray", "*nodeParams.paramsArray", {"nodeParams"})>>,
    <<F("return_value", "CUresult")>>)

handle_cuGraphNodeSetEnabled ==
  Reply(<<F("hGraphExec", "CUgraphExec"), F("hNode", "CUgraphNode"),
      F("isEnabled", "unsigned int")>>,
    <<F("return_value", "CUresult")>>)

handle_cuGraphNodeGetEnabled ==
  Reply(<<F("hGraphExec", "CUgraphExec"), F("hNode", "CUgraphNode"),
      F("isEnabled", "unsigned int")>>,
    <<F("isEnabled", "unsigned int"), F("return_value", "CUresult")>>)

handle_cuGraphUpload ==
  Reply(<<F("hGraphExec", "CUgraphExec"), F("hStream", "CUstream")>>,
    <<F("return_value", "CUresult")>>)

handle_cuGraphExecUpdate_v2 ==
  Reply(<<F("hGraphExec", "CUgraphExec"), F("hGraph", "CUgraph"),
      F("resultInfo", "CUgraphExecUpdateResultInfo")>>,
    <<F("resultInfo", "CUgraphExecUpdateResultInfo"), F("return_value", "CUresult")>>)

handle_cuGraphKernelNodeCopyAttributes ==
  Reply(<<F("dst", "CUgraphNode"), F("src", "CUgraphNode")>>, <<F("return_value", "CUresult")>>)

handle_cuGraphKernelNodeGetAttribute ==
  Reply(<<F("hNode", "CUgraphNode"), F("attr", "CUkernelNodeAttrID"),
      F("value_out", "CUkernelNodeAttrValue")>>,
    <<F("value_out", "CUkernelNodeAttrValue"), F("return_value", "CUresult")>>)

handle_cuGraphKernelNodeSetAttribute ==
  Reply(<<F("hNode", "CUgraphNode"), F("attr", "CUkernelNodeAttrID"),
      F("value", "CUkernelNodeAttrValue")>>,
    <<F("return_value", "CUresult")>>)

handle_cuGraphDebugDotPrint ==
  Reply(<<F("hGraph", "CUgraph"), F("path_len", "size_t"), AllocArr("path", {"path_len"}),
      Arr("path", "byte", {"path_len"}), F("flags", "unsigned int")>>,
    <<F("return_value", "CUresult")>>)

handle_cuUserObjectRetain ==
  Reply(<<F("object", "CUuserObject"), F("count", "unsigned int")>>,
    <<F("return_value", "CUresult")>>)

handle_cuUserObjectRelease ==
  Reply(<<F("object", "CUuserObject"), F("count", "unsigned int")>>,
    <<F("return_value", "CUresult")>>)

handle_cuGraphRetainUserObject ==
  Reply(<<F("graph", "CUgraph"), F("object", "CUuserObject"), F("count", "unsigned int"),
      F("flags", "unsigned int")>>,
    <<F("return_value", "CUresult")>>)

handle_cuGraphReleaseUserObject ==
  Reply(<<F("graph", "CUgraph"), F("object", "CUuserObject"), F("count", "unsigned int")>>,
    <<F("return_value", "CUresult")>>)

handle_cuGraphNodeSetParams ==
  Reply(<<F("hNode", "CUgraphNode"), F("nodeParams", "CUgraphNodeParams")>>,
    <<F("return_value", "CUresult")>>)

handle_cuGraphExecNodeSetParams ==
  Reply(<<F("hGraphExec", "CUgraphExec"), F("hNode", "CUgraphNode"),
      F("nodeParams", "CUgraphNodeParams")>>,
    <<F("return_value", "CUresult")>>)

handle_cuOccupancyAvailableDynamicSMemPerBlock ==
  Reply(<<F("dynamicSmemSize", "size_t"), F("func", "CUfunction"), F("numBlocks", "int"),
      F("blockSize", "int")>>,
    <<F("dynamicSmemSize", "size_t"), F("return_value", "CUresult")>>)

handle_cuOccupancyMaxPotentialClusterSize ==
  Reply(<<F("clusterSize", "int"), F("func", "CUfunction"), F("config", "CUlaunchConfig"),
      Arr("config.attrs", "*config.attrs", {"config"})>>,
    <<F("clusterSize", "int"), F("return_value", "CUresult")>>)

handle_cuOccupancyMaxActiveClusters ==
  Reply(<<F("numClusters", "int"), F("func", "CUfunction"), F("config", "CUlaunchConfig"),
      Arr("config.attrs", "*config.attrs", {"config"})>>,
    <<F("numClusters", "int"), F("return_value", "CUresult")>>)

handle_cuTensorMapReplaceAddress ==
  Reply(<<F("tensorMap", "CUtensorMap"), F("globalAddress", "void*")>>,
    <<F("tensorMap", "CUtensorMap"), F("return_value", "CUresult")>>)

handle_cuCoredumpGetAttributeGlobal ==
  Driver([size : Out],
  Reply(<<F("attrib", "CUcoredumpSettings"), F("size", "size_t"), AllocArr("value", {"size"})>>,
    <<F("size", "size_t"), Arr("value", "byte", {"size"}), F("return_value", "CUresult")>>))

handle_cuCoredumpSetAttributeGlobal ==
  Reply(<<F("attrib", "CUcoredumpSettings"), F("size", "size_t"), AllocArr("value", {"size"}),
      Arr("value", "byte", {"size"})>>,
    <<F("size", "size_t"), F("return_value", "CUresult")>>)

handle_cuGreenCtxCreate ==
  Reply(<<F("desc", "CUdevResourceDesc"), F("dev", "CUdevice"), F("flags", "unsigned int")>>,
    <<F("phCtx", "CUgreenCtx"), F("return_value", "CUresult")>>)

handle_cuGreenCtxDestroy ==
  Reply(<<F("hCtx", "CUgreenCtx")>>, <<F("return_value", "CUresult")>>)

handle_cuCtxFromGreenCtx ==
  Reply(<<F("hCtx", "CUgreenCtx")>>, <<F("pContext", "CUcontext"), F("return_value", "CUresult")>>)

handle_cuDeviceGetDevResource ==
  Reply(<<F("device", "CUdevice"), F("type", "CUdevResourceType")>>,
    <<F("resource", "CUdevResource"), F("return_value", "CUresult")>>)

handle_cuCtxGetDevResource ==
  Reply(<<F("hCtx", "CUcontext"), F("type", "CUdevResourceType")>>,
    <<F("resource", "CUdevResource"), F("return_value", "CUresult")>>)

handle_cuGreenCtxGetDevResource ==
  Reply(<<F("hCtx", "CUgreenCtx"), F("type", "CUdevResourceType")>>,
    <<F("resource", "CUdevResource"), F("return_value", "CUresult")>>)

handle_cuDevSmResourceSplitByCount ==
  Driver([nbGroups : Out],
  Reply(<<F("nbGroups_requested", "unsigned int"), F("result_null", "uint8_t"),
      AllocUnless("result_null", "result"), F("input", "CUdevResource"),
      F("remainder_present", "uint8_t"), FIf("remainder_present", "remainder", "CUdevResource"),
      F("flags", "unsigned int"), F("minCount", "unsigned int")>>,
    <<F("nbGroups", "unsigned int"),
        ArrUnless("result_null", "result", "CUdevResource", {"nbGroups", "nbGroups_requested"}),
        FIf("remainder_present", "remainder", "CUdevResource"), F("return_value", "CUresult")>>))

handle_cuDevSmResourceSplit ==
  Reply(<<F("nbGroups", "unsigned int"), F("result_null", "uint8_t"),
      AllocUnless("result_null", "result"), F("input", "CUdevResource"),
      F("remainder_present", "uint8_t"), FIf("remainder_present", "remainder", "CUdevResource"),
      F("flags", "unsigned int"), AllocArr("groupParams", {"nbGroups"}),
      Arr("groupParams", "CU_DEV_SM_RESOURCE_GROUP_PARAMS", {"nbGroups"})>>,
    <<ArrUnless("result_null", "result", "CUdevResource", {"nbGroups"}),
        FIf("remainder_present", "remainder", "CUdevResource"),
        Arr("groupParams", "CU_DEV_SM_RESOURCE_GROUP_PARAMS", {"nbGroups"}),
        F("return_value", "CUresult")>>)

handle_cuDevResourceGenerateDesc ==
  Reply(<<F("nbResources", "unsigned int"), AllocArr("resources", {"nbResources"}),
      Arr("resources", "CUdevResource", {"nbResources"})>>,
    <<F("phDesc", "CUdevResourceDesc"), F("return_value", "CUresult")>>)

handle_cuGreenCtxRecordEvent ==
  Reply(<<F("hCtx", "CUgreenCtx"), F("hEvent", "CUevent")>>, <<F("return_value", "CUresult")>>)

handle_cuGreenCtxWaitEvent ==
  Reply(<<F("hCtx", "CUgreenCtx"), F("hEvent", "CUevent")>>, <<F("return_value", "CUresult")>>)

handle_cuStreamGetGreenCtx ==
  Reply(<<F("hStream", "CUstream")>>, <<F("phCtx", "CUgreenCtx"), F("return_value", "CUresult")>>)

handle_cuGreenCtxStreamCreate ==
  Reply(<<F("greenCtx", "CUgreenCtx"), F("flags", "unsigned int"), F("priority", "int")>>,
    <<F("phStream", "CUstream"), F("return_value", "CUresult")>>)

handle_cuGreenCtxGetId ==
  Reply(<<F("greenCtx", "CUgreenCtx")>>,
    <<F("greenCtxId", "unsigned long long"), F("return_value", "CUresult")>>)

handle_cuStreamGetDevResource ==
  Reply(<<F("hStream", "CUstream"), F("type", "CUdevResourceType")>>,
    <<F("resource", "CUdevResource"), F("return_value", "CUresult")>>)

handle_cuLogsCurrent ==
  Reply(<<F("iterator_out_present", "uint8_t"),
      FIf("iterator_out_present", "iterator_out", "CUlogIterator"), F("flags", "unsigned int")>>,
    <<FIf("iterator_out_present", "iterator_out", "CUlogIterator"), F("return_value", "CUresult")>>)

handle_cuLogsDumpToFile ==
  Reply(<<F("iterator_present", "uint8_t"), FIf("iterator_present", "iterator", "CUlogIterator"),
      F("pathToFile_len", "size_t"), AllocArr("pathToFile", {"pathToFile_len"}),
      Arr("pathToFile", "byte", {"pathToFile_len"}), F("flags", "unsigned int")>>,
    <<FIf("iterator_present", "iterator", "CUlogIterator"), F("return_value", "CUresult")>>)

handle_cuLogsDumpToMemory ==
  Driver([size : Out],
  Reply(<<F("iterator_present", "uint8_t"), FIf("iterator_present", "iterator", "CUlogIterator"),
      F("size_requested", "size_t"), F("buffer_null", "uint8_t"),
      AllocUnless("buffer_null", "buffer"), F("flags", "unsigned int")>>,
    <<FIf("iterator_present", "iterator", "CUlogIterator"), F("size", "size_t"),
        ArrUnless("buffer_null", "buffer", "char", {"size", "size_requested"}),
        F("return_value", "CUresult")>>))

handle_cuGraphExecUpdate ==
  Reply(<<F("hGraphExec", "CUgraphExec"), F("hGraph", "CUgraph"),
      F("hErrorNode_out_present", "uint8_t"),
      FIf("hErrorNode_out_present", "hErrorNode_out", "CUgraphNode"),
      F("updateResult_out_present", "uint8_t"),
      FIf("updateResult_out_present", "updateResult_out", "CUgraphExecUpdateResult")>>,
    <<FIf("hErrorNode_out_present", "hErrorNode_out", "CUgraphNode"),
        FIf("updateResult_out_present", "updateResult_out", "CUgraphExecUpdateResult"),
        F("return_value", "CUresult")>>)

CudaHandlersTable ==
  [cuDeviceGetLuid |-> handle_cuDeviceGetLuid,
   cuDeviceGetTexture1DLinearMaxWidth |-> handle_cuDeviceGetTexture1DLinearMaxWidth,
   cuDeviceSetMemPool |-> handle_cuDeviceSetMemPool,
   cuDeviceGetMemPool |-> handle_cuDeviceGetMemPool,
   cuDeviceGetDefaultMemPool |-> handle_cuDeviceGetDefaultMemPool,
   cuDeviceGetExecAffinitySupport |-> handle_cuDeviceGetExecAffinitySupport,
   cuFlushGPUDirectRDMAWrites |-> handle_cuFlushGPUDirectRDMAWrites,
   cuDeviceGetProperties |-> handle_cuDeviceGetProperties,
   cuDeviceComputeCapability |-> handle_cuDeviceComputeCapability,
   cuCtxGetFlags |-> handle_cuCtxGetFlags, cuCtxGetId |-> handle_cuCtxGetId,
   cuCtxSynchronize |-> handle_cuCtxSynchronize, cuCtxSynchronize_v2 |-> handle_cuCtxSynchronize_v2,
   cuCtxSetLimit |-> handle_cuCtxSetLimit, cuCtxGetLimit |-> handle_cuCtxGetLimit,
   cuCtxGetCacheConfig |-> handle_cuCtxGetCacheConfig,
   cuCtxSetCacheConfig |-> handle_cuCtxSetCacheConfig,
   cuCtxGetApiVersion |-> handle_cuCtxGetApiVersion,
   cuCtxResetPersistingL2Cache |-> handle_cuCtxResetPersistingL2Cache,
   cuCtxGetExecAffinity |-> handle_cuCtxGetExecAffinity,
   cuCtxRecordEvent |-> handle_cuCtxRecordEvent, cuCtxWaitEvent |-> handle_cuCtxWaitEvent,
   cuCtxGetSharedMemConfig |-> handle_cuCtxGetSharedMemConfig,
   cuCtxSetSharedMemConfig |-> handle_cuCtxSetSharedMemConfig,
   cuModuleUnload |-> handle_cuModuleUnload, cuModuleGetTexRef |-> handle_cuModuleGetTexRef,
   cuModuleGetSurfRef |-> handle_cuModuleGetSurfRef,
   cuLibraryGetGlobal |-> handle_cuLibraryGetGlobal,
   cuLibraryGetManaged |-> handle_cuLibraryGetManaged,
   cuLibraryGetUnifiedFunction |-> handle_cuLibraryGetUnifiedFunction,
   cuKernelSetAttribute |-> handle_cuKernelSetAttribute,
   cuKernelSetCacheConfig |-> handle_cuKernelSetCacheConfig,
   cuKernelGetName |-> handle_cuKernelGetName, cuMemGetInfo_v2 |-> handle_cuMemGetInfo_v2,
   cuMemAlloc_v2 |-> handle_cuMemAlloc_v2, cuMemAllocPitch_v2 |-> handle_cuMemAllocPitch_v2,
   cuMemGetAddressRange_v2 |-> handle_cuMemGetAddressRange_v2,
   cuDeviceGetByPCIBusId |-> handle_cuDeviceGetByPCIBusId,
   cuDeviceGetPCIBusId |-> handle_cuDeviceGetPCIBusId,
   cuIpcGetEventHandle |-> handle_cuIpcGetEventHandle,
   cuIpcOpenEventHandle |-> handle_cuIpcOpenEventHandle,
   cuIpcGetMemHandle |-> handle_cuIpcGetMemHandle,
   cuIpcOpenMemHandle_v2 |-> handle_cuIpcOpenMemHandle_v2,
   cuIpcCloseMemHandle |-> handle_cuIpcCloseMemHandle, cuMemcpyPeer |-> handle_cuMemcpyPeer,
   cuMemcpyDtoD_v2 |-> handle_cuMemcpyDtoD_v2, cuMemcpyDtoA_v2 |-> handle_cuMemcpyDtoA_v2,
   cuMemcpyAtoD_v2 |-> handle_cuMemcpyAtoD_v2, cuMemcpyAtoA_v2 |-> handle_cuMemcpyAtoA_v2,
   cuMemcpyPeerAsync |-> handle_cuMemcpyPeerAsync,
   cuMemcpyDtoDAsync_v2 |-> handle_cuMemcpyDtoDAsync_v2, cuMemsetD8_v2 |-> handle_cuMemsetD8_v2,
   cuMemsetD16_v2 |-> handle_cuMemsetD16_v2, cuMemsetD32_v2 |-> handle_cuMemsetD32_v2,
   cuMemsetD2D8_v2 |-> handle_cuMemsetD2D8_v2, cuMemsetD2D16_v2 |-> handle_cuMemsetD2D16_v2,
   cuMemsetD2D32_v2 |-> handle_cuMemsetD2D32_v2, cuMemsetD8Async |-> handle_cuMemsetD8Async,
   cuMemsetD16Async |-> handle_cuMemsetD16Async, cuMemsetD32Async |-> handle_cuMemsetD32Async,
   cuMemsetD2D8Async |-> handle_cuMemsetD2D8Async, cuMemsetD2D16Async |-> handle_cuMemsetD2D16Async,
   cuMemsetD2D32Async |-> handle_cuMemsetD2D32Async, cuArrayCreate_v2 |-> handle_cuArrayCreate_v2,
   cuArrayGetDescriptor_v2 |-> handle_cuArrayGetDescriptor_v2,
   cuArrayGetSparseProperties |-> handle_cuArrayGetSparseProperties,
   cuMipmappedArrayGetSparseProperties |-> handle_cuMipmappedArrayGetSparseProperties,
   cuArrayGetMemoryRequirements |-> handle_cuArrayGetMemoryRequirements,
   cuMipmappedArrayGetMemoryRequirements |-> handle_cuMipmappedArrayGetMemoryRequirements,
   cuArrayGetPlane |-> handle_cuArrayGetPlane, cuArrayDestroy |-> handle_cuArrayDestroy,
   cuArray3DCreate_v2 |-> handle_cuArray3DCreate_v2,
   cuArray3DGetDescriptor_v2 |-> handle_cuArray3DGetDescriptor_v2,
   cuMipmappedArrayCreate |-> handle_cuMipmappedArrayCreate,
   cuMipmappedArrayGetLevel |-> handle_cuMipmappedArrayGetLevel,
   cuMipmappedArrayDestroy |-> handle_cuMipmappedArrayDestroy,
   cuMemGetHandleForAddressRange |-> handle_cuMemGetHandleForAddressRange,
   cuMemAddressReserve |-> handle_cuMemAddressReserve, cuMemAddressFree |-> handle_cuMemAddressFree,
   cuMemCreate |-> handle_cuMemCreate, cuMemRelease |-> handle_cuMemRelease,
   cuMemMap |-> handle_cuMemMap, cuMemMapArrayAsync |-> handle_cuMemMapArrayAsync,
   cuMemUnmap |-> handle_cuMemUnmap, cuMemSetAccess |-> handle_cuMemSetAccess,
   cuMemGetAccess |-> handle_cuMemGetAccess,
   cuMemGetAllocationGranularity |-> handle_cuMemGetAllocationGranularity,
   cuMemGetAllocationPropertiesFromHandle |-> handle_cuMemGetAllocationPropertiesFromHandle,
   cuMemRetainAllocationHandle |-> handle_cuMemRetainAllocationHandle,
   cuMemFreeAsync |-> handle_cuMemFreeAsync, cuMemAllocAsync |-> handle_cuMemAllocAsync,
   cuMemPoolTrimTo |-> handle_cuMemPoolTrimTo, cuMemPoolSetAccess |-> handle_cuMemPoolSetAccess,
   cuMemPoolGetAccess |-> handle_cuMemPoolGetAccess, cuMemPoolCreate |-> handle_cuMemPoolCreate,
   cuMemPoolDestroy |-> handle_cuMemPoolDestroy,
   cuMemAllocFromPoolAsync |-> handle_cuMemAllocFromPoolAsync,
   cuMemPoolExportPointer |-> handle_cuMemPoolExportPointer,
   cuMemPoolImportPointer |-> handle_cuMemPoolImportPointer,
   cuMemRangeGetAttribute |-> handle_cuMemRangeGetAttribute,
   cuStreamGetPriority |-> handle_cuStreamGetPriority, cuStreamGetFlags |-> handle_cuStreamGetFlags,
   cuStreamGetId |-> handle_cuStreamGetId, cuStreamGetCtx |-> handle_cuStreamGetCtx,
   cuStreamAttachMemAsync |-> handle_cuStreamAttachMemAsync, cuStreamQuery |-> handle_cuStreamQuery,
   cuStreamSynchronize |-> handle_cuStreamSynchronize,
   cuStreamDestroy_v2 |-> handle_cuStreamDestroy_v2,
   cuStreamCopyAttributes |-> handle_cuStreamCopyAttributes,
   cuStreamGetAttribute |-> handle_cuStreamGetAttribute,
   cuStreamSetAttribute |-> handle_cuStreamSetAttribute,
   cuEventSynchronize |-> handle_cuEventSynchronize,
   cuEventElapsedTime_v2 |-> handle_cuEventElapsedTime_v2,
   cuImportExternalMemory |-> handle_cuImportExternalMemory,
   cuExternalMemoryGetMappedBuffer |-> handle_cuExternalMemoryGetMappedBuffer,
   cuExternalMemoryGetMappedMipmappedArray |-> handle_cuExternalMemoryGetMappedMipmappedArray,
   cuDestroyExternalMemory |-> handle_cuDestroyExternalMemory,
   cuImportExternalSemaphore |-> handle_cuImportExternalSemaphore,
   cuSignalExternalSemaphoresAsync |-> handle_cuSignalExternalSemaphoresAsync,
   cuWaitExternalSemaphoresAsync |-> handle_cuWaitExternalSemaphoresAsync,
   cuDestroyExternalSemaphore |-> handle_cuDestroyExternalSemaphore,
   cuStreamWaitValue32_v2 |-> handle_cuStreamWaitValue32_v2,
   cuStreamWaitValue64_v2 |-> handle_cuStreamWaitValue64_v2,
   cuStreamWriteValue32_v2 |-> handle_cuStreamWriteValue32_v2,
   cuStreamWriteValue64_v2 |-> handle_cuStreamWriteValue64_v2,
   cuStreamBatchMemOp_v2 |-> handle_cuStreamBatchMemOp_v2,
   cuFuncGetAttribute |-> handle_cuFuncGetAttribute,
   cuFuncSetAttribute |-> handle_cuFuncSetAttribute,
   cuFuncSetCacheConfig |-> handle_cuFuncSetCacheConfig, cuFuncGetModule |-> handle_cuFuncGetModule,
   cuFuncGetName |-> handle_cuFuncGetName, cuFuncSetBlockShape |-> handle_cuFuncSetBlockShape,
   cuFuncSetSharedSize |-> handle_cuFuncSetSharedSize, cuParamSetSize |-> handle_cuParamSetSize,
   cuParamSeti |-> handle_cuParamSeti, cuParamSetf |-> handle_cuParamSetf,
   cuParamSetv |-> handle_cuParamSetv, cuLaunch |-> handle_cuLaunch,
   cuLaunchGrid |-> handle_cuLaunchGrid, cuLaunchGridAsync |-> handle_cuLaunchGridAsync,
   cuParamSetTexRef |-> handle_cuParamSetTexRef,
   cuFuncSetSharedMemConfig |-> handle_cuFuncSetSharedMemConfig,
   cuGraphCreate |-> handle_cuGraphCreate,
   cuGraphMemcpyNodeGetParams |-> handle_cuGraphMemcpyNodeGetParams,
   cuGraphMemcpyNodeSetParams |-> handle_cuGraphMemcpyNodeSetParams,
   cuGraphMemsetNodeGetParams |-> handle_cuGraphMemsetNodeGetParams,
   cuGraphMemsetNodeSetParams |-> handle_cuGraphMemsetNodeSetParams,
   cuGraphAddChildGraphNode |-> handle_cuGraphAddChildGraphNode,
   cuGraphChildGraphNodeGetGraph |-> handle_cuGraphChildGraphNodeGetGraph,
   cuGraphAddEmptyNode |-> handle_cuGraphAddEmptyNode,
   cuGraphAddEventRecordNode |-> handle_cuGraphAddEventRecordNode,
   cuGraphEventRecordNodeGetEvent |-> handle_cuGraphEventRecordNodeGetEvent,
   cuGraphEventRecordNodeSetEvent |-> handle_cuGraphEventRecordNodeSetEvent,
   cuGraphAddEventWaitNode |-> handle_cuGraphAddEventWaitNode,
   cuGraphEventWaitNodeGetEvent |-> handle_cuGraphEventWaitNodeGetEvent,
   cuGraphEventWaitNodeSetEvent |-> handle_cuGraphEventWaitNodeSetEvent,
   cuGraphAddExternalSemaphoresSignalNode |-> handle_cuGraphAddExternalSemaphoresSignalNode,
   cuGraphExternalSemaphoresSignalNodeGetParams |-> handle_cuGraphExternalSemaphoresSignalNodeGetParams,
   cuGraphExternalSemaphoresSignalNodeSetParams |-> handle_cuGraphExternalSemaphoresSignalNodeSetParams,
   cuGraphAddExternalSemaphoresWaitNode |-> handle_cuGraphAddExternalSemaphoresWaitNode,
   cuGraphExternalSemaphoresWaitNodeGetParams |-> handle_cuGraphExternalSemaphoresWaitNodeGetParams,
   cuGraphExternalSemaphoresWaitNodeSetParams |-> handle_cuGraphExternalSemaphoresWaitNodeSetParams,
   cuGraphAddBatchMemOpNode |-> handle_cuGraphAddBatchMemOpNode,
   cuGraphBatchMemOpNodeGetParams |-> handle_cuGraphBatchMemOpNodeGetParams,
   cuGraphBatchMemOpNodeSetParams |-> handle_cuGraphBatchMemOpNodeSetParams,
   cuGraphExecBatchMemOpNodeSetParams |-> handle_cuGraphExecBatchMemOpNodeSetParams,
   cuGraphAddMemAllocNode |-> handle_cuGraphAddMemAllocNode,
   cuGraphMemAllocNodeGetParams |-> handle_cuGraphMemAllocNodeGetParams,
   cuGraphAddMemFreeNode |-> handle_cuGraphAddMemFreeNode,
   cuGraphMemFreeNodeGetParams |-> handle_cuGraphMemFreeNodeGetParams,
   cuDeviceGraphMemTrim |-> handle_cuDeviceGraphMemTrim,
   cuGraphNodeFindInClone |-> handle_cuGraphNodeFindInClone,
   cuGraphNodeGetType |-> handle_cuGraphNodeGetType,
   cuGraphNodeGetContainingGraph |-> handle_cuGraphNodeGetContainingGraph,
   cuGraphNodeGetLocalId |-> handle_cuGraphNodeGetLocalId,
   cuGraphNodeGetToolsId |-> handle_cuGraphNodeGetToolsId, cuGraphGetId |-> handle_cuGraphGetId,
   cuGraphExecGetId |-> handle_cuGraphExecGetId, cuGraphGetNodes |-> handle_cuGraphGetNodes,
   cuGraphGetRootNodes |-> handle_cuGraphGetRootNodes,
   cuGraphGetEdges_v2 |-> handle_cuGraphGetEdges_v2,
   cuGraphNodeGetDependencies_v2 |-> handle_cuGraphNodeGetDependencies_v2,
   cuGraphNodeGetDependentNodes_v2 |-> handle_cuGraphNodeGetDependentNodes_v2,
   cuGraphDestroyNode |-> handle_cuGraphDestroyNode,
   cuGraphExecGetFlags |-> handle_cuGraphExecGetFlags,
   cuGraphExecMemcpyNodeSetParams |-> handle_cuGraphExecMemcpyNodeSetParams,
   cuGraphExecMemsetNodeSetParams |-> handle_cuGraphExecMemsetNodeSetParams,
   cuGraphExecChildGraphNodeSetParams |-> handle_cuGraphExecChildGraphNodeSetParams,
   cuGraphExecEventRecordNodeSetEvent |-> handle_cuGraphExecEventRecordNodeSetEvent,
   cuGraphExecEventWaitNodeSetEvent |-> handle_cuGraphExecEventWaitNodeSetEvent,
   cuGraphExecExternalSemaphoresSignalNodeSetParams |-> handle_cuGraphExecExternalSemaphoresSignalNodeSetParams,
   cuGraphExecExternalSemaphoresWaitNodeSetParams |-> handle_cuGraphExecExternalSemaphoresWaitNodeSetParams,
   cuGraphNodeSetEnabled |-> handle_cuGraphNodeSetEnabled,
   cuGraphNodeGetEnabled |-> handle_cuGraphNodeGetEnabled, cuGraphUpload |-> handle_cuGraphUpload,
   cuGraphExecUpdate_v2 |-> handle_cuGraphExecUpdate_v2,
   cuGraphKernelNodeCopyAttributes |-> handle_cuGraphKernelNodeCopyAttributes,
   cuGraphKernelNodeGetAttribute |-> handle_cuGraphKernelNodeGetAttribute,
   cuGraphKernelNodeSetAttribute |-> handle_cuGraphKernelNodeSetAttribute,
   cuGraphDebugDotPrint |-> handle_cuGraphDebugDotPrint,
   cuUserObjectRetain |-> handle_cuUserObjectRetain,
   cuUserObjectRelease |-> handle_cuUserObjectRelease,
   cuGraphRetainUserObject |-> handle_cuGraphRetainUserObject,
   cuGraphReleaseUserObject |-> handle_cuGraphReleaseUserObject,
   cuGraphNodeSetParams |-> handle_cuGraphNodeSetParams,
   cuGraphExecNodeSetParams |-> handle_cuGraphExecNodeSetParams,
   cuOccupancyAvailableDynamicSMemPerBlock |-> handle_cuOccupancyAvailableDynamicSMemPerBlock,
   cuOccupancyMaxPotentialClusterSize |-> handle_cuOccupancyMaxPotentialClusterSize,
   cuOccupancyMaxActiveClusters |-> handle_cuOccupancyMaxActiveClusters,
   cuTexRefSetArray |-> handle_cuTexRefSetArray,
   cuTexRefSetMipmappedArray |-> handle_cuTexRefSetMipmappedArray,
   cuTexRefSetAddress_v2 |-> handle_cuTexRefSetAddress_v2,
   cuTexRefSetAddress2D_v3 |-> handle_cuTexRefSetAddress2D_v3,
   cuTexRefSetFormat |-> handle_cuTexRefSetFormat,
   cuTexRefSetAddressMode |-> handle_cuTexRefSetAddressMode,
   cuTexRefSetFilterMode |-> handle_cuTexRefSetFilterMode,
   cuTexRefSetMipmapFilterMode |-> handle_cuTexRefSetMipmapFilterMode,
   cuTexRefSetMipmapLevelBias |-> handle_cuTexRefSetMipmapLevelBias,
   cuTexRefSetMipmapLevelClamp |-> handle_cuTexRefSetMipmapLevelClamp,
   cuTexRefSetMaxAnisotropy |-> handle_cuTexRefSetMaxAnisotropy,
   cuTexRefSetBorderColor |-> handle_cuTexRefSetBorderColor,
   cuTexRefSetFlags |-> handle_cuTexRefSetFlags,
   cuTexRefGetAddress_v2 |-> handle_cuTexRefGetAddress_v2,
   cuTexRefGetArray |-> handle_cuTexRefGetArray,
   cuTexRefGetMipmappedArray |-> handle_cuTexRefGetMipmappedArray,
   cuTexRefGetAddressMode |-> handle_cuTexRefGetAddressMode,
   cuTexRefGetFilterMode |-> handle_cuTexRefGetFilterMode,
   cuTexRefGetFormat |-> handle_cuTexRefGetFormat,
   cuTexRefGetMipmapFilterMode |-> handle_cuTexRefGetMipmapFilterMode,
   cuTexRefGetMipmapLevelBias |-> handle_cuTexRefGetMipmapLevelBias,
   cuTexRefGetMipmapLevelClamp |-> handle_cuTexRefGetMipmapLevelClamp,
   cuTexRefGetMaxAnisotropy |-> handle_cuTexRefGetMaxAnisotropy,
   cuTexRefGetBorderColor |-> handle_cuTexRefGetBorderColor,
   cuTexRefGetFlags |-> handle_cuTexRefGetFlags, cuTexRefCreate |-> handle_cuTexRefCreate,
   cuTexRefDestroy |-> handle_cuTexRefDestroy, cuSurfRefSetArray |-> handle_cuSurfRefSetArray,
   cuSurfRefGetArray |-> handle_cuSurfRefGetArray, cuTexObjectCreate |-> handle_cuTexObjectCreate,
   cuTexObjectDestroy |-> handle_cuTexObjectDestroy,
   cuTexObjectGetResourceDesc |-> handle_cuTexObjectGetResourceDesc,
   cuTexObjectGetTextureDesc |-> handle_cuTexObjectGetTextureDesc,
   cuTexObjectGetResourceViewDesc |-> handle_cuTexObjectGetResourceViewDesc,
   cuSurfObjectCreate |-> handle_cuSurfObjectCreate,
   cuSurfObjectDestroy |-> handle_cuSurfObjectDestroy,
   cuSurfObjectGetResourceDesc |-> handle_cuSurfObjectGetResourceDesc,
   cuTensorMapReplaceAddress |-> handle_cuTensorMapReplaceAddress,
   cuGraphicsUnregisterResource |-> handle_cuGraphicsUnregisterResource,
   cuGraphicsSubResourceGetMappedArray |-> handle_cuGraphicsSubResourceGetMappedArray,
   cuGraphicsResourceGetMappedMipmappedArray |-> handle_cuGraphicsResourceGetMappedMipmappedArray,
   cuGraphicsResourceGetMappedPointer_v2 |-> handle_cuGraphicsResourceGetMappedPointer_v2,
   cuGraphicsResourceSetMapFlags_v2 |-> handle_cuGraphicsResourceSetMapFlags_v2,
   cuGraphicsMapResources |-> handle_cuGraphicsMapResources,
   cuGraphicsUnmapResources |-> handle_cuGraphicsUnmapResources,
   cuCoredumpGetAttributeGlobal |-> handle_cuCoredumpGetAttributeGlobal,
   cuCoredumpSetAttributeGlobal |-> handle_cuCoredumpSetAttributeGlobal,
   cuGreenCtxCreate |-> handle_cuGreenCtxCreate, cuGreenCtxDestroy |-> handle_cuGreenCtxDestroy,
   cuCtxFromGreenCtx |-> handle_cuCtxFromGreenCtx,
   cuDeviceGetDevResource |-> handle_cuDeviceGetDevResource,
   cuCtxGetDevResource |-> handle_cuCtxGetDevResource,
   cuGreenCtxGetDevResource |-> handle_cuGreenCtxGetDevResource,
   cuDevSmResourceSplitByCount |-> handle_cuDevSmResourceSplitByCount,
   cuDevSmResourceSplit |-> handle_cuDevSmResourceSplit,
   cuDevResourceGenerateDesc |-> handle_cuDevResourceGenerateDesc,
   cuGreenCtxRecordEvent |-> handle_cuGreenCtxRecordEvent,
   cuGreenCtxWaitEvent |-> handle_cuGreenCtxWaitEvent,
   cuStreamGetGreenCtx |-> handle_cuStreamGetGreenCtx,
   cuGreenCtxStreamCreate |-> handle_cuGreenCtxStreamCreate,
   cuGreenCtxGetId |-> handle_cuGreenCtxGetId,
   cuStreamGetDevResource |-> handle_cuStreamGetDevResource, cuLogsCurrent |-> handle_cuLogsCurrent,
   cuLogsDumpToFile |-> handle_cuLogsDumpToFile, cuLogsDumpToMemory |-> handle_cuLogsDumpToMemory,
   cuGraphExecUpdate |-> handle_cuGraphExecUpdate]
=============================================================================
