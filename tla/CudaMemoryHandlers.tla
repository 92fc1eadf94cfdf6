------------------------- MODULE CudaMemoryHandlers -------------------------
(*****************************************************************************)
(* The CUDA handlers of the server for memory, arrays, textures and shared   *)
(* memory, of codegen/gen_cuda_server.cpp.                                   *)
(*****************************************************************************)
EXTENDS RpcFields

handle_cuMemGetInfo_v2 ==
  Reply(<<F("free", "size_t"), F("total", "size_t")>>,
    <<F("free", "size_t"), F("total", "size_t"), F("return_value", "CUresult")>>)

handle_cuMemAlloc_v2 ==
  Reply(<<F("dptr", "CUdeviceptr"), F("bytesize", "size_t")>>,
    <<F("dptr", "CUdeviceptr"), F("return_value", "CUresult")>>)

handle_cuMemAllocPitch_v2 ==
  Reply(<<F("dptr", "CUdeviceptr"), F("pPitch", "size_t"), F("WidthInBytes", "size_t"),
      F("Height", "size_t"), F("ElementSizeBytes", "unsigned int")>>,
    <<F("dptr", "CUdeviceptr"), F("pPitch", "size_t"), F("return_value", "CUresult")>>)

handle_cuMemGetAddressRange_v2 ==
  Reply(<<F("pbase_present", "uint8_t"), FIf("pbase_present", "pbase", "CUdeviceptr"),
      F("psize_present", "uint8_t"), FIf("psize_present", "psize", "size_t"),
      F("dptr", "CUdeviceptr")>>,
    <<FIf("pbase_present", "pbase", "CUdeviceptr"), FIf("psize_present", "psize", "size_t"),
        F("return_value", "CUresult")>>)

handle_cuIpcGetEventHandle ==
  Reply(<<F("pHandle", "CUipcEventHandle"), F("event", "CUevent")>>,
    <<F("pHandle", "CUipcEventHandle"), F("return_value", "CUresult")>>)

handle_cuIpcOpenEventHandle ==
  Reply(<<F("phEvent", "CUevent"), F("handle", "CUipcEventHandle")>>,
    <<F("phEvent", "CUevent"), F("return_value", "CUresult")>>)

handle_cuIpcGetMemHandle ==
  Reply(<<F("pHandle", "CUipcMemHandle"), F("dptr", "CUdeviceptr")>>,
    <<F("pHandle", "CUipcMemHandle"), F("return_value", "CUresult")>>)

handle_cuIpcOpenMemHandle_v2 ==
  Reply(<<F("pdptr", "CUdeviceptr"), F("handle", "CUipcMemHandle"), F("Flags", "unsigned int")>>,
    <<F("pdptr", "CUdeviceptr"), F("return_value", "CUresult")>>)

handle_cuIpcCloseMemHandle ==
  Reply(<<F("dptr", "CUdeviceptr")>>, <<F("return_value", "CUresult")>>)

handle_cuMemcpyPeer ==
  Reply(<<F("dstDevice", "CUdeviceptr"), F("dstContext", "CUcontext"),
      F("srcDevice", "CUdeviceptr"), F("srcContext", "CUcontext"), F("ByteCount", "size_t")>>,
    <<F("return_value", "CUresult")>>)

handle_cuMemcpyDtoD_v2 ==
  Reply(<<F("dstDevice", "CUdeviceptr"), F("srcDevice", "CUdeviceptr"), F("ByteCount", "size_t")>>,
    <<F("return_value", "CUresult")>>)

handle_cuMemcpyDtoA_v2 ==
  Reply(<<F("dstArray", "CUarray"), F("dstOffset", "size_t"), F("srcDevice", "CUdeviceptr"),
      F("ByteCount", "size_t")>>,
    <<F("return_value", "CUresult")>>)

handle_cuMemcpyAtoD_v2 ==
  Reply(<<F("dstDevice", "CUdeviceptr"), F("srcArray", "CUarray"), F("srcOffset", "size_t"),
      F("ByteCount", "size_t")>>,
    <<F("return_value", "CUresult")>>)

handle_cuMemcpyAtoA_v2 ==
  Reply(<<F("dstArray", "CUarray"), F("dstOffset", "size_t"), F("srcArray", "CUarray"),
      F("srcOffset", "size_t"), F("ByteCount", "size_t")>>,
    <<F("return_value", "CUresult")>>)

handle_cuMemcpyPeerAsync ==
  Reply(<<F("dstDevice", "CUdeviceptr"), F("dstContext", "CUcontext"),
      F("srcDevice", "CUdeviceptr"), F("srcContext", "CUcontext"), F("ByteCount", "size_t"),
      F("hStream", "CUstream")>>,
    <<F("return_value", "CUresult")>>)

handle_cuMemcpyDtoDAsync_v2 ==
  Run(<<F("async_sequence", "uint64_t"), F("dstDevice", "CUdeviceptr"),
      F("srcDevice", "CUdeviceptr"), F("ByteCount", "size_t"), F("hStream", "CUstream")>>)

handle_cuMemsetD8_v2 ==
  Reply(<<F("dstDevice", "CUdeviceptr"), F("uc", "unsigned char"), F("N", "size_t")>>,
    <<F("return_value", "CUresult")>>)

handle_cuMemsetD16_v2 ==
  Reply(<<F("dstDevice", "CUdeviceptr"), F("us", "unsigned short"), F("N", "size_t")>>,
    <<F("return_value", "CUresult")>>)

handle_cuMemsetD32_v2 ==
  Reply(<<F("dstDevice", "CUdeviceptr"), F("ui", "unsigned int"), F("N", "size_t")>>,
    <<F("return_value", "CUresult")>>)

handle_cuMemsetD2D8_v2 ==
  Reply(<<F("dstDevice", "CUdeviceptr"), F("dstPitch", "size_t"), F("uc", "unsigned char"),
      F("Width", "size_t"), F("Height", "size_t")>>,
    <<F("return_value", "CUresult")>>)

handle_cuMemsetD2D16_v2 ==
  Reply(<<F("dstDevice", "CUdeviceptr"), F("dstPitch", "size_t"), F("us", "unsigned short"),
      F("Width", "size_t"), F("Height", "size_t")>>,
    <<F("return_value", "CUresult")>>)

handle_cuMemsetD2D32_v2 ==
  Reply(<<F("dstDevice", "CUdeviceptr"), F("dstPitch", "size_t"), F("ui", "unsigned int"),
      F("Width", "size_t"), F("Height", "size_t")>>,
    <<F("return_value", "CUresult")>>)

\* Mutant: the handler of a posted request answers.
handle_cuMemsetD8AsyncReplies ==
  Reply(<<F("async_sequence", "uint64_t"), F("dstDevice", "CUdeviceptr"), F("uc", "unsigned char"),
      F("N", "size_t"), F("hStream", "CUstream")>>, <<F("return_value", "CUresult")>>)

handle_cuMemsetD8Async ==
  Run(<<F("async_sequence", "uint64_t"), F("dstDevice", "CUdeviceptr"), F("uc", "unsigned char"),
      F("N", "size_t"), F("hStream", "CUstream")>>)

handle_cuMemsetD16Async ==
  Run(<<F("async_sequence", "uint64_t"), F("dstDevice", "CUdeviceptr"), F("us", "unsigned short"),
      F("N", "size_t"), F("hStream", "CUstream")>>)

handle_cuMemsetD32Async ==
  Run(<<F("async_sequence", "uint64_t"), F("dstDevice", "CUdeviceptr"), F("ui", "unsigned int"),
      F("N", "size_t"), F("hStream", "CUstream")>>)

handle_cuMemsetD2D8Async ==
  Run(<<F("async_sequence", "uint64_t"), F("dstDevice", "CUdeviceptr"), F("dstPitch", "size_t"),
      F("uc", "unsigned char"), F("Width", "size_t"), F("Height", "size_t"),
      F("hStream", "CUstream")>>)

handle_cuMemsetD2D16Async ==
  Run(<<F("async_sequence", "uint64_t"), F("dstDevice", "CUdeviceptr"), F("dstPitch", "size_t"),
      F("us", "unsigned short"), F("Width", "size_t"), F("Height", "size_t"),
      F("hStream", "CUstream")>>)

handle_cuMemsetD2D32Async ==
  Run(<<F("async_sequence", "uint64_t"), F("dstDevice", "CUdeviceptr"), F("dstPitch", "size_t"),
      F("ui", "unsigned int"), F("Width", "size_t"), F("Height", "size_t"),
      F("hStream", "CUstream")>>)

handle_cuArrayCreate_v2 ==
  Reply(<<F("pHandle", "CUarray"), F("pAllocateArray", "CUDA_ARRAY_DESCRIPTOR")>>,
    <<F("pHandle", "CUarray"), F("return_value", "CUresult")>>)

handle_cuArrayGetDescriptor_v2 ==
  Reply(<<F("pArrayDescriptor", "CUDA_ARRAY_DESCRIPTOR"), F("hArray", "CUarray")>>,
    <<F("pArrayDescriptor", "CUDA_ARRAY_DESCRIPTOR"), F("return_value", "CUresult")>>)

handle_cuArrayGetSparseProperties ==
  Reply(<<F("sparseProperties", "CUDA_ARRAY_SPARSE_PROPERTIES"), F("array", "CUarray")>>,
    <<F("sparseProperties", "CUDA_ARRAY_SPARSE_PROPERTIES"), F("return_value", "CUresult")>>)

handle_cuMipmappedArrayGetSparseProperties ==
  Reply(<<F("sparseProperties", "CUDA_ARRAY_SPARSE_PROPERTIES"), F("mipmap", "CUmipmappedArray")>>,
    <<F("sparseProperties", "CUDA_ARRAY_SPARSE_PROPERTIES"), F("return_value", "CUresult")>>)

handle_cuArrayGetMemoryRequirements ==
  Reply(<<F("memoryRequirements", "CUDA_ARRAY_MEMORY_REQUIREMENTS"), F("array", "CUarray"),
      F("device", "CUdevice")>>,
    <<F("memoryRequirements", "CUDA_ARRAY_MEMORY_REQUIREMENTS"), F("return_value", "CUresult")>>)

handle_cuMipmappedArrayGetMemoryRequirements ==
  Reply(<<F("memoryRequirements", "CUDA_ARRAY_MEMORY_REQUIREMENTS"),
      F("mipmap", "CUmipmappedArray"), F("device", "CUdevice")>>,
    <<F("memoryRequirements", "CUDA_ARRAY_MEMORY_REQUIREMENTS"), F("return_value", "CUresult")>>)

handle_cuArrayGetPlane ==
  Reply(<<F("pPlaneArray", "CUarray"), F("hArray", "CUarray"), F("planeIdx", "unsigned int")>>,
    <<F("pPlaneArray", "CUarray"), F("return_value", "CUresult")>>)

handle_cuArrayDestroy ==
  Reply(<<F("hArray", "CUarray")>>, <<F("return_value", "CUresult")>>)

handle_cuArray3DCreate_v2 ==
  Reply(<<F("pHandle", "CUarray"), F("pAllocateArray", "CUDA_ARRAY3D_DESCRIPTOR")>>,
    <<F("pHandle", "CUarray"), F("return_value", "CUresult")>>)

handle_cuArray3DGetDescriptor_v2 ==
  Reply(<<F("pArrayDescriptor", "CUDA_ARRAY3D_DESCRIPTOR"), F("hArray", "CUarray")>>,
    <<F("pArrayDescriptor", "CUDA_ARRAY3D_DESCRIPTOR"), F("return_value", "CUresult")>>)

handle_cuMipmappedArrayCreate ==
  Reply(<<F("pHandle", "CUmipmappedArray"), F("pMipmappedArrayDesc", "CUDA_ARRAY3D_DESCRIPTOR"),
      F("numMipmapLevels", "unsigned int")>>,
    <<F("pHandle", "CUmipmappedArray"), F("return_value", "CUresult")>>)

handle_cuMipmappedArrayGetLevel ==
  Reply(<<F("pLevelArray", "CUarray"), F("hMipmappedArray", "CUmipmappedArray"),
      F("level", "unsigned int")>>,
    <<F("pLevelArray", "CUarray"), F("return_value", "CUresult")>>)

handle_cuMipmappedArrayDestroy ==
  Reply(<<F("hMipmappedArray", "CUmipmappedArray")>>, <<F("return_value", "CUresult")>>)

handle_cuMemGetHandleForAddressRange ==
  Reply(<<F("dptr", "CUdeviceptr"), F("size", "size_t"), F("handleType", "CUmemRangeHandleType"),
      F("flags", "unsigned long long"), Alloc("handle")>>,
    <<F("handle", "byte[4]"), F("return_value", "CUresult")>>)

handle_cuMemAddressReserve ==
  Reply(<<F("ptr", "CUdeviceptr"), F("size", "size_t"), F("alignment", "size_t"),
      F("addr", "CUdeviceptr"), F("flags", "unsigned long long")>>,
    <<F("ptr", "CUdeviceptr"), F("return_value", "CUresult")>>)

handle_cuMemAddressFree ==
  Reply(<<F("ptr", "CUdeviceptr"), F("size", "size_t")>>, <<F("return_value", "CUresult")>>)

handle_cuMemCreate ==
  Reply(<<F("size", "size_t"), F("prop", "CUmemAllocationProp"), F("flags", "unsigned long long")>>,
    <<F("handle", "CUmemGenericAllocationHandle"), F("return_value", "CUresult")>>)

handle_cuMemRelease ==
  Reply(<<F("handle", "CUmemGenericAllocationHandle")>>, <<F("return_value", "CUresult")>>)

handle_cuMemMap ==
  Reply(<<F("ptr", "CUdeviceptr"), F("size", "size_t"), F("offset", "size_t"),
      F("handle", "CUmemGenericAllocationHandle"), F("flags", "unsigned long long")>>,
    <<F("return_value", "CUresult")>>)

handle_cuMemMapArrayAsync ==
  Reply(<<F("count", "unsigned int"), AllocArr("mapInfoList", {"count"}),
      Arr("mapInfoList", "CUarrayMapInfo", {"count"}), F("hStream", "CUstream")>>,
    <<F("return_value", "CUresult")>>)

handle_cuMemUnmap ==
  Reply(<<F("ptr", "CUdeviceptr"), F("size", "size_t")>>, <<F("return_value", "CUresult")>>)

handle_cuMemSetAccess ==
  Reply(<<F("ptr", "CUdeviceptr"), F("size", "size_t"), F("count", "size_t"),
      AllocArr("desc", {"count"}), Arr("desc", "CUmemAccessDesc", {"count"})>>,
    <<F("return_value", "CUresult")>>)

handle_cuMemGetAccess ==
  Reply(<<F("location", "CUmemLocation"), F("ptr", "CUdeviceptr")>>,
    <<F("flags", "unsigned long long"), F("return_value", "CUresult")>>)

handle_cuMemGetAllocationGranularity ==
  Reply(<<F("prop", "CUmemAllocationProp"), F("option", "CUmemAllocationGranularity_flags")>>,
    <<F("granularity", "size_t"), F("return_value", "CUresult")>>)

handle_cuMemGetAllocationPropertiesFromHandle ==
  Reply(<<F("prop", "CUmemAllocationProp"), F("handle", "CUmemGenericAllocationHandle")>>,
    <<F("prop", "CUmemAllocationProp"), F("return_value", "CUresult")>>)

handle_cuMemRetainAllocationHandle ==
  Reply(<<F("addr", "void*")>>,
    <<F("handle", "CUmemGenericAllocationHandle"), F("return_value", "CUresult")>>)

handle_cuMemFreeAsync ==
  Reply(<<F("dptr", "CUdeviceptr"), F("hStream", "CUstream")>>, <<F("return_value", "CUresult")>>)

handle_cuMemAllocAsync ==
  Reply(<<F("dptr", "CUdeviceptr"), F("bytesize", "size_t"), F("hStream", "CUstream")>>,
    <<F("dptr", "CUdeviceptr"), F("return_value", "CUresult")>>)

handle_cuMemPoolTrimTo ==
  Reply(<<F("pool", "CUmemoryPool"), F("minBytesToKeep", "size_t")>>,
    <<F("return_value", "CUresult")>>)

handle_cuMemPoolSetAccess ==
  Reply(<<F("pool", "CUmemoryPool"), F("count", "size_t"), AllocArr("map", {"count"}),
      Arr("map", "CUmemAccessDesc", {"count"})>>,
    <<F("return_value", "CUresult")>>)

handle_cuMemPoolGetAccess ==
  Reply(<<F("memPool", "CUmemoryPool"), F("location", "CUmemLocation")>>,
    <<F("flags", "CUmemAccess_flags"), F("return_value", "CUresult")>>)

handle_cuMemPoolCreate ==
  Reply(<<F("pool", "CUmemoryPool"), F("poolProps", "CUmemPoolProps")>>,
    <<F("pool", "CUmemoryPool"), F("return_value", "CUresult")>>)

handle_cuMemPoolDestroy ==
  Reply(<<F("pool", "CUmemoryPool")>>, <<F("return_value", "CUresult")>>)

handle_cuMemAllocFromPoolAsync ==
  Reply(<<F("dptr", "CUdeviceptr"), F("bytesize", "size_t"), F("pool", "CUmemoryPool"),
      F("hStream", "CUstream")>>,
    <<F("dptr", "CUdeviceptr"), F("return_value", "CUresult")>>)

handle_cuMemPoolExportPointer ==
  Reply(<<F("shareData_out", "CUmemPoolPtrExportData"), F("ptr", "CUdeviceptr")>>,
    <<F("shareData_out", "CUmemPoolPtrExportData"), F("return_value", "CUresult")>>)

handle_cuMemPoolImportPointer ==
  Reply(<<F("ptr_out", "CUdeviceptr"), F("pool", "CUmemoryPool"),
      F("shareData", "CUmemPoolPtrExportData")>>,
    <<F("ptr_out", "CUdeviceptr"), F("shareData", "CUmemPoolPtrExportData"),
        F("return_value", "CUresult")>>)

handle_cuMemRangeGetAttribute ==
  Reply(<<F("dataSize", "size_t"), AllocArr("data", {"dataSize"}),
      F("attribute", "CUmem_range_attribute"), F("devPtr", "CUdeviceptr"), F("count", "size_t")>>,
    <<Arr("data", "byte", {"dataSize"}), F("return_value", "CUresult")>>)

handle_cuImportExternalMemory ==
  Reply(<<F("extMem_out", "CUexternalMemory"),
      F("memHandleDesc", "CUDA_EXTERNAL_MEMORY_HANDLE_DESC")>>,
    <<F("extMem_out", "CUexternalMemory"), F("return_value", "CUresult")>>)

handle_cuExternalMemoryGetMappedBuffer ==
  Reply(<<F("devPtr", "CUdeviceptr"), F("extMem", "CUexternalMemory"),
      F("bufferDesc", "CUDA_EXTERNAL_MEMORY_BUFFER_DESC")>>,
    <<F("devPtr", "CUdeviceptr"), F("return_value", "CUresult")>>)

handle_cuExternalMemoryGetMappedMipmappedArray ==
  Reply(<<F("mipmap", "CUmipmappedArray"), F("extMem", "CUexternalMemory"),
      F("mipmapDesc", "CUDA_EXTERNAL_MEMORY_MIPMAPPED_ARRAY_DESC")>>,
    <<F("mipmap", "CUmipmappedArray"), F("return_value", "CUresult")>>)

handle_cuDestroyExternalMemory ==
  Reply(<<F("extMem", "CUexternalMemory")>>, <<F("return_value", "CUresult")>>)

handle_cuImportExternalSemaphore ==
  Reply(<<F("extSem_out", "CUexternalSemaphore"),
      F("semHandleDesc", "CUDA_EXTERNAL_SEMAPHORE_HANDLE_DESC")>>,
    <<F("extSem_out", "CUexternalSemaphore"), F("return_value", "CUresult")>>)

handle_cuDestroyExternalSemaphore ==
  Reply(<<F("extSem", "CUexternalSemaphore")>>, <<F("return_value", "CUresult")>>)

handle_cuTexRefSetArray ==
  Reply(<<F("hTexRef", "CUtexref"), F("hArray", "CUarray"), F("Flags", "unsigned int")>>,
    <<F("return_value", "CUresult")>>)

handle_cuTexRefSetMipmappedArray ==
  Reply(<<F("hTexRef", "CUtexref"), F("hMipmappedArray", "CUmipmappedArray"),
      F("Flags", "unsigned int")>>,
    <<F("return_value", "CUresult")>>)

handle_cuTexRefSetAddress_v2 ==
  Reply(<<F("ByteOffset", "size_t"), F("hTexRef", "CUtexref"), F("dptr", "CUdeviceptr"),
      F("bytes", "size_t")>>,
    <<F("ByteOffset", "size_t"), F("return_value", "CUresult")>>)

handle_cuTexRefSetAddress2D_v3 ==
  Reply(<<F("hTexRef", "CUtexref"), F("desc", "CUDA_ARRAY_DESCRIPTOR"), F("dptr", "CUdeviceptr"),
      F("Pitch", "size_t")>>,
    <<F("return_value", "CUresult")>>)

handle_cuTexRefSetFormat ==
  Reply(<<F("hTexRef", "CUtexref"), F("fmt", "CUarray_format"), F("NumPackedComponents", "int")>>,
    <<F("return_value", "CUresult")>>)

handle_cuTexRefSetAddressMode ==
  Reply(<<F("hTexRef", "CUtexref"), F("dim", "int"), F("am", "CUaddress_mode")>>,
    <<F("return_value", "CUresult")>>)

handle_cuTexRefSetFilterMode ==
  Reply(<<F("hTexRef", "CUtexref"), F("fm", "CUfilter_mode")>>, <<F("return_value", "CUresult")>>)

handle_cuTexRefSetMipmapFilterMode ==
  Reply(<<F("hTexRef", "CUtexref"), F("fm", "CUfilter_mode")>>, <<F("return_value", "CUresult")>>)

handle_cuTexRefSetMipmapLevelBias ==
  Reply(<<F("hTexRef", "CUtexref"), F("bias", "float")>>, <<F("return_value", "CUresult")>>)

handle_cuTexRefSetMipmapLevelClamp ==
  Reply(<<F("hTexRef", "CUtexref"), F("minMipmapLevelClamp", "float"),
      F("maxMipmapLevelClamp", "float")>>,
    <<F("return_value", "CUresult")>>)

handle_cuTexRefSetMaxAnisotropy ==
  Reply(<<F("hTexRef", "CUtexref"), F("maxAniso", "unsigned int")>>,
    <<F("return_value", "CUresult")>>)

handle_cuTexRefSetBorderColor ==
  Reply(<<F("hTexRef", "CUtexref"), Alloc("pBorderColor"), F("pBorderColor", "byte[16]")>>,
    <<F("return_value", "CUresult")>>)

handle_cuTexRefSetFlags ==
  Reply(<<F("hTexRef", "CUtexref"), F("Flags", "unsigned int")>>, <<F("return_value", "CUresult")>>)

handle_cuTexRefGetAddress_v2 ==
  Reply(<<F("pdptr", "CUdeviceptr"), F("hTexRef", "CUtexref")>>,
    <<F("pdptr", "CUdeviceptr"), F("return_value", "CUresult")>>)

handle_cuTexRefGetArray ==
  Reply(<<F("phArray", "CUarray"), F("hTexRef", "CUtexref")>>,
    <<F("phArray", "CUarray"), F("return_value", "CUresult")>>)

handle_cuTexRefGetMipmappedArray ==
  Reply(<<F("phMipmappedArray", "CUmipmappedArray"), F("hTexRef", "CUtexref")>>,
    <<F("phMipmappedArray", "CUmipmappedArray"), F("return_value", "CUresult")>>)

handle_cuTexRefGetAddressMode ==
  Reply(<<F("pam", "CUaddress_mode"), F("hTexRef", "CUtexref"), F("dim", "int")>>,
    <<F("pam", "CUaddress_mode"), F("return_value", "CUresult")>>)

handle_cuTexRefGetFilterMode ==
  Reply(<<F("pfm", "CUfilter_mode"), F("hTexRef", "CUtexref")>>,
    <<F("pfm", "CUfilter_mode"), F("return_value", "CUresult")>>)

handle_cuTexRefGetFormat ==
  Reply(<<F("pFormat", "CUarray_format"), F("pNumChannels", "int"), F("hTexRef", "CUtexref")>>,
    <<F("pFormat", "CUarray_format"), F("pNumChannels", "int"), F("return_value", "CUresult")>>)

handle_cuTexRefGetMipmapFilterMode ==
  Reply(<<F("pfm", "CUfilter_mode"), F("hTexRef", "CUtexref")>>,
    <<F("pfm", "CUfilter_mode"), F("return_value", "CUresult")>>)

handle_cuTexRefGetMipmapLevelBias ==
  Reply(<<F("pbias", "float"), F("hTexRef", "CUtexref")>>,
    <<F("pbias", "float"), F("return_value", "CUresult")>>)

handle_cuTexRefGetMipmapLevelClamp ==
  Reply(<<F("pminMipmapLevelClamp", "float"), F("pmaxMipmapLevelClamp", "float"),
      F("hTexRef", "CUtexref")>>,
    <<F("pminMipmapLevelClamp", "float"), F("pmaxMipmapLevelClamp", "float"),
        F("return_value", "CUresult")>>)

handle_cuTexRefGetMaxAnisotropy ==
  Reply(<<F("pmaxAniso", "int"), F("hTexRef", "CUtexref")>>,
    <<F("pmaxAniso", "int"), F("return_value", "CUresult")>>)

handle_cuTexRefGetBorderColor ==
  Reply(<<Alloc("pBorderColor"), F("hTexRef", "CUtexref")>>,
    <<F("pBorderColor", "byte[16]"), F("return_value", "CUresult")>>)

handle_cuTexRefGetFlags ==
  Reply(<<F("pFlags", "unsigned int"), F("hTexRef", "CUtexref")>>,
    <<F("pFlags", "unsigned int"), F("return_value", "CUresult")>>)

handle_cuTexRefCreate ==
  Reply(<<F("pTexRef", "CUtexref")>>, <<F("pTexRef", "CUtexref"), F("return_value", "CUresult")>>)

handle_cuTexRefDestroy ==
  Reply(<<F("hTexRef", "CUtexref")>>, <<F("return_value", "CUresult")>>)

handle_cuSurfRefSetArray ==
  Reply(<<F("hSurfRef", "CUsurfref"), F("hArray", "CUarray"), F("Flags", "unsigned int")>>,
    <<F("return_value", "CUresult")>>)

handle_cuSurfRefGetArray ==
  Reply(<<F("phArray", "CUarray"), F("hSurfRef", "CUsurfref")>>,
    <<F("phArray", "CUarray"), F("return_value", "CUresult")>>)

handle_cuTexObjectCreate ==
  Reply(<<F("pTexObject", "CUtexObject"), F("pResDesc", "CUDA_RESOURCE_DESC"),
      F("pTexDesc_present", "uint8_t"), FIf("pTexDesc_present", "pTexDesc", "CUDA_TEXTURE_DESC"),
      F("pResViewDesc_present", "uint8_t"),
      FIf("pResViewDesc_present", "pResViewDesc", "CUDA_RESOURCE_VIEW_DESC")>>,
    <<F("pTexObject", "CUtexObject"), F("return_value", "CUresult")>>)

handle_cuTexObjectDestroy ==
  Reply(<<F("texObject", "CUtexObject")>>, <<F("return_value", "CUresult")>>)

handle_cuTexObjectGetResourceDesc ==
  Reply(<<F("pResDesc", "CUDA_RESOURCE_DESC"), F("texObject", "CUtexObject")>>,
    <<F("pResDesc", "CUDA_RESOURCE_DESC"), F("return_value", "CUresult")>>)

handle_cuTexObjectGetTextureDesc ==
  Reply(<<F("pTexDesc", "CUDA_TEXTURE_DESC"), F("texObject", "CUtexObject")>>,
    <<F("pTexDesc", "CUDA_TEXTURE_DESC"), F("return_value", "CUresult")>>)

handle_cuTexObjectGetResourceViewDesc ==
  Reply(<<F("pResViewDesc", "CUDA_RESOURCE_VIEW_DESC"), F("texObject", "CUtexObject")>>,
    <<F("pResViewDesc", "CUDA_RESOURCE_VIEW_DESC"), F("return_value", "CUresult")>>)

handle_cuSurfObjectCreate ==
  Reply(<<F("pSurfObject", "CUsurfObject"), F("pResDesc", "CUDA_RESOURCE_DESC")>>,
    <<F("pSurfObject", "CUsurfObject"), F("return_value", "CUresult")>>)

handle_cuSurfObjectDestroy ==
  Reply(<<F("surfObject", "CUsurfObject")>>, <<F("return_value", "CUresult")>>)

handle_cuSurfObjectGetResourceDesc ==
  Reply(<<F("pResDesc", "CUDA_RESOURCE_DESC"), F("surfObject", "CUsurfObject")>>,
    <<F("pResDesc", "CUDA_RESOURCE_DESC"), F("return_value", "CUresult")>>)

handle_cuGraphicsUnregisterResource ==
  Reply(<<F("resource", "CUgraphicsResource")>>, <<F("return_value", "CUresult")>>)

handle_cuGraphicsSubResourceGetMappedArray ==
  Reply(<<F("pArray", "CUarray"), F("resource", "CUgraphicsResource"),
      F("arrayIndex", "unsigned int"), F("mipLevel", "unsigned int")>>,
    <<F("pArray", "CUarray"), F("return_value", "CUresult")>>)

handle_cuGraphicsResourceGetMappedMipmappedArray ==
  Reply(<<F("pMipmappedArray", "CUmipmappedArray"), F("resource", "CUgraphicsResource")>>,
    <<F("pMipmappedArray", "CUmipmappedArray"), F("return_value", "CUresult")>>)

handle_cuGraphicsResourceGetMappedPointer_v2 ==
  Reply(<<F("pDevPtr", "CUdeviceptr"), F("pSize", "size_t"), F("resource", "CUgraphicsResource")>>,
    <<F("pDevPtr", "CUdeviceptr"), F("pSize", "size_t"), F("return_value", "CUresult")>>)

handle_cuGraphicsResourceSetMapFlags_v2 ==
  Reply(<<F("resource", "CUgraphicsResource"), F("flags", "unsigned int")>>,
    <<F("return_value", "CUresult")>>)

handle_cuGraphicsMapResources ==
  Reply(<<F("count", "unsigned int"), AllocArr("resources", {"count"}),
      Arr("resources", "CUgraphicsResource", {"count"}), F("hStream", "CUstream")>>,
    <<F("return_value", "CUresult")>>)

handle_cuGraphicsUnmapResources ==
  Reply(<<F("count", "unsigned int"), AllocArr("resources", {"count"}),
      Arr("resources", "CUgraphicsResource", {"count"}), F("hStream", "CUstream")>>,
    <<F("return_value", "CUresult")>>)
=============================================================================
