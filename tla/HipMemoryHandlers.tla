------------------------- MODULE HipMemoryHandlers --------------------------
(*****************************************************************************)
(* The HIP handlers of the server for memory, arrays, textures and shared    *)
(* memory, of codegen/gen_hip_server.inc.                                    *)
(*****************************************************************************)
EXTENDS RpcFields

handle_hipIpcGetMemHandle ==
  Reply(<<F("devPtr", "void*")>>,
    <<F("handle", "hipIpcMemHandle_t"), F("return_value", "hipError_t")>>)

handle_hipIpcOpenMemHandle ==
  Reply(<<F("handle", "hipIpcMemHandle_t"), F("flags", "unsigned int")>>,
    <<F("devPtr", "void*"), F("return_value", "hipError_t")>>)

handle_hipIpcCloseMemHandle ==
  Reply(<<F("devPtr", "void*")>>, <<F("return_value", "hipError_t")>>)

handle_hipIpcGetEventHandle ==
  Reply(<<F("event", "hipEvent_t")>>,
    <<F("handle", "hipIpcEventHandle_t"), F("return_value", "hipError_t")>>)

handle_hipIpcOpenEventHandle ==
  Reply(<<F("handle", "hipIpcEventHandle_t")>>,
    <<F("event", "hipEvent_t"), F("return_value", "hipError_t")>>)

handle_hipPointerGetAttributes ==
  Reply(<<F("ptr", "void*")>>,
    <<F("attributes", "hipPointerAttribute_t"), F("return_value", "hipError_t")>>)

handle_hipMalloc ==
  Reply(<<F("size", "size_t")>>, <<F("ptr", "void*"), F("return_value", "hipError_t")>>)

handle_hipMallocManaged ==
  Reply(<<F("size", "size_t"), F("flags", "unsigned int")>>,
    <<F("dev_ptr", "void*"), F("return_value", "hipError_t")>>)

handle_hipMemPrefetchAsync ==
  Reply(<<F("dev_ptr", "void*"), F("count", "size_t"), F("device", "int"),
      F("stream", "hipStream_t")>>,
    <<F("return_value", "hipError_t")>>)

handle_hipMemPrefetchAsync_v2 ==
  Reply(<<F("dev_ptr", "void*"), F("count", "size_t"), F("location", "hipMemLocation"),
      F("flags", "unsigned int"), F("stream", "hipStream_t")>>,
    <<F("return_value", "hipError_t")>>)

handle_hipMemAdvise ==
  Reply(<<F("dev_ptr", "void*"), F("count", "size_t"), F("advice", "hipMemoryAdvise"),
      F("device", "int")>>,
    <<F("return_value", "hipError_t")>>)

handle_hipMemAdvise_v2 ==
  Reply(<<F("dev_ptr", "void*"), F("count", "size_t"), F("advice", "hipMemoryAdvise"),
      F("location", "hipMemLocation")>>,
    <<F("return_value", "hipError_t")>>)

handle_hipMemRangeGetAttribute ==
  Reply(<<F("data_size", "size_t"), AllocArr("data", {"data_size"}),
      F("attribute", "hipMemRangeAttribute"), F("dev_ptr", "void*"), F("count", "size_t")>>,
    <<Arr("data", "byte", {"data_size"}), F("return_value", "hipError_t")>>)

handle_hipMallocAsync ==
  Reply(<<F("size", "size_t"), F("stream", "hipStream_t")>>,
    <<F("dev_ptr", "void*"), F("return_value", "hipError_t")>>)

handle_hipFreeAsync ==
  Reply(<<F("dev_ptr", "void*"), F("stream", "hipStream_t")>>, <<F("return_value", "hipError_t")>>)

handle_hipMemPoolTrimTo ==
  Reply(<<F("mem_pool", "hipMemPool_t"), F("min_bytes_to_hold", "size_t")>>,
    <<F("return_value", "hipError_t")>>)

handle_hipMemPoolSetAccess ==
  Reply(<<F("mem_pool", "hipMemPool_t"), F("count", "size_t"), AllocArr("desc_list", {"count"}),
      Arr("desc_list", "hipMemAccessDesc", {"count"})>>,
    <<F("return_value", "hipError_t")>>)

handle_hipMemPoolGetAccess ==
  Reply(<<F("mem_pool", "hipMemPool_t"), F("location", "hipMemLocation")>>,
    <<F("flags", "hipMemAccessFlags"), F("return_value", "hipError_t")>>)

handle_hipMemPoolCreate ==
  Reply(<<F("pool_props", "hipMemPoolProps")>>,
    <<F("mem_pool", "hipMemPool_t"), F("return_value", "hipError_t")>>)

handle_hipMemPoolDestroy ==
  Reply(<<F("mem_pool", "hipMemPool_t")>>, <<F("return_value", "hipError_t")>>)

handle_hipMallocFromPoolAsync ==
  Reply(<<F("size", "size_t"), F("mem_pool", "hipMemPool_t"), F("stream", "hipStream_t")>>,
    <<F("dev_ptr", "void*"), F("return_value", "hipError_t")>>)

handle_hipMemPoolExportPointer ==
  Reply(<<F("dev_ptr", "void*")>>,
    <<F("export_data", "hipMemPoolPtrExportData"), F("return_value", "hipError_t")>>)

handle_hipMemPoolImportPointer ==
  Reply(<<F("mem_pool", "hipMemPool_t"), F("export_data", "hipMemPoolPtrExportData")>>,
    <<F("dev_ptr", "void*"), F("return_value", "hipError_t")>>)

handle_hipMallocPitch ==
  Reply(<<F("width", "size_t"), F("height", "size_t")>>,
    <<F("ptr", "void*"), F("pitch", "size_t"), F("return_value", "hipError_t")>>)

handle_hipMemAllocPitch ==
  Reply(<<F("widthInBytes", "size_t"), F("height", "size_t"),
      F("elementSizeBytes", "unsigned int")>>,
    <<F("dptr", "hipDeviceptr_t"), F("pitch", "size_t"), F("return_value", "hipError_t")>>)

handle_hipFree ==
  Reply(<<F("ptr", "void*")>>, <<F("return_value", "hipError_t")>>)

handle_hipMemcpyHtoD ==
  Reply(<<F("dst", "hipDeviceptr_t"), F("sizeBytes", "size_t"), AllocArr("src", {"sizeBytes"}),
      Arr("src", "byte", {"sizeBytes"})>>,
    <<F("return_value", "hipError_t")>>)

handle_hipMemcpyDtoH ==
  Reply(<<F("src", "hipDeviceptr_t"), F("sizeBytes", "size_t"), AllocArr("dst", {"sizeBytes"})>>,
    <<Arr("dst", "byte", {"sizeBytes"}), F("return_value", "hipError_t")>>)

handle_hipMemcpyDtoD ==
  Reply(<<F("dst", "hipDeviceptr_t"), F("src", "hipDeviceptr_t"), F("sizeBytes", "size_t")>>,
    <<F("return_value", "hipError_t")>>)

handle_hipMemcpyAtoD ==
  Reply(<<F("dstDevice", "hipDeviceptr_t"), F("srcArray", "hipArray_t"), F("srcOffset", "size_t"),
      F("ByteCount", "size_t")>>,
    <<F("return_value", "hipError_t")>>)

handle_hipMemcpyDtoA ==
  Reply(<<F("dstArray", "hipArray_t"), F("dstOffset", "size_t"), F("srcDevice", "hipDeviceptr_t"),
      F("ByteCount", "size_t")>>,
    <<F("return_value", "hipError_t")>>)

handle_hipMemcpyAtoA ==
  Reply(<<F("dstArray", "hipArray_t"), F("dstOffset", "size_t"), F("srcArray", "hipArray_t"),
      F("srcOffset", "size_t"), F("ByteCount", "size_t")>>,
    <<F("return_value", "hipError_t")>>)

handle_hipMemcpyDtoDAsync ==
  Reply(<<F("dst", "hipDeviceptr_t"), F("src", "hipDeviceptr_t"), F("sizeBytes", "size_t"),
      F("stream", "hipStream_t")>>,
    <<F("return_value", "hipError_t")>>)

handle_hipMemcpyAtoH ==
  Reply(<<F("srcArray", "hipArray_t"), F("srcOffset", "size_t"), F("count", "size_t"),
      AllocArr("dst", {"count"})>>,
    <<Arr("dst", "byte", {"count"}), F("return_value", "hipError_t")>>)

handle_hipMemcpyHtoA ==
  Reply(<<F("dstArray", "hipArray_t"), F("dstOffset", "size_t"), F("count", "size_t"),
      AllocArr("srcHost", {"count"}), Arr("srcHost", "byte", {"count"})>>,
    <<F("return_value", "hipError_t")>>)

handle_hipMemcpy2DArrayToArray ==
  Reply(<<F("dst", "hipArray_t"), F("wOffsetDst", "size_t"), F("hOffsetDst", "size_t"),
      F("src", "hipArray_const_t"), F("wOffsetSrc", "size_t"), F("hOffsetSrc", "size_t"),
      F("width", "size_t"), F("height", "size_t"), F("kind", "hipMemcpyKind")>>,
    <<F("return_value", "hipError_t")>>)

handle_hipMemcpyPeer ==
  Reply(<<F("dst", "void*"), F("dstDeviceId", "int"), F("src", "void*"), F("srcDeviceId", "int"),
      F("sizeBytes", "size_t")>>,
    <<F("return_value", "hipError_t")>>)

handle_hipMemcpyPeerAsync ==
  Reply(<<F("dst", "void*"), F("dstDeviceId", "int"), F("src", "void*"), F("srcDevice", "int"),
      F("sizeBytes", "size_t"), F("stream", "hipStream_t")>>,
    <<F("return_value", "hipError_t")>>)

handle_hipMemset ==
  Reply(<<F("dst", "void*"), F("value", "int"), F("sizeBytes", "size_t")>>,
    <<F("return_value", "hipError_t")>>)

handle_hipMemsetD8 ==
  Reply(<<F("dest", "hipDeviceptr_t"), F("value", "unsigned char"), F("count", "size_t")>>,
    <<F("return_value", "hipError_t")>>)

handle_hipMemsetD8Async ==
  Reply(<<F("dest", "hipDeviceptr_t"), F("value", "unsigned char"), F("count", "size_t"),
      F("stream", "hipStream_t")>>,
    <<F("return_value", "hipError_t")>>)

handle_hipMemsetD16 ==
  Reply(<<F("dest", "hipDeviceptr_t"), F("value", "unsigned short"), F("count", "size_t")>>,
    <<F("return_value", "hipError_t")>>)

handle_hipMemsetD16Async ==
  Reply(<<F("dest", "hipDeviceptr_t"), F("value", "unsigned short"), F("count", "size_t"),
      F("stream", "hipStream_t")>>,
    <<F("return_value", "hipError_t")>>)

handle_hipMemsetD32 ==
  Reply(<<F("dest", "hipDeviceptr_t"), F("value", "int"), F("count", "size_t")>>,
    <<F("return_value", "hipError_t")>>)

handle_hipMemsetAsync ==
  Reply(<<F("dst", "void*"), F("value", "int"), F("sizeBytes", "size_t"),
      F("stream", "hipStream_t")>>,
    <<F("return_value", "hipError_t")>>)

handle_hipMemsetD32Async ==
  Reply(<<F("dst", "hipDeviceptr_t"), F("value", "int"), F("count", "size_t"),
      F("stream", "hipStream_t")>>,
    <<F("return_value", "hipError_t")>>)

handle_hipMemset2D ==
  Reply(<<F("dst", "void*"), F("pitch", "size_t"), F("value", "int"), F("width", "size_t"),
      F("height", "size_t")>>,
    <<F("return_value", "hipError_t")>>)

handle_hipMemset2DAsync ==
  Reply(<<F("dst", "void*"), F("pitch", "size_t"), F("value", "int"), F("width", "size_t"),
      F("height", "size_t"), F("stream", "hipStream_t")>>,
    <<F("return_value", "hipError_t")>>)

handle_hipMemset3D ==
  Reply(<<F("pitchedDevPtr", "hipPitchedPtr"), F("value", "int"), F("extent", "hipExtent")>>,
    <<F("return_value", "hipError_t")>>)

handle_hipMemset3DAsync ==
  Reply(<<F("pitchedDevPtr", "hipPitchedPtr"), F("value", "int"), F("extent", "hipExtent"),
      F("stream", "hipStream_t")>>,
    <<F("return_value", "hipError_t")>>)

handle_hipMemsetD2D8 ==
  Reply(<<F("dst", "hipDeviceptr_t"), F("dstPitch", "size_t"), F("value", "unsigned char"),
      F("width", "size_t"), F("height", "size_t")>>,
    <<F("return_value", "hipError_t")>>)

handle_hipMemsetD2D8Async ==
  Reply(<<F("dst", "hipDeviceptr_t"), F("dstPitch", "size_t"), F("value", "unsigned char"),
      F("width", "size_t"), F("height", "size_t"), F("stream", "hipStream_t")>>,
    <<F("return_value", "hipError_t")>>)

handle_hipMemsetD2D16 ==
  Reply(<<F("dst", "hipDeviceptr_t"), F("dstPitch", "size_t"), F("value", "unsigned short"),
      F("width", "size_t"), F("height", "size_t")>>,
    <<F("return_value", "hipError_t")>>)

handle_hipMemsetD2D16Async ==
  Reply(<<F("dst", "hipDeviceptr_t"), F("dstPitch", "size_t"), F("value", "unsigned short"),
      F("width", "size_t"), F("height", "size_t"), F("stream", "hipStream_t")>>,
    <<F("return_value", "hipError_t")>>)

handle_hipMemsetD2D32 ==
  Reply(<<F("dst", "hipDeviceptr_t"), F("dstPitch", "size_t"), F("value", "unsigned int"),
      F("width", "size_t"), F("height", "size_t")>>,
    <<F("return_value", "hipError_t")>>)

handle_hipMemsetD2D32Async ==
  Reply(<<F("dst", "hipDeviceptr_t"), F("dstPitch", "size_t"), F("value", "unsigned int"),
      F("width", "size_t"), F("height", "size_t"), F("stream", "hipStream_t")>>,
    <<F("return_value", "hipError_t")>>)

handle_hipMemGetInfo ==
  Reply(<<>>, <<F("free", "size_t"), F("total", "size_t"), F("return_value", "hipError_t")>>)

handle_hipMemPtrGetInfo ==
  Reply(<<F("ptr", "void*")>>, <<F("size", "size_t"), F("return_value", "hipError_t")>>)

handle_hipMemGetAddressRange ==
  Reply(<<F("pbase_present", "uint8_t"), FIf("pbase_present", "pbase", "hipDeviceptr_t"),
      F("psize_present", "uint8_t"), FIf("psize_present", "psize", "size_t"),
      F("dptr", "hipDeviceptr_t")>>,
    <<FIf("pbase_present", "pbase", "hipDeviceptr_t"), FIf("psize_present", "psize", "size_t"),
        F("return_value", "hipError_t")>>)

handle_hipMallocArray ==
  Reply(<<F("desc", "hipChannelFormatDesc"), F("width", "size_t"), F("height", "size_t"),
      F("flags", "unsigned int")>>,
    <<F("array", "hipArray_t"), F("return_value", "hipError_t")>>)

handle_hipArrayCreate ==
  Reply(<<F("pAllocateArray", "HIP_ARRAY_DESCRIPTOR")>>,
    <<F("pHandle", "hipArray_t"), F("return_value", "hipError_t")>>)

handle_hipArrayDestroy ==
  Reply(<<F("array", "hipArray_t")>>, <<F("return_value", "hipError_t")>>)

handle_hipArray3DCreate ==
  Reply(<<F("pAllocateArray", "HIP_ARRAY3D_DESCRIPTOR")>>,
    <<F("array", "hipArray_t"), F("return_value", "hipError_t")>>)

handle_hipMalloc3D ==
  Reply(<<F("extent", "hipExtent")>>,
    <<F("pitchedDevPtr", "hipPitchedPtr"), F("return_value", "hipError_t")>>)

handle_hipFreeArray ==
  Reply(<<F("array", "hipArray_t")>>, <<F("return_value", "hipError_t")>>)

handle_hipMalloc3DArray ==
  Reply(<<F("desc", "struct hipChannelFormatDesc"), F("extent", "struct hipExtent"),
      F("flags", "unsigned int")>>,
    <<F("array", "hipArray_t"), F("return_value", "hipError_t")>>)

handle_hipArrayGetInfo ==
  Reply(<<F("desc_present", "uint8_t"), FIf("desc_present", "desc", "hipChannelFormatDesc"),
      F("extent_present", "uint8_t"), FIf("extent_present", "extent", "hipExtent"),
      F("flags_present", "uint8_t"), FIf("flags_present", "flags", "unsigned int"),
      F("array", "hipArray_t")>>,
    <<FIf("desc_present", "desc", "hipChannelFormatDesc"),
        FIf("extent_present", "extent", "hipExtent"), FIf("flags_present", "flags", "unsigned int"),
        F("return_value", "hipError_t")>>)

handle_hipArrayGetDescriptor ==
  Reply(<<F("array", "hipArray_t")>>,
    <<F("pArrayDescriptor", "HIP_ARRAY_DESCRIPTOR"), F("return_value", "hipError_t")>>)

handle_hipArray3DGetDescriptor ==
  Reply(<<F("array", "hipArray_t")>>,
    <<F("pArrayDescriptor", "HIP_ARRAY3D_DESCRIPTOR"), F("return_value", "hipError_t")>>)

handle_hipMallocMipmappedArray ==
  Reply(<<F("desc", "struct hipChannelFormatDesc"), F("extent", "struct hipExtent"),
      F("numLevels", "unsigned int"), F("flags", "unsigned int")>>,
    <<F("mipmappedArray", "hipMipmappedArray_t"), F("return_value", "hipError_t")>>)

handle_hipFreeMipmappedArray ==
  Reply(<<F("mipmappedArray", "hipMipmappedArray_t")>>, <<F("return_value", "hipError_t")>>)

handle_hipMipmappedArrayCreate ==
  Reply(<<F("pMipmappedArrayDesc", "HIP_ARRAY3D_DESCRIPTOR"),
      F("numMipmapLevels", "unsigned int")>>,
    <<F("pHandle", "hipMipmappedArray_t"), F("return_value", "hipError_t")>>)

handle_hipMipmappedArrayDestroy ==
  Reply(<<F("hMipmappedArray", "hipMipmappedArray_t")>>, <<F("return_value", "hipError_t")>>)

handle_hipMipmappedArrayGetLevel ==
  Reply(<<F("hMipMappedArray", "hipMipmappedArray_t"), F("level", "unsigned int")>>,
    <<F("pLevelArray", "hipArray_t"), F("return_value", "hipError_t")>>)

handle_hipCreateTextureObject ==
  Reply(<<F("pResDesc", "hipResourceDesc"), F("pTexDesc_present", "uint8_t"),
      FIf("pTexDesc_present", "pTexDesc", "hipTextureDesc"), F("pResViewDesc_present", "uint8_t"),
      FIf("pResViewDesc_present", "pResViewDesc", "struct hipResourceViewDesc")>>,
    <<F("pTexObject", "hipTextureObject_t"), F("return_value", "hipError_t")>>)

handle_hipDestroyTextureObject ==
  Reply(<<F("textureObject", "hipTextureObject_t")>>, <<F("return_value", "hipError_t")>>)

handle_hipGetTextureObjectResourceDesc ==
  Reply(<<F("textureObject", "hipTextureObject_t")>>,
    <<F("pResDesc", "hipResourceDesc"), F("return_value", "hipError_t")>>)

handle_hipGetTextureObjectResourceViewDesc ==
  Reply(<<F("textureObject", "hipTextureObject_t")>>,
    <<F("pResViewDesc", "struct hipResourceViewDesc"), F("return_value", "hipError_t")>>)

handle_hipGetTextureObjectTextureDesc ==
  Reply(<<F("textureObject", "hipTextureObject_t")>>,
    <<F("pTexDesc", "hipTextureDesc"), F("return_value", "hipError_t")>>)

handle_hipTexObjectCreate ==
  Reply(<<F("pResDesc", "HIP_RESOURCE_DESC"), F("pTexDesc_present", "uint8_t"),
      FIf("pTexDesc_present", "pTexDesc", "HIP_TEXTURE_DESC"), F("pResViewDesc_present", "uint8_t"),
      FIf("pResViewDesc_present", "pResViewDesc", "HIP_RESOURCE_VIEW_DESC")>>,
    <<F("pTexObject", "hipTextureObject_t"), F("return_value", "hipError_t")>>)

handle_hipTexObjectDestroy ==
  Reply(<<F("texObject", "hipTextureObject_t")>>, <<F("return_value", "hipError_t")>>)

handle_hipTexObjectGetResourceDesc ==
  Reply(<<F("texObject", "hipTextureObject_t")>>,
    <<F("pResDesc", "HIP_RESOURCE_DESC"), F("return_value", "hipError_t")>>)

handle_hipTexObjectGetResourceViewDesc ==
  Reply(<<F("texObject", "hipTextureObject_t")>>,
    <<F("pResViewDesc", "HIP_RESOURCE_VIEW_DESC"), F("return_value", "hipError_t")>>)

handle_hipTexObjectGetTextureDesc ==
  Reply(<<F("texObject", "hipTextureObject_t")>>,
    <<F("pTexDesc", "HIP_TEXTURE_DESC"), F("return_value", "hipError_t")>>)

handle_hipCreateSurfaceObject ==
  Reply(<<F("pResDesc", "hipResourceDesc")>>,
    <<F("pSurfObject", "hipSurfaceObject_t"), F("return_value", "hipError_t")>>)

handle_hipDestroySurfaceObject ==
  Reply(<<F("surfaceObject", "hipSurfaceObject_t")>>, <<F("return_value", "hipError_t")>>)

handle_hipMemAddressFree ==
  Reply(<<F("devPtr", "void*"), F("size", "size_t")>>, <<F("return_value", "hipError_t")>>)

handle_hipMemAddressReserve ==
  Reply(<<F("size", "size_t"), F("alignment", "size_t"), F("addr", "void*"),
      F("flags", "unsigned long long")>>,
    <<F("ptr", "void*"), F("return_value", "hipError_t")>>)

handle_hipMemCreate ==
  Reply(<<F("size", "size_t"), F("prop", "hipMemAllocationProp"),
      F("flags", "unsigned long long")>>,
    <<F("handle", "hipMemGenericAllocationHandle_t"), F("return_value", "hipError_t")>>)

handle_hipMemGetAccess ==
  Reply(<<F("location", "hipMemLocation"), F("ptr", "void*")>>,
    <<F("flags", "unsigned long long"), F("return_value", "hipError_t")>>)

handle_hipMemGetAllocationGranularity ==
  Reply(<<F("prop", "hipMemAllocationProp"), F("option", "hipMemAllocationGranularity_flags")>>,
    <<F("granularity", "size_t"), F("return_value", "hipError_t")>>)

handle_hipMemGetAllocationPropertiesFromHandle ==
  Reply(<<F("handle", "hipMemGenericAllocationHandle_t")>>,
    <<F("prop", "hipMemAllocationProp"), F("return_value", "hipError_t")>>)

handle_hipMemMap ==
  Reply(<<F("ptr", "void*"), F("size", "size_t"), F("offset", "size_t"),
      F("handle", "hipMemGenericAllocationHandle_t"), F("flags", "unsigned long long")>>,
    <<F("return_value", "hipError_t")>>)

handle_hipMemMapArrayAsync ==
  Reply(<<F("count", "unsigned int"), AllocArr("mapInfoList", {"count"}),
      Arr("mapInfoList", "hipArrayMapInfo", {"count"}), F("stream", "hipStream_t")>>,
    <<F("return_value", "hipError_t")>>)

handle_hipMemRelease ==
  Reply(<<F("handle", "hipMemGenericAllocationHandle_t")>>, <<F("return_value", "hipError_t")>>)

handle_hipMemRetainAllocationHandle ==
  Reply(<<F("addr", "void*")>>,
    <<F("handle", "hipMemGenericAllocationHandle_t"), F("return_value", "hipError_t")>>)

handle_hipMemSetAccess ==
  Reply(<<F("ptr", "void*"), F("size", "size_t"), F("count", "size_t"), AllocArr("desc", {"count"}),
      Arr("desc", "hipMemAccessDesc", {"count"})>>,
    <<F("return_value", "hipError_t")>>)

handle_hipMemUnmap ==
  Reply(<<F("ptr", "void*"), F("size", "size_t")>>, <<F("return_value", "hipError_t")>>)
=============================================================================
